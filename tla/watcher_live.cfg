\* One device node, two instances, two presses, under the event loop's fairness.
SPECIFICATION FairSpec
CONSTANTS
    Paths = {e1}
    Configs <- JustDefault
    RetryDelays = 1
    MaxPlugs = 2
    MaxPresses = 2
PROPERTIES
    ConnectedGetsWatched
    PressWakes
    NeverDeaf
CHECK_DEADLOCK FALSE
