\* Two device nodes, two instances, two presses, every interleaving.
SPECIFICATION Spec
CONSTANTS
    Paths = {e1, e2}
    Configs <- EveryDebounce
    RetryDelays = 2
    MaxPlugs = 2
    MaxPresses = 2
INVARIANTS
    TypeOK
    HookRunningIsTrue
PROPERTY
    KeepsPromise
CHECK_DEADLOCK FALSE
