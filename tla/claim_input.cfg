\* A receiver that plays another input is taken to play ours.
SPECIFICATION Spec
CONSTANTS
    Addr = {a4}
    NoAddr = NoAddr
    Phys = {p1, p2}
    NoPhys = NoPhys
    Port = p1
    Rooms <- SoundElsewhere
    Hooks = {h1}
    Retries = 2
    Configs <- OnlyShipped
    Hardware <- Dongle
    Commands = {"on"}
    Faults = {}
INVARIANT
    RepointsTheReceiver
