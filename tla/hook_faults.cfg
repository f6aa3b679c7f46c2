\* One hook and everything that can go wrong: it keeps its contract, and it ends.
SPECIFICATION FairSpec
CONSTANTS
    Addr = {a4}
    NoAddr = NoAddr
    Phys = {p1}
    NoPhys = NoPhys
    Port = p1
    Rooms <- Settled
    Hooks = {h1}
    Retries = 2
    Configs <- FaultConfigs
    Hardware <- Dongle
    Commands = {"on", "off", "on --dry-run"}
    Faults = {"open", "gone", "raise", "contended", "nack", "silence", "late", "claim", "clear", "write", "noedid", "reset"}
INVARIANTS
    TypeOK
    RequiredLanded
    WakeLights
    AbsentReceiverUntouched
PROPERTIES
    KeepsContract
    Terminates
