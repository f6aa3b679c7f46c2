\* A re-claim that fails ends the wake before its last attempt.
SPECIFICATION Spec
CONSTANTS
    Addr = {a4}
    NoAddr = NoAddr
    Phys = {p1, p2}
    NoPhys = NoPhys
    Port = p1
    Rooms <- Following
    Hooks = {h1}
    Retries = 2
    Configs <- ShippedFive
    Hardware <- Dongle
    Commands = {"on"}
    Faults = {"nack", "claim"}
INVARIANT
    GivesUpOnlyAtTheEnd
