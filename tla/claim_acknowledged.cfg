\* A wake reports success with nothing acknowledged.
SPECIFICATION Spec
CONSTANTS
    Addr = {a4}
    NoAddr = NoAddr
    Phys = {p1, p2}
    NoPhys = NoPhys
    Port = p1
    Rooms <- Following
    Hooks = {h1}
    Retries = 2
    Configs <- OnlyShipped
    Hardware <- Dongle
    Commands = {"on"}
    Faults = {"contended"}
INVARIANT
    SomethingAcknowledged
