\* A VENDOR_ID that is no number stops a wake.
SPECIFICATION Spec
CONSTANTS
    Addr = {a4}
    NoAddr = NoAddr
    Phys = {p1, p2}
    NoPhys = NoPhys
    Port = p1
    Rooms <- Following
    Hooks = {h1}
    Retries = 2
    Configs <- GarbageVendor
    Hardware <- Dongle
    Commands = {"on"}
    Faults = {}
INVARIANT
    BrokenConfigStillWakes
