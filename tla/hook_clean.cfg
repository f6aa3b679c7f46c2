\* One hook on a bus that works, over every switch of the configuration, with or
\* without its adapter and its claim.
SPECIFICATION Spec
CONSTANTS
    Addr = {a4}
    NoAddr = NoAddr
    Phys = {p1, p2}
    NoPhys = NoPhys
    Port = p1
    Rooms <- Following
    Hooks = {h1}
    Retries = 2
    Configs <- CleanConfigs
    Hardware <- AnyHardware
    Commands = {"on", "off"}
    Faults = {"open", "gone", "raise", "claim", "noedid"}
INVARIANTS
    WakeDelivers
    QuietWhenDone
    StandbyDelivers
