\* A press, a suspend and a resume on a bus that works.
SPECIFICATION FairSystemSpec
CONSTANTS
    Addr = {a4}
    NoAddr = NoAddr
    Phys = {p1, p2}
    NoPhys = NoPhys
    Port = p1
    Rooms <- AnyRoom
    Hooks = {hs, hr, hw}
    Sleep = hs
    Resume = hr
    Retries = 2
    Configs <- SomeAttempts
    Hardware <- Dongle
    Commands = {"on", "off"}
    Faults = {}
VIEW SystemView
INVARIANTS
    SystemTypeOK
    WakesDeliverTogether
    TunnelAfterSuspend
PROPERTY
    ResumeWakes
