\* One hook, a writable register, every failure of the claim.
SPECIFICATION Spec
CONSTANTS
    Addr = {a4}
    NoAddr = NoAddr
    Phys = {p1, p2}
    NoPhys = NoPhys
    Port = p1
    Rooms <- Following
    Hooks = {h1}
    Retries = 2
    Configs <- TunnelConfigs
    Hardware <- DongleOrHdmi
    Commands = {"on", "off"}
    Faults = {"open", "gone", "raise", "nack", "claim", "noedid"}
INVARIANTS
    TunnelBeforeTalk
    TunnelInv
