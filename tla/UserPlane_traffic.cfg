SPECIFICATION Spec
CONSTANTS
    u1 = u1
    u2 = u2
    Ue = {u1, u2}
    Addr = {1, 2}
    Gateway = 1
    s1 = s1
    s2 = s2
    Session = {s1, s2}
    None = None
    MaxTeid = 2
    Bounds <- Scenarios
    DefaultName = FALSE
    Raw <- RawPackets
    Headers <- TPduHeaders
SYMMETRY Symmetry
INVARIANTS
    TypeOK
    AddressOwned
    TeidOwned
    ForwardedToOwner
    ExitOnlyOnReuse
CHECK_DEADLOCK FALSE
