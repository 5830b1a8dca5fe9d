CONSTANTS
    Owners = {o1, o2, o3}
    NoOwner = none
    Ttl = 4
    Headroom = 3
    OpTimeout = 1
    Slack = 1
    MaxClock = 7
    MaxFence = 3
SPECIFICATION Spec
SYMMETRY OwnerSymmetry
CHECK_DEADLOCK FALSE
INVARIANTS CallOwnsSession ExclusiveCall FenceNamesOneOwner
PROPERTIES TakeoverOnlyAfterExpiry
