SPECIFICATION Spec
CONSTANTS
    NumShares = 2
    MaxOpens = 3
    MaxQuits = 1
    Fstab = {1}
INVARIANT TellsTruly
PROPERTY EachBootIsTold
CHECK_DEADLOCK FALSE
