SPECIFICATION FairSpec
CONSTANTS
    Users = {u1, u2}
    Bits = {b1, b2}
    b1 = b1
    b2 = b2
    Masks <- MCMasks
    Words = {0, 1}
    MaxCount = 2
INVARIANTS
    TypeOK
    QuietAfterRemoval
    StatusNotOlderThanCount
    NoRaiseSwallowed
    RaiseShowsItsMask
PROPERTIES
    EveryBitAcknowledged
