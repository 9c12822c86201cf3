SPECIFICATION Spec
CONSTANTS
    Tasks = {t1, t2}
    Binder = binder
    NoOwner = none
    WordMax = 1
    Handles = {20}
    BufSize = 1
    DevStart = 100
    DevSize = 1
    Lengths = {1}
    Files = {"factorial"}
    LiveInputs = {1}
    FactInputs = {2, 3}
    Masks <- MCMasks
    AddrMask = 63
    Parameters <- Normal
    CountModulus = 1
    OneCpu = TRUE
    Signals = TRUE
    Timely = TRUE
SYMMETRY Interchangeable
INVARIANTS
    FactorialCorrect
