SPECIFICATION Spec
CONSTANTS
    Tasks = {t1, t2}
    Binder = binder
    NoOwner = none
    WordMax = 1
    Handles = {20}
    BufSize = 2
    DevStart = 100
    DevSize = 2
    Lengths = {0, 2, 3}
    Files = {"liveness", "factorial", "dma_roundtrip"}
    LiveInputs = {0, 1}
    FactInputs = {3, 13}
    Masks <- MCMasks
    AddrMask = 63
    Parameters <- Normal
    CountModulus = 4
    OneCpu = FALSE
    Signals = FALSE
    Timely = TRUE
SYMMETRY Interchangeable
INVARIANTS
    TypeOK
    MutualExclusion
    FactorialCorrect
    DmaSound
    FactorialIrqOnlyDuringOperation
