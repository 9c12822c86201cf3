SPECIFICATION Spec
CONSTANTS
    Tasks = {t1, t2}
    Binder = binder
    NoOwner = none
    WordMax = 1
    Handles = {20}
    BufSize = 1
    DevStart = 100
    DevSize = 1
    Lengths = {1}
    Files = {"factorial", "trigger_irq", "dma_roundtrip"}
    LiveInputs = {1}
    FactInputs = {3}
    Masks <- MCMasks
    AddrMask = 63
    Parameters <- Normal
    CountModulus = 4
    OneCpu = FALSE
    Signals = FALSE
    Timely = TRUE
SYMMETRY Interchangeable
INVARIANTS
    TriggerDelivered
