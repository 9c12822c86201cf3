SPECIFICATION FairSpec
CONSTANTS
    Tasks = {t1}
    Binder = binder
    NoOwner = none
    WordMax = 1
    Handles = {20}
    BufSize = 1
    DevStart = 100
    DevSize = 1
    Lengths = {1}
    Files = {"factorial", "trigger_irq", "dma_roundtrip"}
    LiveInputs = {1}
    FactInputs = {3}
    Masks <- MCMasks
    AddrMask = 63
    Parameters <- NoCompletion
    CountModulus = 2
    OneCpu = TRUE
    Signals = FALSE
    Timely = TRUE
INVARIANTS
    TriggerDelivered
PROPERTIES
    CallsReturn
    StatusAcknowledged
