SPECIFICATION Spec
CONSTANTS
    Tasks = {t1}
    Binder = binder
    NoOwner = none
    WordMax = 1
    Handles = {20, 64}
    BufSize = 1
    DevStart = 100
    DevSize = 1
    Lengths = {1}
    Files = {"trigger_irq", "dma_roundtrip"}
    LiveInputs = {1}
    FactInputs = {3}
    Masks <- MCMasks
    AddrMask = 63
    Parameters <- Policies
    CountModulus = 1
    OneCpu = FALSE
    Signals = TRUE
    Timely = FALSE
INVARIANTS
    FaultStopsBusMaster
    HandlerOnlyWhileRegistered
    QuietWhenUnbound
PROPERTIES
    FaultedStaysFaulted
