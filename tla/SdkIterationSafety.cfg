SPECIFICATION Spec
CONSTANTS
    InitialBuilds <- AnyRoot
    MaxSignals = 2
    MaxFaults = 2
    PowerLoss = TRUE
    Windows = {}
INVARIANTS
    EvidenceMeansRestored
    RestoredOrReported
    NothingLeftRunning
