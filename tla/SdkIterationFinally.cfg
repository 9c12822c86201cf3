SPECIFICATION Spec
CONSTANTS
    InitialBuilds <- RestoredRoot
    MaxSignals = 2
    MaxFaults = 0
    PowerLoss = FALSE
    Windows = {"finally"}
INVARIANTS
    RestoredOrReported
