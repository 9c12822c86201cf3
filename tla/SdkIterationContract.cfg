SPECIFICATION FairSpec
CONSTANTS
    InitialBuilds <- FreshRoot
    MaxSignals = 2
    MaxFaults = 2
    PowerLoss = TRUE
    Windows = {"fork", "terminate"}
PROPERTIES
    ImplementsContract
    RunEnds
