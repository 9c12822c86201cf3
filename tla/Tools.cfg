\* the diagnostics and their tools, the evidence, the lab catalog, the trust verdict
SPECIFICATION ToolsSpec
CONSTANTS
    Command <- MCCommand
    Lab <- MCLab
    DefaultLab = "pci-x86-64"
    Selector <- MCSelector
    Source <- MCSource
    ConfFile <- MCConfFile
    Evidence <- MCEvidence
    Inode <- MCInode
    Outside = 3
    Maximum = 2
    MaxChanges = 3
    Limit = 2
    MaxWritten = 4
    MaxEdits = 2
    Profile = {"pci-v3", "platform-v1"}
    Outcomes <- MCOutcomes
    Earlier <- MCEarlier
    Stored <- MCStored
    Image = "image"
    Required <- MCRequired
    Forbidden = {"debug", "sample"}
    Graphs <- MCGraphs
    Deploys <- MCDeploys
    Manifests <- MCManifests
    Indexes <- MCIndexes
    Locks <- MCLocks
    Selections = {"default", "b", "unknown"}
    MaxCatalogEdits = 1
    Observations <- MCObservations
    Refreshed <- MCRefreshed
    Texts <- MCTexts
    MaxRefreshes = 1
INVARIANTS
    
    ZeroMeansPassingEvidence
    InvokeContained
    ValidatorExact
    PassNamesTestedTree
    SbomFailClosed
    SbomPassMeansImage
    CatalogSeparate
    TrustExact
PROPERTIES
    ReadIsWhole
    InvokeReturns
CHECK_DEADLOCK FALSE
