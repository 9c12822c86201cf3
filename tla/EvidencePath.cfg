\* doctor against the place where a run leaves its evidence
SPECIFICATION RecordsSpec
CONSTANTS
    MaxEdits = 2
    Profile = {"pci-v3", "platform-v1"}
    Outcomes <- MCOutcomes
    Earlier <- MCEarlier
    Stored <- MCStored
    Image = "image"
    Required <- MCRequired
    Forbidden = {"debug", "sample"}
    Graphs <- MCGraphs
    Deploys <- MCDeploys
    Manifests <- MCManifests
    Indexes <- MCIndexes
    Locks <- MCLocks
    Selections = {"default", "b", "unknown"}
    MaxCatalogEdits = 1
    Observations <- MCObservations
    Refreshed <- MCRefreshed
    Texts <- MCTexts
    MaxRefreshes = 1
INVARIANTS
    DoctorSeesFreshPass
CHECK_DEADLOCK FALSE
