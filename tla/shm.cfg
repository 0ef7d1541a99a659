SPECIFICATION Spec
CONSTANTS
    Slots = {"slot 0"}
    Bots = {"a", "b"}
    None = "none"
    PingOf <- MCPings
    FeatureSets <- MCFeatures
    MayUnload = TRUE
    MaxRegions = 2
    MaxIncarnation = 2
INVARIANTS TypeOK RegionTellsHolders ConfirmedSnapshotIsRight PingIsHolders
