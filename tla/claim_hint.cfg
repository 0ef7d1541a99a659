SPECIFICATION Spec
CONSTANTS
    NumSlots = 2
    NumBots = 2
    SteamIdOf <- DistinctIds
    NameOf <- DistinctNames
    HoldFrames = 2
    CrosshairBots = {}
    Maps = {"de_dust2", "cabin"}
    Addons = {}
    Blacklisted = {"cabin"}
    Commands = {"map"}
    Visitors = {}
    LateControllers = FALSE
    ForeignWrites = FALSE
    MaxLosses = 0
    MaxNesting = 1
    MaxDepth = 2
    IncarnationLimit = 2
PROPERTY HintSuspends
