SPECIFICATION Spec
CONSTANTS
    NumSlots = 2
    NumBots = 2
    SteamIdOf <- DistinctIds
    NameOf <- DistinctNames
    HoldFrames = 2
    CrosshairBots = {}
    Maps = {}
    Addons = {}
    Blacklisted = {}
    Commands = {}
    Visitors = {}
    LateControllers = TRUE
    ForeignWrites = FALSE
    MaxLosses = 0
    MaxNesting = 1
    MaxDepth = 2
    IncarnationLimit = 2
INVARIANT ControllerDisguised
