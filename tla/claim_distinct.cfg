SPECIFICATION Spec
CONSTANTS
    NumSlots = 2
    NumBots = 1
    SteamIdOf <- DistinctIds
    NameOf <- DistinctNames
    HoldFrames = 2
    CrosshairBots = {}
    Maps = {}
    Addons = {}
    Blacklisted = {}
    Commands = {}
    Visitors = {}
    LateControllers = FALSE
    ForeignWrites = FALSE
    MaxLosses = 1
    MaxNesting = 1
    MaxDepth = 2
    IncarnationLimit = 2
INVARIANT LiveSlotsDistinct
