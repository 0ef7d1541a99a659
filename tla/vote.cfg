SPECIFICATION Spec
CONSTANTS
    NumSlots = 2
    NumBots = 2
    SteamIdOf <- DistinctIds
    NameOf <- DistinctNames
    HoldFrames = 2
    CrosshairBots = {}
    Maps = {}
    Addons = {}
    Blacklisted = {}
    Commands = {"callvote", "kick", "bot_kick name", "bot_kick unknown", "bot_add"}
    Visitors = {"human"}
    LateControllers = TRUE
    ForeignWrites = TRUE
    MaxLosses = 0
    MaxNesting = 2
    MaxDepth = 2
    IncarnationLimit = 2
INVARIANTS
    TypeOK
    DisguiseRestored
    WindowScheduled
    PopDepthReturns
PROPERTY
    HoldKept
