SPECIFICATION FairSpec
CONSTANTS
    NumSlots = 2
    NumBots = 2
    SteamIdOf <- DistinctIds
    NameOf <- DistinctNames
    HoldFrames = 2
    CrosshairBots = {}
    Maps = {"de_dust2", "cabin"}
    Addons = {"3171695956"}
    Blacklisted = {"cabin", "3171695956"}
    Commands = {"callvote", "kick", "bot_add", "map"}
    Visitors = {}
    LateControllers = FALSE
    ForeignWrites = FALSE
    MaxLosses = 0
    MaxNesting = 1
    MaxDepth = 2
    IncarnationLimit = 2
INVARIANTS
    SuspendedIdle
    VoteSeesNativeBots
PROPERTIES
    FrameFollowsMap
    WindowCloses
    PendingIsDisguised
