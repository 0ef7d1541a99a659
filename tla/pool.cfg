SPECIFICATION Spec
CONSTANTS
    NumSlots = 2
    NumBots = 4
    SteamIdOf <- SharedIds
    NameOf <- SharedNames
    HoldFrames = 2
    CrosshairBots = {}
    Maps = {}
    Addons = {}
    Blacklisted = {}
    Commands = {"callvote", "kick", "bot_kick unknown", "bot_add"}
    Visitors = {"human", "hltv"}
    LateControllers = FALSE
    ForeignWrites = TRUE
    MaxLosses = 1
    MaxNesting = 1
    MaxDepth = 2
    IncarnationLimit = 2
INVARIANTS
    RegistryConsistent
    UniqueSteamId
    SteamIdOwned
    ShmMatchesRegistry
    ManagedAreBots
PROPERTIES
    ImplementsLease
    HoldTickReasserts
