SPECIFICATION Spec
CONSTANTS
    SteamIds <- MCSteamIds
    Width = 2
    Bytes = {0, 1}
    ClientBytes = 6
    ControllerBytes = 5
    SteamIdAt = 1
    MirrorAt = 4
    MaxSteamIdCopies = 4
    MaxWrites = 3
INVARIANTS TypeOK RestoreUndoes
PROPERTY NothingLeft
CHECK_DEADLOCK FALSE
