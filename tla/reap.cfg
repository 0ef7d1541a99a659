SPECIFICATION Spec
CONSTANTS
    NumSlots = 2
    UserIds = {u1, u2}
    CanRemove = TRUE
    MaxSerial = 2
    MaxPending = 1
INVARIANT TypeOK
PROPERTIES
    RowsOfClientsKept
    ControllersOfClientsKept
    KickidHitsTarget
    OrphansLeaveTeams
    WaitsForOnePass
SYMMETRY UserIdSymmetry
