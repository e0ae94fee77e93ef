SPECIFICATION Spec
CONSTANTS
    Keys = {k}
    Workers = {w1, w2, w3, w4}
    Main = main
    Contexts = {x, y, z, u}
    Groups = {g1, g2, g3, g4}
    None = none
    HasOnEnd = FALSE
    Commands <- AllCommands
    MaxRequests = 7
CHECK_DEADLOCK FALSE
SYMMETRY Symmetry
INVARIANTS
    RegistryIsConsistent
    NativeOutlivesOperations
    CleanupComesFirst
    CancelReachesFlights
PROPERTIES
    CancelCoversAdmitted
