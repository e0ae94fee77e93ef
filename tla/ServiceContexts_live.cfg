SPECIFICATION Spec
CONSTANTS
    Keys = {k}
    Workers = {w1, w2, w3}
    Main = main
    Contexts = {x, y, z}
    Groups = {g1, g2, g3}
    None = none
    HasOnEnd = FALSE
    Commands <- AllCommands
    MaxRequests = 5
CHECK_DEADLOCK FALSE
PROPERTIES
    RequestsAnswered
    ShutdownDisposesAll
