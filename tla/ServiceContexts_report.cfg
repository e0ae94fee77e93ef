SPECIFICATION Spec
CONSTANTS
    Keys = {k}
    Workers = {w1, w2}
    Main = main
    Contexts = {x, y, z}
    Groups = {g1, g2, g3}
    None = none
    HasOnEnd = FALSE
    Commands <- AllCommands
    MaxRequests = 4
CHECK_DEADLOCK FALSE
INVARIANTS
    ManualRebuildsReported
