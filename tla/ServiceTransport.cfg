SPECIFICATION Spec
CONSTANTS
    Main = main
    Pinger = pinger
    Builder = builder
    Jobs = {j1}
    None = none
    IdSpace = 2
    ExitOnWriteError = TRUE
    MaxCalls = 3
CHECK_DEADLOCK FALSE
INVARIANTS
    AnswersMatchCalls
    RequestsAreServed
PROPERTIES
    ServiceEnds
