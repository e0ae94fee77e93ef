SPECIFICATION Spec
CONSTANTS
    c1 = c1
    c2 = c2
    Clients = {c1, c2}
    Worker = worker
    Initial = initial
    Flights <- MCFlights
    NoFlight = 0
    MaxEdits = 2
    Broken = {1}
    Methods <- AllMethods
    Faults = {"panic", "onStart", "remove", "write"}
SYMMETRY Symmetry
INVARIANTS
    TypeOK
    OneBuild
    QuietAfterDispose
    CancelHitsItsFlight
    OutputsTracked
