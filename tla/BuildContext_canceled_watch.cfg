SPECIFICATION Spec
CONSTANTS
    c1 = c1
    c2 = c2
    Clients = {c1}
    Worker = worker
    Initial = initial
    Flights <- MCFlights
    NoFlight = 0
    MaxEdits = 1
    Broken = {}
    Methods <- AllMethods
    Faults = {}
PROPERTIES
    WatchDataRetained
