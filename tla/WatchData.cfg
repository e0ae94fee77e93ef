SPECIFICATION PathSpec
CONSTANTS
    Threads = {t1, t2}
    Gap = 2
    MaxClock = 5
    MaxVersion = 3
    MaxReads = 2
    Names <- MCNames
    Fold <- MCFold
    Nobody = Nobody
    Openers = {o1, o2, o3, o4}
    Limit = 2
CHECK_DEADLOCK FALSE
SYMMETRY Symmetry
INVARIANTS
    CacheIsFresh
    ChangesAreSeen
    NoAlarmIsFalse
    PlacesAreHandedOn
