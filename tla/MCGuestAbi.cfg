\* Guests that await nothing else while they read a stream.
SPECIFICATION Spec
CONSTANTS
    t1 = t1
    t2 = t2
    r1 = r1
    r2 = r2
    r3 = r3
    Tasks = {t1, t2}
    Ids = {r1, r2, r3}
    None = NoTask
    Null = NoValue
    Patient = TRUE
    MaxResults = 3
SYMMETRY GuestSymmetry
INVARIANTS
    TypeOK
    WakeupFindsState
    NobodyWaitsForever
    NoUnwrapOfNone
PROPERTIES
    ResultsAreQueued
\* The tasks can end.
CHECK_DEADLOCK FALSE
