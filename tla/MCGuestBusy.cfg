\* A guest that awaits another request between two values of a stream.
SPECIFICATION Spec
CONSTANTS
    t1 = t1
    t2 = t2
    r1 = r1
    r2 = r2
    r3 = r3
    Tasks = {t1, t2}
    Ids = {r1, r2, r3}
    None = NoTask
    Null = NoValue
    Patient = FALSE
    MaxResults = 3
SYMMETRY GuestSymmetry
PROPERTIES
    NextValues
\* The tasks can end.
CHECK_DEADLOCK FALSE
