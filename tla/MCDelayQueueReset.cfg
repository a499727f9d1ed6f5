CONSTANTS
    Radix = 2
    NumLevels = 3
    None = None
    MaxEntries = 2
    Unit = 2
    MaxNow = 10
    Instants = {3, 7, 9}
SPECIFICATION Spec
CHECK_DEADLOCK FALSE
INVARIANTS ParkedOnTime
