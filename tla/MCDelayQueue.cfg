CONSTANTS
    Radix = 2
    NumLevels = 3
    None = None
    MaxEntries = 2
    Unit = 2
    MaxNow = 10
    Instants = {3, 9, 16}
SPECIFICATION FairSpec
CHECK_DEADLOCK FALSE
INVARIANTS TypeOK WheelExact KeysResolve NoAssertFails
PROPERTIES DelayKept ImplementsDeadlineMap EveryEntryExpires
