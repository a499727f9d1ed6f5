CONSTANTS
    N = 3
    Kind <- MCKind
    MaxNonce = 2
    MaxDeletes = 1
    MaxRestarts = 1
SPECIFICATION FairSpec
CHECK_DEADLOCK FALSE
INVARIANT TypeOK
PROPERTIES NoncesNeverFall SettledRingIsQuiet Propagates
