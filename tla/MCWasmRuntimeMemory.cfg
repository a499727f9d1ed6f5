\* Two modules share one slot; contents and sizes of the memories vary.
SPECIFICATION Spec
CONSTANTS
    m1 = m1
    m2 = m2
    Modules = {m1, m2}
    PoolSize = 1
    old = old
    new = new
    Contents = {old, new}
    Blank = old
    BasePages = 1
    MaxPages = 2
INVARIANTS
    TypeOK
    PermitsConserved
    WorkFindsInstance
    SwapFileFits
PROPERTIES
    MemoryPreserved
\* Every module can end.
CHECK_DEADLOCK FALSE
