\* Three modules queue for one permit; the memories do not matter.
SPECIFICATION Spec
CONSTANTS
    m1 = m1
    m2 = m2
    m3 = m3
    Modules = {m1, m2, m3}
    PoolSize = 1
    old = old
    Contents = {old}
    Blank = old
    BasePages = 1
    MaxPages = 1
INVARIANTS
    QueueIsTheWaiting
    SlotForEveryPermit
PROPERTIES
    NoStarvation
    DeadReturnsPool
\* Every module can end.
CHECK_DEADLOCK FALSE
