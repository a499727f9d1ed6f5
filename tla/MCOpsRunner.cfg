\* Two requests of any kind, and a channel of one: every send can block.
SPECIFICATION Spec
CONSTANTS
    r1 = r1
    r2 = r2
    Ids = {r1, r2}
    None = NoId
    OpKinds = {"http", "stream", "delay"}
    Capacity = 1
SYMMETRY IdSymmetry
INVARIANTS
    TypeOK
    WebCallsCounted
    NoOpForgotten
PROPERTIES
    ResultsInOrder
\* The loop ends when an operation fails.
CHECK_DEADLOCK FALSE
