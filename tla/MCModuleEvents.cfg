\* One request at a time, of every kind, and predictions, also in the past.
SPECIFICATION Spec
CONSTANTS
    self = self
    Self = self
    Others = {}
    r1 = r1
    Ids = {r1}
    PoolSize = 1
    None = NoId
    OpKinds = {"http", "stream", "delay"}
    Capacity = 1
    old = old
    Contents = {old}
    Blank = old
    BasePages = 1
    MaxPages = 1
    WithUninstantiate = TRUE
    Interval = 1
    Before = 2
    Grace = 2
    Slack = 1
    Lead = 1
    Far = 9
    Predictions <- PastOrAhead
INVARIANTS
    TypeOK
    ResidentDuringWebCall
    NoLostWakeup
PROPERTIES
    SwapOnlyWhenQuiet
    IdleIsSwapped
    DelayIsAnswered
\* The task can end.
CHECK_DEADLOCK FALSE
