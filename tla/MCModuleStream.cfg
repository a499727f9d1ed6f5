\* A module that watches a stream.
SPECIFICATION Spec
CONSTANTS
    self = self
    Self = self
    Others = {}
    r1 = r1
    Ids = {r1}
    PoolSize = 1
    None = NoId
    OpKinds = {"stream"}
    Capacity = 1
    old = old
    Contents = {old}
    Blank = old
    BasePages = 1
    MaxPages = 1
    WithUninstantiate = TRUE
    Interval = 1
    Before = 2
    Grace = 2
    Slack = 1
    Lead = 1
    Far = 9
    Predictions <- PastOrAhead
PROPERTIES
    SwapOnlyAfterEvents
\* The task can end.
CHECK_DEADLOCK FALSE
