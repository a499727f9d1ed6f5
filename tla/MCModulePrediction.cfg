\* Predictions, and results that wait in the channel, with another module that
\* competes for the one permit.
SPECIFICATION Spec
CONSTANTS
    self = self
    Self = self
    other = other
    Others = {other}
    r1 = r1
    Ids = {r1}
    PoolSize = 1
    None = NoId
    OpKinds = {"http", "delay"}
    Capacity = 2
    old = old
    Contents = {old}
    Blank = old
    BasePages = 1
    MaxPages = 1
    WithUninstantiate = TRUE
    Interval = 1
    Before = 2
    Grace = 2
    Slack = 1
    Lead = 1
    Far = 9
    Predictions <- PastOrAhead
INVARIANTS
    LoadedBeforePrediction
    WebAnswersReadFirst
\* The task can end.
CHECK_DEADLOCK FALSE
