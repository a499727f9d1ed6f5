CONSTANTS
    m1 = m1
    m2 = m2
    m3 = m3
    Modules <- MCModules
    Codes = {a, b, bad}
    Broken = {bad}
    Capacity = 1
    None = None
    Short = Short
    MaxKills = 1
    MaxReplaces = 1
SPECIFICATION FairSpec
CHECK_DEADLOCK FALSE
INVARIANTS TypeOK RunsOwnCode
PROPERTY EveryModuleStarts
