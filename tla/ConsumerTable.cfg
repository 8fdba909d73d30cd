SPECIFICATION FairSpec
CONSTANTS
    Starts = {s1}
    Stops = {t1}
    Reads = {}
    None = None
    NoKey = NoKey
    Keys = {"a", "b"}
    Log <- MCMixedLog
    Configs <- MixedConfigs
    Faults = {"pause"}
INVARIANTS TableIsExact
PROPERTIES ConsumesAll
CHECK_DEADLOCK FALSE
