SPECIFICATION Spec
CONSTANTS
    Starts = {s1}
    Stops = {}
    Reads = {r1}
    None = None
    NoKey = NoKey
    Keys = {"k"}
    Log <- MCShortLog
    Configs <- ShortConfig
    Faults = {"stream"}
INVARIANT IsRunningIsTrue
CHECK_DEADLOCK FALSE
