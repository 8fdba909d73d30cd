SPECIFICATION FairSpec
CONSTANTS
    Starts = {s1, s2}
    Stops = {t1}
    Reads = {r1}
    None = None
    NoKey = NoKey
    Keys = {"k"}
    Log <- MCShortLog
    Configs <- ShortConfig
    Faults = {"assign", "setup", "insert", "pause", "stream", "end"}
INVARIANTS GuardsExclude
PROPERTIES AbortedLoopsEnd CommandsReturn
CHECK_DEADLOCK FALSE
