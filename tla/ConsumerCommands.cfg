SPECIFICATION Spec
CONSTANTS
    Starts = {s1, s2, s3}
    Stops = {t1}
    Reads = {}
    None = None
    NoKey = NoKey
    Keys = {"k"}
    Log <- MCShortLog
    Configs <- ShortConfig
    Faults = {"assign", "stream", "end"}
SYMMETRY CallSymmetry
INVARIANTS TypeOK SingleConsumer
PROPERTIES ImplementsControl
CHECK_DEADLOCK FALSE
