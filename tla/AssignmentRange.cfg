SPECIFICATION FairSpec
CONSTANTS
    Partitions = {p1, p2}
    Times = {0, 1, 2}
    Configs <- MCConfigs
    Faults = {"ask", "pause", "store", "commit"}
    None = None
    LogEnd = LogEnd
    MaxLog = 3
INVARIANTS TypeOK NoneMissed EndMeansNow OldOnesAreNew PauseLosesNothing
PROPERTIES ConsumesRange GroupMovesAtOnce
CHECK_DEADLOCK FALSE
