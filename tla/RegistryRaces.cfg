SPECIFICATION Spec
CONSTANTS
    i1 = i1
    t1 = t1
    t2 = t2
    Calls = {c1, c2, c3}
    Requests <- Races
    Faults = {"assign", "setup", "end", "stream"}
    Ids = {i1}
    Topics = {t1, t2}
    Tables <- OwnTables
    TableName <- OwnTableName
    None = None
CONSTRAINT StillPromised
SYMMETRY RegistrySymmetry
INVARIANTS TypeOK LoopsAreReachable TableIsKept
PROPERTIES ImplementsOnce
CHECK_DEADLOCK FALSE
