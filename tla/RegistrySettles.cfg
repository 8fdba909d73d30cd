SPECIFICATION Spec
CONSTANTS
    i1 = i1
    t1 = t1
    t2 = t2
    Calls = {c1, c2, c3}
    Requests <- FirstUses
    Faults = {"build", "table"}
    Ids = {i1}
    Topics = {t1}
    Tables <- OwnTables
    TableName <- OwnTableName
    None = None
PROPERTIES SettledForGood
CHECK_DEADLOCK FALSE
