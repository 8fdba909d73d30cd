SPECIFICATION Spec
CONSTANTS
    Consumer = consumer
    Browsers = {b1}
    Exports = {e1}
    Backups = {k1}
    Elsewhere = {x1}
    Conns = {x, y, z}
    PageSize = 1
    Columns <- MCColumns
    None = None
    NoKey = NoKey
    Keys = {"k"}
    Log <- MCLog
    Faults = {"pool", "write"}
SYMMETRY ConnSymmetry
INVARIANTS TypeOK PagesAreExact ExportsAreExact SomebodyGoesOn
PROPERTIES OnlyQueriesTimeOut
CHECK_DEADLOCK FALSE
