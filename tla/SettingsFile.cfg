SPECIFICATION Spec
CONSTANTS
    Windows = {w1, w2}
    Ids = {"i1", "i2"}
    Names = {"a", "b"}
    Topics = {t1}
    Files <- MCFiles
    Legacies <- MCLegacies
    Entered = {"Ssl"}
    Registries = {"url"}
    MaxEdits = 2
    MaxQueue = 2
SYMMETRY WindowSymmetry
INVARIANTS TypeOK LoadsWhatWasSaved EmptyFileExplained OnlyKnownIsSaved
