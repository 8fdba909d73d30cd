SPECIFICATION Spec
CONSTANTS
    Calls = {c1, c2}
    Subjects = {s1}
    Ids = {1, 2, 3}
    Unparsable = {3}
    MaxVersions = 2
    QueueLimit = 1
    Levels = {1}
    Faults = {"code", "lost"}
SYMMETRY CallSymmetry
INVARIANTS TypeOK CacheIsTrue CachedStaysReadable AnswerIsOneMoment ProducedIsLatest
