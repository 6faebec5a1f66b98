CONSTANTS
    t1 = t1  t2 = t2  west = west  rwa = rwa
    Tx = {t1, t2}
    Stream = {west, rwa}
    Questions <- AllQuestions
    RateTimes = {2, 5}
    StartTime = 4
    Day = 3
    Ttl = 1
    CacheMax = 1
    MaxLatency = 1
    MaxOpen = 2
    MaxChanges = 2
    MaxTime = 7
SYMMETRY TxSymmetry
SPECIFICATION Spec
CHECK_DEADLOCK FALSE
INVARIANTS TypeOK AnswersAreRecent ADayWithoutLimit
CONSTRAINT OneKind
