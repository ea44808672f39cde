SPECIFICATION PracticeSpec
CONSTANTS
    first = first
    second = second
    PageTabs = {p1, p2}
    PageReceipts = 1
    PageRuns = 4
    PageIds = 4
    PageLost = 3
    None = None
    Questions = {first, second}
    Points <- OrderedPoints
    Prior <- OrderedPrior
    MaxReceipts = 1
    MaxOperations = 3
    Tabs = {p1}
    ScriptIds = {8}
    MaxIds = 2
    MaxSends = 3
    MaxReads = 1
    MaxRuns = 2
INVARIANTS
    TypeOK
    OperationsOnce
    ScoreEarned
    ResetsSound
PROPERTIES
    KeepsPromise
    VerdictHonest
    ViewForward
    LostAnswerRecovered
CHECK_DEADLOCK FALSE
