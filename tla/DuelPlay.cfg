CONSTANTS
    ta = ta
    tb = tb
    tc = tc
    None = None
    Teams = {ta, tb}
    DuelCount = 2
    Home <- PairHome
    Away <- PairAway
    IssueAt <- PairIssueAt
    Ttl = 2
    MatchEnd = 3
    Hands = {1, 2, 3}
    Q = 3
    LogH = 2
    Blindings = {0, 1}
    MaxAttempts = 0
    Cooldown = 1
    DuelWin = 3
    DuelDraw = 1
    ExpiredOrder = 2
    HuntBonus = 2
    HuntPenalty = 1
    WrongHunt = 1
    RotateFees = {0}
    Attackers = {ta, tb}
    Rotators = {ta, tb}
    MaxGen = 1
SPECIFICATION Spec
CHECK_DEADLOCK FALSE
INVARIANTS
    TypeOK
    PairAgrees
PROPERTIES
    SealsFinal
    DuelsEnd
