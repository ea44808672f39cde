CONSTANTS
    ta = ta
    tb = tb
    tc = tc
    None = None
    Teams = {ta, tb, tc}
    DuelCount = 3
    Home <- TrioHome
    Away <- TrioAway
    IssueAt <- TrioIssueAt
    Ttl = 2
    MatchEnd = 4
    Hands = {1}
    Q = 1
    LogH = 1
    Blindings = {0}
    MaxAttempts = 1
    Cooldown = 1
    DuelWin = 1
    DuelDraw = 0
    ExpiredOrder = 1
    HuntBonus = 2
    HuntPenalty = 1
    WrongHunt = 1
    RotateFees = {0}
    Attackers = {ta}
    Rotators = {tb}
    MaxGen = 2
SPECIFICATION Spec
CHECK_DEADLOCK FALSE
INVARIANTS
    PendingSealed
    ReservationsExact
    AttemptsHonoured
PROPERTIES
    CancelledFree
