SPECIFICATION BeltSpec
CONSTANTS
    t1 = t1
    t2 = t2
    t3 = t3
    None = None
    Roster <- Pair
    Seeds <- ViewSeeds
    DefaultTiming <- BriefMatch
    Longest = 20
    Ttl = 5
    RushTtl = 3
    Interval = 4
    FollowUp = 2
    Jitter = 1
    PerIssue = 1
    MaxOpen = 2
    DuelEvery = 9
    Retained = 1
    TaskPoints = 4
    RushPoints = 6
    LeakPoints = 2
    DuelWin = 4
    DuelDraw = 2
    ExpiredOrder = 2
    WrongProve = 2
    HintCosts <- OneHint
    BoostFor = 2
    Cooldown = 3
    Operations = {"leak", "solve", "lightning", "hint", "rotate"}
    Players = {t1}
    LastStart = 0
    MaxSkip = 1
    Horizon = 7
    Reports = {}
    Reader = t1
    MaxLag = 1
INVARIANTS
    ViewSound
    TicksSound
    OrdersSound
PROPERTIES
    BeltForward
