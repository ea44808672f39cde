SPECIFICATION BattleSpec
CONSTANTS
    t1 = t1
    t2 = t2
    t3 = t3
    None = None
    Teams = {t1, t2, t3}
    OfferAfter = 1
    Ttl = 2
    MatchEnd = 5
    Loot = 2
    ExpiredOrder = 2
    WrongProve = 1
    OtherPoints = 3
    MaxScore = 3
    NTeams = 3
    Bonus <- TwoEach
    Penalty = 1
    WrongHunt = 1
    Voided = {1}
    MaxAttempts = 1
    EndgameAt = 2
    Stored <- OldStates
    Hunts <- SixHunts
    MaxTime = 2
    MaxGen = 2
    MaxWon = 3
    MaxUpgrades = 2
SYMMETRY TeamSymmetry
INVARIANTS
    ItemSafe
    ScoreExplained
    HuntsSound
PROPERTIES
    LapsedForGood
CHECK_DEADLOCK FALSE
