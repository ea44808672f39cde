SPECIFICATION Spec
CONSTANTS
    p1 = p1
    None = None
    Orders = {1}
    Arrives <- IssuedAtStart
    Deadline <- DueAtThree
    Duels = {}
    MatchEnd = 3
    Polls = {p1}
    MaxTime = 3
    MaxMoves = 1
PROPERTIES
    LatePollIgnored
CHECK_DEADLOCK FALSE
