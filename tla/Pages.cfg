SPECIFICATION PlaySpec
CONSTANTS
    p1 = p1
    p2 = p2
    None = None
    Absent = Absent
    t1 = t1
    t2 = t2
    LeakPoints = 1
    Orders = {1, 2}
    Arrives <- BothAtStart
    Deadline <- DueTwoThree
    Duels = {1}
    MatchEnd = 3
    Polls = {p1, p2}
    MaxTime = 3
    MaxMoves = 1
    Tabs = {p1, p2}
    Secrets = {2, 7, 10}
    Draws = {0, 3, 10}
    Challenges = {0, 5, 10}
SYMMETRY Alike
CHECK_DEADLOCK FALSE
INVARIANTS
    PanelSound
    ProofsSound
    RowsSound
    KeysSound
PROPERTIES
    PanelForward
