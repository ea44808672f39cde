----------------------------- MODULE MCOrderBelt -----------------------------
(* Instances of MatchView and OrderBelt: small rosters, and seeds that differ *)
(* in the tasks, the rush orders and the jitter of the arrivals.              *)
EXTENDS MatchView

CONSTANTS t1, t2, t3

Pair == <<t1, t2>>
Trio == <<t1, t2, t3>>

\* The jitter repeats; each seed starts it elsewhere.
Rolls(first) == <<first, (first + 2) % 3, (first + 1) % 3>>

CalmSeeds == <<[task |-> <<"evolve">>, rush |-> {<<t1, 1>>}, roll |-> Rolls(1)]>>
MixedSeeds ==
    <<[task |-> <<"cipher", "prove", "disclose">>, rush |-> {<<t2, 2>>}, roll |-> Rolls(0)],
      [task |-> <<"evolve", "calc", "cipher">>, rush |-> {<<t1, 1>>}, roll |-> Rolls(2)]>>

ShortMatch == [length |-> 12, toPressure |-> 4, toEndgame |-> 8]
OneHint == <<1>>

\* A team at its page, on a belt that is short of orders: the constants of the configuration.
ViewSeeds ==
    <<[task |-> <<"cipher">>, rush |-> {<<t1, 2>>}, roll |-> Rolls(2)]>>
BriefMatch == [length |-> 7, toPressure |-> 2, toEndgame |-> 4]

VARIABLE part

\* A longer match, and nobody who looks at a page: every end an order and its card can come to.
Cards == INSTANCE OrderBelt WITH
    Seeds <- MixedSeeds, Cooldown <- 9, Interval <- 3,
    Operations <- {"leak", "solve", "miss", "prove", "lightning", "rotate"},
    DefaultTiming <- ShortMatch, Horizon <- 13, Reports <- {10, 13}, DuelEvery <- 2

\* The same belt where few operations are used, the start is late, the clock skips instants
\* and the end moves before the boundary, after it and beyond the horizon.
Ending == INSTANCE OrderBelt WITH
    Seeds <- CalmSeeds, LeakPoints <- 1, WrongProve <- 1, Cooldown <- 9, Interval <- 3,
    Operations <- {"solve", "duel"}, LastStart <- 9, MaxSkip <- 3,
    DefaultTiming <- ShortMatch, Horizon <- 14, Reports <- {7, 11, 13}, DuelEvery <- 2

BeltInit ==
    \/ part = "cards" /\ Cards!Init /\ wall = 0 /\ page = None
    \/ part = "ending" /\ Ending!Init /\ wall = 0 /\ page = None
    \/ part = "view" /\ ViewInit

BeltNext ==
    /\ UNCHANGED part
    /\ \/ part = "cards" /\ Cards!Next /\ UNCHANGED <<wall, page>>
       \/ part = "ending" /\ Ending!Next /\ UNCHANGED <<wall, page>>
       \/ part = "view" /\ ViewNext

BeltSpec == BeltInit /\ [][BeltNext]_<<part, viewVars>>

\* Nothing depends on when the clock is looked at: not what a tick leaves behind, and not
\* whether and when the endgame is distributed (OrderBelt: TypeOK, ClockSound).
TicksSound ==
    /\ part = "cards" => Cards!TypeOK
    /\ part = "ending" => Ending!TypeOK /\ Ending!ClockSound
    /\ part = "view" => TypeOK
=============================================================================
