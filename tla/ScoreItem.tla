------------------------------ MODULE ScoreItem ------------------------------
(***************************************************************************)
(* The optional score item of the crypto battle (score-steal.ts, and the    *)
(* reducer's tick that offers it).  Each team is offered one order for the  *)
(* item; a right claim gives the item, a use moves points from another team *)
(* that has not lost points to an item before.                              *)
(*                                                                         *)
(* The rest of the match is what OrderBelt models; here it is a choice of   *)
(* which teams have a slot in a batch (Tick) and what other moves change a  *)
(* score (Play).  Ticks visit every instant: PollingImmaterial of OrderBelt *)
(* shows that a late host changes nothing.                                  *)
(***************************************************************************)
EXTENDS Integers, Sequences, FiniteSets, Folds, Functions

CONSTANTS
    Teams,         \* ctx.teamIds
    None,          \* an absent order
    OfferAfter,    \* five minutes after START
    Ttl,           \* contractTtlMs
    MatchEnd,      \* matchDurationMs
    Loot,          \* points a use moves at most (10)
    ExpiredOrder,  \* what a lapsed order costs
    WrongProve,    \* what a wrong claim costs
    OtherPoints,   \* what another order pays
    MaxScore       \* bound of the model: other orders pay up to this score

ASSUME TeamAssumption == IsFiniteSet(Teams)
ASSUME ClockAssumption == OfferAfter \in Nat \ {0} /\ Ttl \in Nat \ {0} /\ MatchEnd \in Nat \ {0}
ASSUME PriceAssumption ==
    /\ Loot \in Nat \ {0} /\ OtherPoints \in Nat /\ MaxScore \in Nat
    /\ ExpiredOrder \in Nat /\ WrongProve \in Nat

Statuses == {"waiting", "offered", "held", "spent"}
Orders == [status : {"open", "completed", "expired"}, expiresAt : 0..MatchEnd]
Transfers == [from : Teams, to : Teams, points : 1..Loot, at : 0..MatchEnd]
ASSUME NoneAssumption == None \notin Orders

VARIABLES
    started,    \* startedAtMs is set
    now,        \* nowMs, counted from START
    score,      \* teams[t].score
    status,     \* scoreSteal.players[t].status
    order,      \* the contract of t whose task is ssm-decrypt
    transfers,  \* scoreSteal.transfers
    own         \* history: what t's own moves and penalties added up to

vars == <<started, now, score, status, order, transfers, own>>

Init ==
    /\ started = FALSE /\ now = 0 /\ transfers = <<>>
    /\ score = [t \in Teams |-> 0]
    /\ own = [t \in Teams |-> 0]
    /\ status = [t \in Teams |-> "waiting"]
    /\ order = [t \in Teams |-> None]

Ended == now >= MatchEnd
Playing == started /\ ~Ended

Floored(x) == IF x < 0 THEN 0 ELSE x

Start ==
    /\ ~started
    /\ started' = TRUE
    /\ UNCHANGED <<now, score, status, order, transfers, own>>

\* Another move of t pays: any order but the item's.
Play(t) ==
    /\ Playing
    /\ score[t] + OtherPoints <= MaxScore
    /\ score' = [score EXCEPT ![t] = @ + OtherPoints]
    /\ own' = [own EXCEPT ![t] = @ + OtherPoints]
    /\ UNCHANGED <<started, now, status, order, transfers>>

-----------------------------------------------------------------------------
(* The tick: deadlines first, then the batch.                              *)

OpenFor(t) == order[t] # None /\ order[t].status = "open"

Lapses(t, at) == OpenFor(t) /\ order[t].expiresAt <= at

MutMayOffer(t, at) ==
    status[t] \in {"waiting", "offered"} /\ ~OpenFor(t) /\ at >= OfferAfter /\ at < MatchEnd

\* A batch offers a team the item once.
MayOffer(t, at) == status[t] = "waiting" /\ at >= OfferAfter /\ at < MatchEnd

Least(a, b) == IF a <= b THEN a ELSE b

OrderAfter(t, at, slots) ==
    IF t \in slots THEN [status |-> "open", expiresAt |-> Least(at + Ttl, MatchEnd)]
    ELSE IF Lapses(t, at) THEN [order[t] EXCEPT !.status = "expired"]
    ELSE order[t]

StatusAfter(t, slots) == IF t \in slots THEN "offered" ELSE status[t]

\* One instant passes.  `slots` are the teams that the batch of this instant
\* gives an ordinary slot, those for whom it becomes the item's.
Tick ==
    /\ Playing
    /\ now' = now + 1
    /\ \E slots \in SUBSET {t \in Teams : MayOffer(t, now + 1)} :
         /\ status' = [t \in Teams |-> StatusAfter(t, slots)]
         /\ order' = [t \in Teams |-> OrderAfter(t, now + 1, slots)]
    /\ score' = [t \in Teams |->
         IF Lapses(t, now + 1) THEN Floored(score[t] - ExpiredOrder) ELSE score[t]]
    /\ own' = [t \in Teams |-> own[t] + (score'[t] - score[t])]
    /\ UNCHANGED <<started, transfers>>

-----------------------------------------------------------------------------
(* Operations.  A request with another match's nonce changes nothing.       *)

MayClaim(t) ==
    /\ Playing
    /\ status[t] = "offered"
    /\ OpenFor(t)
    /\ order[t].expiresAt > now

ClaimRight(t) ==
    /\ MayClaim(t)
    /\ status' = [status EXCEPT ![t] = "held"]
    /\ order' = [order EXCEPT ![t].status = "completed"]
    /\ UNCHANGED <<started, now, score, transfers, own>>

ClaimWrong(t) ==
    /\ MayClaim(t)
    /\ score' = [score EXCEPT ![t] = Floored(@ - WrongProve)]
    /\ own' = [own EXCEPT ![t] = @ + (score'[t] - score[t])]
    /\ UNCHANGED <<started, now, status, order, transfers>>

Gained == {transfers[i].to : i \in DOMAIN transfers}

\* The teams shown as protected.
Lost == {transfers[i].from : i \in DOMAIN transfers}

MutMayTake(t, victim) == victim # t /\ score[victim] > 0

MayTake(t, victim) ==
    /\ victim # t
    /\ score[victim] > 0
    /\ victim \notin Lost

Amount(victim) == Least(Loot, score[victim])

MutMoved(t, victim, points) == [score EXCEPT ![t] = @ + points]

\* The score of the two teams after points went from `victim` to t.
Moved(t, victim, points) ==
    [score EXCEPT ![t] = @ + points, ![victim] = @ - points]

Use(t, victim) ==
    /\ Playing
    /\ status[t] = "held"
    /\ MayTake(t, victim)
    /\ status' = [status EXCEPT ![t] = "spent"]
    /\ transfers' = Append(transfers,
         [from |-> victim, to |-> t, points |-> Amount(victim), at |-> now])
    /\ score' = Moved(t, victim, Amount(victim))
    /\ UNCHANGED <<started, now, order, own>>

Next ==
    \/ Start \/ Tick
    \/ \E t \in Teams : Play(t) \/ ClaimRight(t) \/ ClaimWrong(t)
    \/ \E t, victim \in Teams : Use(t, victim)

Spec == Init /\ [][Next]_vars

-----------------------------------------------------------------------------
(* Properties.                                                             *)

\* Types: in particular no score is negative and every transfer moves points.
TypeOK ==
    /\ started \in BOOLEAN /\ now \in 0..MatchEnd
    /\ score \in [Teams -> Nat] /\ own \in [Teams -> Int]
    /\ status \in [Teams -> Statuses]
    /\ order \in [Teams -> Orders \cup {None}]
    /\ transfers \in Seq(Transfers)

\* A team's item and its order tell the same story: the item waits exactly
\* until there is an order, and is held or spent exactly when its order was
\* completed (score-steal.ts:186-201, reducer.ts:1009-1018, 1066-1070).
ItemFollowsOrder ==
    \A t \in Teams :
        /\ status[t] = "waiting" <=> order[t] = None
        /\ status[t] \in {"held", "spent"} <=>
             order[t] # None /\ order[t].status = "completed"

\* However claims and uses interleave, a team gains from the item at most once
\* and loses to it at most once (score-steal.ts:111, 119), and a team has
\* gained exactly when its item is spent.
OncePerTeam ==
    /\ \A i, j \in DOMAIN transfers :
         transfers[i].from = transfers[j].from \/ transfers[i].to = transfers[j].to => i = j
    /\ \A t \in Teams : status[t] = "spent" <=> t \in Gained

Sum(S) == MapThenFoldSet(+, 0, LAMBDA i : transfers[i].points, LAMBDA T : CHOOSE i \in T : TRUE, S)

\* Points are moved, never made: what separates a team's score from what its
\* own moves are worth is what it took and what was taken (score-steal.ts:204-220).
ScoreExplained ==
    \A t \in Teams :
        score[t] = own[t] + Sum({i \in DOMAIN transfers : transfers[i].to = t})
                          - Sum({i \in DOMAIN transfers : transfers[i].from = t})

\* Protecting every victim after one loss strands at most one item: while two
\* teams hold theirs, each has a team it may still take from once that team
\* has points (score-steal.ts:112-121).
VictimsLast ==
    \A t, u \in Teams : t # u /\ status[t] = "held" /\ status[u] = "held" =>
        \E victim \in Teams \ {t} : victim \notin Lost

\* Transfers are fair to everyone: once each way per team, and never so that two
\* teams are left holding an item nobody can be robbed with (score-steal.ts:111-121).
TransfersSound == OncePerTeam /\ VictimsLast

\* The item, its order and its transfers agree: an item is held or spent exactly when its
\* order was completed, and what it moved is fair.
ItemSafe == TypeOK /\ ItemFollowsOrder /\ TransfersSound

\* The deadline is a last chance: a team whose order lapsed never gets the item.
LapsedForGood ==
    [][\A t \in Teams : order[t] # None /\ order[t].status = "expired" =>
         status'[t] = "offered" /\ order'[t] = order[t]]_vars
=============================================================================
