------------------------------ MODULE MatchView ------------------------------
(***************************************************************************)
(* What a team is shown of the match (reducer.ts projectForTeam and the       *)
(* projections it calls), how its page lets that run on between two answers     *)
(* (portal/FastMovePanel.tsx ageProjection, portal/HintBooster.tsx), and the      *)
(* moves that name what the page showed.  Teammates play meanwhile, on pages      *)
(* of their own, and the platform's clock may be behind the players'.            *)
(*                                                                         *)
(* One page is taken, at any instant of a match that has started: what is        *)
(* claimed of it holds of each.                                                  *)
(* Slow and overlapping answers are in MovePanel.                               *)
(***************************************************************************)
EXTENDS OrderBelt

CONSTANTS
    Reader,     \* the team whose page it is
    MaxLag      \* bound of the model: how far the platform's clock falls behind

ASSUME ReaderAssumption == Reader \in Teams

VARIABLES
    wall,       \* the players' time
    page        \* polledProjection, with the time at which it came

viewVars == <<vars, wall, page>>

ViewInit == Init /\ wall = 0 /\ page = None

BoosterStates == {"waiting", "scheduled", "active", "expired", "ineligible", "unavailable"}
CardStates ==
    {"waiting", "scheduled", "unavailable", "none", "available", "armed", "spent", "unused"}
Verdicts == {"none", "miss", "hit", "leak", "deadline", "rotate", "ended"}

-----------------------------------------------------------------------------
(* The projection of a team, its own secrets included.                      *)

\* The key a task is worked with is that of the team's present generation; a rotor order
\* carries the generation it was issued in.
Keyed == {"caesar", "cipher"}
ProjectTask(o) ==
    [kind |-> o.task,
     key |-> IF o.task \notin Keyed THEN None
             ELSE IF o.task = "cipher" THEN o.gen ELSE match.gen[o.team]]

\* Every level with its price, and which of them are bought.
ProjectHints(o) ==
    [level \in DOMAIN HintCosts |->
        [cost |-> HintPrice(o.team, level), regular |-> HintCosts[level],
         bought |-> level <= o.hints]]

ProjectOrder(o) ==
    [seq |-> o.seq, task |-> ProjectTask(o), rush |-> o.rush, status |-> o.status, how |-> o.how,
     points |-> Reward(o), leakPoints |-> LeakPoints, failed |-> o.failed,
     eligible |-> Eligible(o), methods |-> Methods(o.task),
     duration |-> o.expires - o.issued, remaining |-> Floored(o.expires - match.now),
     hints |-> ProjectHints(o)]

StartsIn(m) == IF Started(m) THEN Floored(BoundaryAt(m) - m.now) ELSE None
Undistributed(m) ==
    IF ~Started(m) THEN "waiting" ELSE IF BoundaryAt(m) >= End(m) THEN "unavailable" ELSE "scheduled"

ProjectBooster(t) ==
    [status |-> IF ~match.awarded THEN Undistributed(match)
                ELSE IF t \notin match.boosted THEN "ineligible"
                ELSE IF Boosted(t) THEN "active" ELSE "expired",
     startsIn |-> StartsIn(match),
     remaining |-> IF Boosted(t) THEN Least(BoundaryAt(match) + BoostFor, End(match)) - match.now
                   ELSE 0]

ProjectLightning(m, t) ==
    LET card == m.cards[t]
    IN  [status |-> IF m.awarded THEN card.st ELSE Undistributed(m), startsIn |-> StartsIn(m),
         seq |-> card.seq, points |-> card.points, result |-> card.result,
         remaining |-> IF card.st = "armed" THEN Floored(Least(card.expires, End(m)) - m.now) ELSE 0]

RotateIn(t) ==
    IF match.rotated[t] = None THEN 0
    ELSE Floored(Cooldown - (match.now - match.rotated[t]))

Vault(t) ==
    [generation |-> match.gen[t], rotateIn |-> RotateIn(t),
     rotateMinimum |-> IF match.disclosed[t] THEN ExpiredOrder ELSE 0,
     rotatePenalty |-> Least(match.score[t], RotationPenalty(t))]

\* A match that waits reports its whole length, or what is left of the event.
MatchRemaining ==
    IF Started(match) THEN Floored(End(match) - match.now)
    ELSE IF match.reported = None THEN match.timing.length ELSE Floored(match.reported - Clock)

ProjectForTeam(t) ==
    [clock |-> match.now, phase |-> match.phase, left |-> MatchRemaining,
     ready |-> [count |-> Cardinality(match.ready), total |-> Cardinality(Teams),
                me |-> t \in match.ready],
     vault |-> Vault(t),
     orders |-> {ProjectOrder(o) : o \in {p \in match.orders : p.team = t}},
     others |-> Cardinality({o \in OpenOrders(match) : o.team # t}),
     teams |-> [u \in Teams |-> [score |-> match.score[u], generation |-> match.gen[u]]],
     booster |-> ProjectBooster(t), lightning |-> ProjectLightning(match, t)]

OrderTaskProjection == [kind : Tasks, key : Optional(Nat \ {0})]
HintProjection == [cost : Nat, regular : Nat, bought : BOOLEAN]
ContractProjection ==
    [seq : Nat, task : OrderTaskProjection, rush : BOOLEAN,
     status : {"open", "completed", "expired"},
     how : {"none", "deadline", "rotate"} \cup Answers,
     points : Nat, leakPoints : Nat, failed : BOOLEAN, eligible : BOOLEAN,
     methods : SUBSET Answers, duration : Nat, remaining : Nat,
     hints : [DOMAIN HintCosts -> HintProjection]]
VaultProjection ==
    [generation : Nat \ {0}, rotateIn : Nat, rotateMinimum : Nat, rotatePenalty : Nat]
TeamSummaryProjection == [score : Nat, generation : Nat \ {0}]
CryptoBattleProjection ==
    [clock : Optional(Nat), phase : Phases, left : Nat,
     ready : [count : Nat, total : Nat, me : BOOLEAN], vault : VaultProjection,
     orders : SUBSET ContractProjection, others : Nat, teams : [Teams -> TeamSummaryProjection],
     booster : [status : BoosterStates, startsIn : Optional(Nat), remaining : Nat],
     lightning : [status : CardStates, startsIn : Optional(Nat), seq : Optional(Nat), points : Nat,
                  result : Verdicts, remaining : Nat]]

-----------------------------------------------------------------------------
(* What the page takes for a projection (portal/coordination.ts); anything else leaves it *)
(* without one.                                                             *)

Duration(n) == n # None /\ n >= 0
KnownPhases == {"waiting", "build", "pressure", "endgame", "ended"}

BoosterKnown(p) ==
    /\ p.booster.status \in BoosterStates
    /\ Duration(p.booster.remaining)
    /\ p.booster.startsIn # None => Duration(p.booster.startsIn)
    /\ \A q \in p.orders : \A level \in DOMAIN q.hints : Duration(q.hints[level].regular)

LightningKnown(card) ==
    /\ card.status \in CardStates
    /\ Duration(card.remaining) /\ card.startsIn # None => Duration(card.startsIn)
    /\ card.status \in {"armed", "spent"} => card.seq # None /\ Duration(card.points)
    /\ card.status = "spent" => card.result \in Verdicts \ {"none"}

IsCryptoBattleProjection(p) ==
    /\ p.phase \in KnownPhases
    /\ p.clock # None => Duration(p.clock)
    /\ BoosterKnown(p) /\ LightningKnown(p.lightning)

-----------------------------------------------------------------------------
(* The page lets what it was given run on.                                  *)

Age == wall - page.at
Dropped(ms) == Floored(ms - Age)

\* Once the boost has run out on the page, it shows the regular price.
BoostOver == page.shown.booster.status = "active" /\ Age >= page.shown.booster.remaining
AgedCost(hint) == IF BoostOver THEN hint.regular ELSE hint.cost

\* An order may end between two polls: it is not left to be answered at 0:00.
Answerable(q) == q.status = "open" /\ Dropped(q.remaining) > 0
ShownOpen == IF page = None THEN {} ELSE {q \in page.shown.orders : Answerable(q)}

UnboughtOn(q) == {level \in DOMAIN q.hints : ~q.hints[level].bought}
NextHint(q) == q.hints[Min(UnboughtOn(q))]

\* A receipt is one order's award and not what the score moved between two polls.
OrderReward(q, card) ==
    IF card.status = "spent" /\ card.result = "hit" /\ card.seq = q.seq
    THEN card.points ELSE q.points

-----------------------------------------------------------------------------
(* The clocks, the page, and the moves made from it.                        *)

Pass ==
    /\ wall < Horizon /\ wall - Clock < MaxLag
    /\ wall' = wall + 1
    /\ UNCHANGED <<match, closed, page>>

PlatformTicks ==
    \E reported \in Reports \cup {None} : TickAt(wall, reported) /\ UNCHANGED <<wall, page>>

Poll ==
    /\ page = None /\ Started(match) /\ IsCryptoBattleProjection(ProjectForTeam(Reader))
    /\ page' = [at |-> wall, shown |-> ProjectForTeam(Reader)]
    /\ UNCHANGED <<match, closed, wall>>

Shown(q) == {o \in match.orders : o.team = Reader /\ o.seq = q.seq}

MutAsked(q, o) == TRUE
\* The price is sent along, and another than the present one is refused.
Asked(q, o) == AgedCost(NextHint(q)) = HintPrice(o.team, o.hints + 1)

OpenHint(q) ==
    /\ UnboughtOn(q) # {}
    /\ \E o \in Shown(q) :
        /\ o.hints < Len(HintCosts) /\ Asked(q, o)
        /\ Hint(o)
    /\ UNCHANGED <<wall, page>>

ViewNext ==
    \/ Pass
    \/ PlatformTicks
    \/ Poll
    \/ Moves /\ UNCHANGED <<wall, page>>
    \/ \E q \in ShownOpen : OpenHint(q)

ViewSpec == ViewInit /\ [][ViewNext]_viewVars

-----------------------------------------------------------------------------
StillOpen(q) == {o \in Shown(q) : IsOpen(o)}

\* While an order shown open is open, the key its page shows is the one the judge works
\* with: a rotation voids everything that was to be answered with the old one
\* (reducer.ts:2395-2420, 2581-2608).
KeysCurrent ==
    \A q \in ShownOpen : \A o \in StillOpen(q) :
        q.task.key # None => q.task.key = match.gen[Reader]

\* The page never offers a rotation that the platform, brought to the players' time, would
\* refuse, nor calls the boost over before it is.
NeverAhead ==
    page # None =>
        /\ Dropped(page.shown.vault.rotateIn) = 0 /\ page.shown.vault.generation = match.gen[Reader]
             => match.rotated[Reader] = None \/ wall - match.rotated[Reader] >= Cooldown
        /\ BoostOver => wall >= Least(BoundaryAt(match) + BoostFor, page.shown.clock + page.shown.left)

\* The reward a page shows for an order still open is what its answer earns now or less,
\* unless an answer was wrong since: a declared card stands as long as its order.
RewardKept ==
    \A q \in ShownOpen : \A o \in StillOpen(q) : o.failed \/ Reward(o) >= q.points

\* What is projected of a match, from before its start to after its end, has the type the
\* page was written for and is something every team's page takes: a guard that did not know
\* the waiting phase told the players that the service was unavailable
\* (coordination.ts:60-64).
EveryPhaseShown ==
    \A t \in Teams :
        /\ ProjectForTeam(t) \in CryptoBattleProjection
        /\ IsCryptoBattleProjection(ProjectForTeam(t))

ViewSound == KeysCurrent /\ NeverAhead /\ RewardKept /\ EveryPhaseShown

Paid == match'.score[Reader] - match.score[Reader]
Answered(q) ==
    \E o \in StillOpen(q), p \in match'.orders :
        /\ p.team = o.team /\ p.seq = o.seq /\ p.status = "completed"
        /\ p.how \notin {"leak", "duel"} /\ p.step # "missed" /\ ~o.failed
HintOpened(q) ==
    \E o \in StillOpen(q), p \in match'.orders :
        p.team = o.team /\ p.seq = o.seq /\ p.hints > o.hints

\* What a page says is what happens, however old it is: a hint costs no more than it showed,
\* the receipt of an answer is what the answer earned, and a rotation costs no more than it
\* showed while no order arrived and nothing was earned or disclosed since.
ShownIsPaid ==
    /\ \A q \in ShownOpen : HintOpened(q) => -Paid <= AgedCost(NextHint(q))
    /\ \A q \in ShownOpen :
         Answered(q) => OrderReward(q, ProjectLightning(match', Reader)) = Paid
    /\ page # None /\ match'.gen[Reader] # match.gen[Reader] =>
         \/ -Paid <= page.shown.vault.rotatePenalty
         \/ match.score[Reader] > page.shown.teams[Reader].score
         \/ match.disclosed[Reader]
         \/ \E o \in Voided(Reader) : \A q \in page.shown.orders : q.seq # o.seq

\* No step goes back on the result, nor on what a page said of its price.
BeltForward == [][EndStays /\ ShownIsPaid]_viewVars
=============================================================================
