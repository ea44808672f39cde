----------------------------- MODULE OrderBelt -----------------------------
(***************************************************************************)
(* A crypto battle from deployment to its end: teams get ready, the         *)
(* platform ticks and reports when it will close the match, teams answer,   *)
(* miss, leak, seal, double or retire the orders on their belt (the         *)
(* handlers of reducer.ts validateOp and applyOp that touch an order).      *)
(* HUNTs and predictions are in DuelHunt.                                   *)
(***************************************************************************)
EXTENDS MatchClock

CONSTANTS
    DuelDraw, WrongProve, HintCosts,
    BoostFor,       \* HINT_BOOSTER_MS
    Cooldown,       \* rotateCooldownMs
    Operations,     \* bound of the model: the operations players use
    Players,        \* bound of the model: the teams that use them
    LastStart,      \* bound of the model: the latest start
    MaxSkip,        \* bound of the model: the longest pause between two ticks
    Horizon,        \* bound of the model: the last instant of the event
    Reports         \* bound of the model: what the platform may report

\* CryptoBattleOp: what a team may ask for on its belt.  Right and wrong answers are kinds of
\* their own, and methods that are judged alike are one; the attacks have modules of their own.
CryptoBattleOps ==
    {"leak", "solve", "miss", "prove", "duel", "lightning", "hint", "rotate"}

ASSUME HintsAssumption ==
    HintCosts \in Seq(Nat) /\ DuelDraw \in Nat /\ WrongProve \in Nat
ASSUME PausesAssumption == BoostFor \in Nat /\ Cooldown \in Nat
ASSUME HorizonAssumption == Reports \subseteq Int /\ {LastStart, MaxSkip, Horizon} \subseteq Nat
ASSUME OperationsAssumption == Operations \subseteq CryptoBattleOps /\ Players \subseteq Teams

VARIABLES
    match,          \* the stored row
    closed          \* history: orders that were closed, by team and number

vars == <<match, closed>>

Init ==
    /\ \E seed \in DOMAIN Seeds : match = InitialMatch(seed)
    /\ closed = {}

\* Every operation settles the cards before it stores the row.
Ids(orders) == {<<o.team, o.seq>> : o \in orders}
Write(m) ==
    /\ match' = m
    /\ closed' = closed \cup (Ids(match.orders \cup m.orders) \ Ids(OpenOrders(m)))
Store(m) == Write(SettleLightning(m))

-----------------------------------------------------------------------------
Clock == IF match.now = None THEN 0 ELSE match.now
Waits == ~Started(match) /\ Clock <= LastStart
Ready(t) == Waits /\ Store(ApplyReady(match, t))
Start == Waits /\ Store(ApplyStart(match))

\* The platform's clock: it may skip instants, and it never reports an end that
\* has passed (match-length.ts:32-35).
TickAt(at, reported) ==
    /\ reported # None => (reported >= at \/ reported <= 0)
    /\ Write(Tick(match, at, reported))

Ticks ==
    \E at \in Clock..Least(Clock + MaxSkip, Horizon), reported \in Reports \cup {None} :
        TickAt(at, reported)

Playing(t, op) ==
    /\ t \in Players /\ op \in Operations
    /\ Started(match) /\ match.phase # "ended"

\* validateOrderSubmission: an open order of the team's own that accepts the
\* method.  The deadline is the clock's business.
Accepts(o, method) == IsOpen(o) /\ method \in Methods(o.task)

Replace(m, o, p) == [m EXCEPT !.orders = (@ \ {o}) \cup {p}]
Earn(m, t, points) == [m EXCEPT !.score[t] = Floored(@ + points)]

\* lightningBonus
Bonus(o) ==
    LET card == match.cards[o.team]
    IN  IF ~o.failed /\ card.seq = o.seq
           /\ (card.st = "armed" \/ (card.st = "spent" /\ card.result = "hit"))
        THEN card.points \div 2 ELSE 0

Complete(o, how) == [o EXCEPT !.status = "completed", !.how = how]

Leak(o) ==
    /\ Playing(o.team, "leak") /\ Accepts(o, "leak")
    /\ LET paid == Earn(Replace(match, o, Complete(o, "leak")), o.team,
                        IF o.task = "disclose" THEN Points(o) ELSE LeakPoints)
       IN  Store(IF o.task = "disclose" THEN [paid EXCEPT !.disclosed[o.team] = TRUE] ELSE paid)

\* The answer of an order that publishes nothing of the secret.  An answer that
\* was wrong before forfeits a cipher order's reward.
Reward(o) == IF o.failed THEN 0 ELSE Points(o) + Bonus(o)
Solve(o, method) ==
    /\ Playing(o.team, "solve") /\ Accepts(o, method)
    /\ Store(Earn(Replace(match, o,
                          [Complete(o, method) EXCEPT !.tried = @ \/ method = "evolve"]),
                  o.team, Reward(o)))

\* Each method asks for its own answer; only what it says of a right one is common.
Encrypt(o) == Solve(o, "cipher")
Calculate(o) == Solve(o, "calc")
Evolve(o) == Solve(o, "evolve")

\* Only these wrong answers are recorded; the others are refused.
MissCipher(o) ==
    /\ Playing(o.team, "miss") /\ o.task = "cipher" /\ IsOpen(o)
    /\ Store(Earn(Replace(match, o, [o EXCEPT !.failed = TRUE]), o.team, -WrongProve))

MissEvolve(o) ==
    /\ Playing(o.team, "miss") /\ o.task = "evolve" /\ IsOpen(o)
    /\ Store(Earn(Replace(match, o, [o EXCEPT !.tried = TRUE]), o.team, -WrongProve))

\* The interactive proof: one commitment, one response.
ProofCommit(o) ==
    /\ Playing(o.team, "prove") /\ Accepts(o, "prove") /\ o.step = "fresh"
    /\ Store(Replace(match, o, [o EXCEPT !.tried = TRUE, !.step = "committed"]))

ProofHit(o) ==
    /\ Playing(o.team, "prove") /\ Accepts(o, "prove") /\ o.step = "committed"
    /\ Store(Earn(Replace(match, o, [Complete(o, "prove") EXCEPT !.step = "proved"]),
                  o.team, Points(o) + Bonus(o)))

\* A miss ends an order that only a proof can answer.
ProofMiss(o) ==
    /\ Playing(o.team, "prove") /\ Accepts(o, "prove") /\ o.step = "committed"
    /\ LET missed == [o EXCEPT !.step = "missed"]
       IN  Store(Earn(Replace(match, o, IF Methods(o.task) = {"prove"}
                                        THEN Complete(missed, "prove") ELSE missed),
                      o.team, -WrongProve))

-----------------------------------------------------------------------------
\* A duel is sealed, then opened; the second opening settles both orders.
DuelOpen(o) ==
    /\ Accepts(o, "duel") /\ match.now < o.expires
    /\ \E p \in OpponentOrder(match, o) : IsOpen(p)

Seal(o) ==
    /\ Playing(o.team, "duel") /\ DuelOpen(o) /\ o.step = "fresh"
    /\ Store(Replace(match, o, [o EXCEPT !.step = "sealed"]))

Open(o) ==
    /\ Playing(o.team, "duel") /\ DuelOpen(o) /\ o.step = "sealed"
    /\ \A p \in OpponentOrder(match, o) : p.step # "opened"
    /\ Store(Replace(match, o, [o EXCEPT !.step = "opened"]))

ClosedBy(o) == {o} \cup OpponentOrder(match, o)
OpenBoth(o, mine, theirs) ==
    /\ Playing(o.team, "duel") /\ DuelOpen(o) /\ o.step = "sealed"
    /\ \A p \in OpponentOrder(match, o) : p.step = "opened"
    /\ Store(Earn(Earn([match EXCEPT !.orders =
                          {IF p \in ClosedBy(o) THEN [Complete(p, "duel") EXCEPT !.step = "opened"]
                           ELSE p : p \in @}],
                       o.team, mine), o.opp, theirs))
Outcomes == {<<DuelWin, 0>>, <<0, DuelWin>>, <<DuelDraw, DuelDraw>>}

-----------------------------------------------------------------------------
\* declare-lightning: before any recorded attempt, on an order to calculate.
Eligible(o) ==
    /\ match.phase = "endgame" /\ match.cards[o.team].st = "available"
    /\ IsOpen(o) /\ o.expires > match.now
    /\ Methods(o.task) \ {"leak", "duel"} # {}
    /\ ~o.tried /\ ~o.failed

\* Neither a disclosure nor a duel is a calculation.
MayDeclare(o) ==
    \E method \in Methods(o.task) \ {"leak", "duel"} : Accepts(o, method) /\ Eligible(o)
Declare(o) ==
    /\ Playing(o.team, "lightning") /\ MayDeclare(o)
    /\ Store([match EXCEPT !.cards[o.team] =
                [st |-> "armed", seq |-> o.seq, points |-> 2 * Points(o),
                 expires |-> o.expires, result |-> "none"]])

\* reveal-hint: free for a boosted team while the boost lasts.
Boosted(t) ==
    /\ match.awarded /\ t \in match.boosted /\ match.now >= BoundaryAt(match)
    /\ match.now < Least(BoundaryAt(match) + BoostFor, End(match))
HintPrice(t, level) == IF Boosted(t) THEN 0 ELSE HintCosts[level]
Hint(o) ==
    /\ Playing(o.team, "hint") /\ IsOpen(o) /\ o.hints < Len(HintCosts)
    /\ Store(Earn(Replace(match, o, [o EXCEPT !.hints = @ + 1]), o.team,
                  -HintPrice(o.team, o.hints + 1)))

\* rotate: the open orders but the duels are voided, for no less than a
\* disclosure that was paid for costs to retire.
MutVoided(t) == {o \in OpenOrders(match) : o.team = t /\ o.task # "duel" /\ o.issued < match.now}
Voided(t) == {o \in OpenOrders(match) : o.team = t /\ o.task # "duel"}
RotationPenalty(t) ==
    Greatest(IF match.disclosed[t] THEN ExpiredOrder ELSE 0,
             ExpiredOrder * Cardinality(Voided(t)))
Rotate(t) ==
    /\ Playing(t, "rotate")
    /\ match.rotated[t] # None => match.now - match.rotated[t] >= Cooldown
    /\ Store(Earn([match EXCEPT
                     !.gen[t] = @ + 1, !.rotated[t] = match.now, !.disclosed[t] = FALSE,
                     !.orders = {IF o \in Voided(t)
                                 THEN [o EXCEPT !.status = "expired", !.how = "rotate"]
                                 ELSE o : o \in @}],
                  t, -RotationPenalty(t)))

-----------------------------------------------------------------------------
\* What teams do, but for opening hints (applyMethodOp).
Moves ==
    \/ \E t \in Teams : Ready(t)
    \/ Start
    \/ \E o \in match.orders :
          \/ Leak(o)
          \/ Encrypt(o)
          \/ Calculate(o)
          \/ Evolve(o)
          \/ MissCipher(o)
          \/ MissEvolve(o)
          \/ ProofCommit(o)
          \/ ProofHit(o)
          \/ ProofMiss(o)
          \/ Seal(o)
          \/ Open(o)
          \/ \E r \in Outcomes : OpenBoth(o, r[1], r[2])
          \/ Declare(o)
    \/ \E t \in Teams : Rotate(t)

Next ==
    \/ Moves
    \/ Ticks
    \/ \E o \in match.orders : Hint(o)

Spec == Init /\ [][Next]_vars

-----------------------------------------------------------------------------
Phases == {"waiting", "build", "pressure", "endgame", "ended"}
Answers == {"leak", "prove", "cipher", "calc", "evolve", "duel"}
Optional(S) == S \cup {None}

Contract ==
    [team : Teams, seq : Nat, rush : BOOLEAN, opp : Optional(Teams), task : Tasks, issued : Nat,
     expires : Nat, status : {"open", "completed", "expired"},
     how : {"none", "deadline", "rotate"} \cup Answers,
     step : {"fresh", "committed", "proved", "missed", "sealed", "opened"},
     tried : BOOLEAN, failed : BOOLEAN, hints : 0..Len(HintCosts), gen : Nat \ {0}]

LightningCard ==
    [st : {"none", "available", "armed", "spent", "unused"}, seq : Optional(Nat), points : Nat,
     expires : Nat,
     result : {"none", "miss", "hit", "leak", "deadline", "rotate", "ended"}]

CryptoBattleState ==
    [seed : DOMAIN Seeds, phase : Phases, ready : SUBSET Teams, now : Optional(Nat),
     start : Optional(Nat), next : Nat, timing : [length : Nat, toPressure : Nat, toEndgame : Nat],
     reported : Optional(Nat), rejected : BOOLEAN, orders : SUBSET Contract,
     count : [Teams -> Nat], duels : [Teams -> Nat], score : [Teams -> Nat],
     awarded : BOOLEAN, boosted : SUBSET Teams, cards : [Teams -> LightningCard],
     gen : [Teams -> Nat \ {0}], rotated : [Teams -> Optional(Nat)],
     disclosed : [Teams -> BOOLEAN]]

\* The row keeps its type: no score below zero, no order numbered beyond the team's counter,
\* no more open orders than the belt holds, and a card that names an order as long as it is
\* worth something.
TypeOK ==
    /\ match \in CryptoBattleState
    /\ \A o \in match.orders : o.seq < match.count[o.team]
    /\ \A t \in Teams : OpenCount(match, t) <= MaxOpen
    /\ \A t \in Teams : match.cards[t].st \in {"armed", "spent"} => match.cards[t].seq # None

\* "capacity, score floors, duel settlements and endgame rankings do not depend
\* on polling" (reducer.ts advance), nor on when the host sees a report as long
\* as the end it moves is still ahead (match-length.ts): an extra tick on the
\* way never changes what a later tick leaves behind.
PollingImmaterial ==
    \A at \in Clock..Least(Clock + MaxSkip, Horizon), reported \in Reports \cup {None} :
        \A early \in Clock..at :
            (reported # None =>
                /\ reported >= at /\ reported > early
                /\ Started(match) => early < End(match))
            => Tick(Tick(match, early, None), at, reported) = Tick(match, at, reported)

\* Through every shortening and lengthening of the match an open order has the
\* deadline it would have had, had the present end been known when it arrived.
DeadlineExact ==
    \A o \in OpenOrders(match) : o.expires = Least(o.issued + TtlOf(o), End(match))

\* An order that was answered, missed for good or lapsed never comes back to be
\* answered again, whatever has been pruned from the row since.
OrderLivesOnce == Ids(OpenOrders(match)) \cap closed = {}

\* Nobody holds an invitation the opponent cannot answer: the two orders of a
\* duel are open together and for the same time.
DuelsPaired ==
    \A o \in OpenOrders(match) : o.task = "duel" =>
        \E p \in OpponentOrder(match, o) :
            IsOpen(p) /\ p.expires = o.expires /\ p.opp = o.team

\* A declared card stands for an order that can still be answered, at twice its
\* price and until the same deadline.
CardFollowsOrder ==
    \A t \in Teams : match.cards[t].st = "armed" =>
        \E o \in OrderOf(match, t, match.cards[t].seq) :
            /\ IsOpen(o) /\ o.expires = match.cards[t].expires
            /\ match.cards[t].points \in {0, 2 * Points(o)}

\* The endgame is distributed once the boundary fixed at START is reached, not
\* earlier, and not in a match that ends before it.
EndgameOnTime ==
    /\ match.awarded => BoundaryAt(match) <= Least(match.now, End(match))
    /\ Started(match) /\ match.now >= BoundaryAt(match) /\ BoundaryAt(match) < End(match)
          => match.awarded

\* The final bell leaves nothing undecided: no open order, no card in hand.
EndSettles ==
    match.phase = "ended" =>
        /\ OpenOrders(match) = {}
        /\ \A t \in Teams : match.cards[t].st \notin {"available", "armed"}

\* Nothing depends on when the clock is looked at: not what a tick leaves behind, and
\* not whether and when the endgame is distributed (reducer.ts advance).
ClockSound == PollingImmaterial /\ EndgameOnTime

\* An order is answered once, by a team that can, and its card and its twin at the
\* opponent stand and fall with it; however the end is moved, deadlines are those of the
\* present end, and the bell settles everything (reducer.ts tickAtTime, completeOrder,
\* match-length.ts).
OrdersSound ==
    CardFollowsOrder /\ OrderLivesOnce /\ DuelsPaired /\ EndSettles /\ DeadlineExact

\* The end is final: no later tick, report or operation changes the result.
EndStays ==
    match.phase = "ended" =>
        /\ match'.phase = "ended" /\ match'.score = match.score
        /\ match'.timing = match.timing /\ match'.cards = match.cards
=============================================================================
