------------------------------ MODULE DuelHunt ------------------------------
(***************************************************************************)
(* Paired rock-paper-scissors Orders of the crypto battle, the predictions *)
(* other teams make about them, and the HUNT budget that predictions share *)
(* with ordinary share HUNTs (game/src/rps.ts, rps-hunt.ts, hunt-budget.ts, *)
(* hunt-key.ts and the hunt, rotate and expiry handlers of reducer.ts).     *)
(*                                                                         *)
(* A duel is one scheduled slot that sends an Order to two teams.  Each    *)
(* side seals a hand, then hands its opening to the judge; the judge       *)
(* publishes both openings in the step that accepts the second.  While the *)
(* duel is open any team may predict a sealed hand, which reserves one     *)
(* attempt of its budget against the target's key generation; a timeout    *)
(* gives the attempt back, even when the target has rotated in between.    *)
(*                                                                         *)
(* Time is counted in units that separate the instants that matter; the    *)
(* reducer replays every such instant one by one (reducer.ts advance).     *)
(***************************************************************************)
EXTENDS Integers, FiniteSets

CONSTANTS
    Teams,          \* the roster
    DuelCount,      \* duel slots of the match, in the order of issue
    Home, Away,     \* the two teams of each slot, Home first in the roster
    IssueAt,        \* when each slot arrives
    Ttl,            \* contractTtlMs
    MatchEnd,       \* startedAtMs + matchDurationMs, the match starting at 0
    Hands,          \* 1..3 in the code
    Q, LogH,        \* order of the group and the logarithm of h (11 and 8)
    Blindings,      \* the hiding numbers teams use, a subset of 0..Q-1
    MaxAttempts,    \* config.maxHuntAttemptsPerTarget
    Cooldown,       \* config.rotateCooldownMs
    DuelWin, DuelDraw, ExpiredOrder, HuntBonus, HuntPenalty, WrongHunt,
    RotateFees,     \* what a rotation may cost, by the Orders it voids
    MaxGen,         \* bound of the model: generations explored
    Attackers,      \* bound of the model: teams that hunt and predict
    Rotators,       \* bound of the model: teams that rotate
    None            \* an absent field

Duels == 1..DuelCount
Gens == 1..MaxGen
Sealed == 0..(Q - 1)
Openings == [hand : Hands, r : Blindings]
Predictions == [hand : Hands, gen : Gens]

ASSUME RosterAssumption ==
    /\ IsFiniteSet(Teams)
    /\ DuelCount \in Nat
    /\ Attackers \subseteq Teams /\ Rotators \subseteq Teams
    /\ Home \in [Duels -> Teams] /\ Away \in [Duels -> Teams]
    /\ \A d \in Duels : Home[d] # Away[d]
ASSUME ClockAssumption ==
    /\ Ttl \in Nat \ {0} /\ MatchEnd \in Nat /\ Cooldown \in Nat
    /\ IssueAt \in [Duels -> Nat \ {0}]
ASSUME SealAssumption ==
    /\ Q \in Nat \ {0} /\ LogH \in Nat
    /\ Hands \subseteq Nat /\ Blindings \subseteq Sealed
ASSUME PriceAssumption ==
    /\ DuelWin \in Nat /\ DuelDraw \in Nat /\ ExpiredOrder \in Nat
    /\ HuntBonus \in Nat /\ HuntPenalty \in Nat /\ WrongHunt \in Nat
    /\ RotateFees \subseteq Nat
ASSUME BudgetAssumption == MaxAttempts \in Nat /\ MaxGen \in Nat \ {0}
ASSUME NoneAssumption ==
    None \notin Sealed /\ None \notin Openings /\ None \notin Predictions
        /\ None \notin Nat

VARIABLES
    now,        \* nowMs
    gen,        \* teams[t].generation
    rotatedAt,  \* teams[t].lastRotateAtMs
    score,      \* teams[t].score
    status,     \* status of the duel Order of each side
    sealed,     \* rps.commitment
    opening,    \* rps.opening, held by the judge
    outcome,    \* rps.outcome
    pred,       \* rps.predictions of the side's Order, by attacker
    budget,     \* huntAttempts, by attacker, target and target generation
    hunted,     \* huntLog entries of share HUNTs
    ledger,     \* publicLedger entries of kind rps-open
    judged      \* history: attempts that were answered hit or miss

vars == <<now, gen, rotatedAt, score, status, sealed, opening, outcome, pred,
          budget, hunted, ledger, judged>>

-----------------------------------------------------------------------------
Sides(d) == {Home[d], Away[d]}
Opponent(d, t) == IF t = Home[d] THEN Away[d] ELSE Home[d]

ExpiresAt(d) == IF IssueAt[d] + Ttl < MatchEnd THEN IssueAt[d] + Ttl ELSE MatchEnd

\* A running score is never shown below zero: Math.max(0, x).
MutFloored(x) == x
Floored(x) == IF x \in Nat THEN x ELSE 0

\* The logarithm to the base g of the sealed number g^hand * h^r mod p.
Seal(hand, r) == (hand + LogH * r) % Q

\* Hand m beats hand n when m - n is 2 modulo 3.
Beats(m, n) == (m - n) % 3 = 2

\* Duels in which attacker a holds a reserved attempt on generation g of t.
Reserved(p, a, t, g) == {d \in Duels : p[d][t][a] # None /\ p[d][t][a].gen = g}

-----------------------------------------------------------------------------
Init ==
    /\ now = 0
    /\ gen = [t \in Teams |-> 1]
    /\ rotatedAt = [t \in Teams |-> None]
    /\ score = [t \in Teams |-> 0]
    /\ status = [d \in Duels |-> [t \in Teams |-> "absent"]]
    /\ sealed = [d \in Duels |-> [t \in Teams |-> None]]
    /\ opening = [d \in Duels |-> [t \in Teams |-> None]]
    /\ outcome = [d \in Duels |-> [t \in Teams |-> "none"]]
    /\ pred = [d \in Duels |-> [t \in Teams |-> [a \in Teams |-> None]]]
    /\ budget = [a \in Teams |-> [t \in Teams |-> [g \in Gens |-> 0]]]
    /\ hunted = {}
    /\ ledger = {}
    /\ judged = [a \in Teams |-> [t \in Teams |-> [g \in Gens |-> 0]]]

Running == now < MatchEnd

\* The gate every duel operation of team t passes.
DuelOpen(d, t) ==
    /\ t \in Sides(d)
    /\ status[d][t] = "open"
    /\ status[d][Opponent(d, t)] = "open"
    /\ now < ExpiresAt(d)

\* Retired generations keep a row only while a prediction may refund it.
MutPruneAll(b, gens, p) ==
    [a \in Teams |-> [t \in Teams |-> [g \in Gens |->
        IF g = gens[t] THEN b[a][t][g] ELSE 0]]]
Pruned(b, gens, p) ==
    [a \in Teams |-> [t \in Teams |-> [g \in Gens |->
        IF g = gens[t] \/ Reserved(p, a, t, g) # {} THEN b[a][t][g] ELSE 0]]]

\* Closing the Orders D, pairs of a duel and a side, removes their predictions.
\* Only when one of them was made on a generation retired since are rows swept.
Cleared(D) ==
    [d \in Duels |-> [t \in Teams |-> [a \in Teams |->
        IF <<d, t>> \in D THEN None ELSE pred[d][t][a]]]]
RetiredIn(D) ==
    \E d \in Duels, t \in Teams, a \in Teams :
        <<d, t>> \in D /\ pred[d][t][a] # None /\ pred[d][t][a].gen # gen[t]
Swept(D, b) == IF RetiredIn(D) THEN Pruned(b, gen, Cleared(D)) ELSE b

-----------------------------------------------------------------------------
\* rps-commit: the sealed number is any element of the group, sent once.
MutMaySeal(d, t) == DuelOpen(d, t) /\ opening[d][t] = None
MaySeal(d, t) == DuelOpen(d, t) /\ sealed[d][t] = None

Commit(d, t, c) ==
    /\ Running
    /\ MaySeal(d, t)
    /\ sealed' = [sealed EXCEPT ![d][t] = c]
    /\ UNCHANGED <<now, gen, rotatedAt, score, status, opening, outcome, pred,
                   budget, hunted, ledger, judged>>

\* rps-open: only after the own seal, and reproducing it; the opponent may
\* still be thinking.
MayOpen(d, t, o) ==
    /\ DuelOpen(d, t)
    /\ sealed[d][t] # None
    /\ opening[d][t] = None
    /\ Seal(o.hand, o.r) = sealed[d][t]

\* The first opening stays with the judge.
OpenFirst(d, t, o) ==
    /\ Running
    /\ MayOpen(d, t, o)
    /\ opening[d][Opponent(d, t)] = None
    /\ opening' = [opening EXCEPT ![d][t] = o]
    /\ UNCHANGED <<now, gen, rotatedAt, score, status, sealed, outcome, pred,
                   budget, hunted, ledger, judged>>

\* The result of side t once both openings are known.
Result(opened, d, t) ==
    LET mine == opened[d][t].hand
        theirs == opened[d][Opponent(d, t)].hand
    IN  IF Beats(mine, theirs) THEN "win"
        ELSE IF Beats(theirs, mine) THEN "loss" ELSE "draw"

Prize(result) ==
    IF result = "win" THEN DuelWin ELSE IF result = "draw" THEN DuelDraw ELSE 0

\* What attacker a earns for its prediction about side t of duel d.
PredictionPoints(opened, d, t, a) ==
    IF pred[d][t][a] = None THEN 0
    ELSE IF pred[d][t][a].hand = opened[d][t].hand THEN HuntBonus ELSE -WrongHunt

\* The second opening settles the duel and every prediction about it.
Published(opened, d, t) == {<<d, s, opened[d][s]>> : s \in Sides(d)}

OpenSecond(d, t, o) ==
    LET opened == [opening EXCEPT ![d][t] = o]
        played == [s \in Teams |->
                     IF s \in Sides(d) THEN score[s] + Prize(Result(opened, d, s))
                     ELSE score[s]]
    IN  /\ Running
        /\ MayOpen(d, t, o)
        /\ opening[d][Opponent(d, t)] # None
        /\ opening' = opened
        /\ outcome' = [outcome EXCEPT ![d] =
                [s \in Teams |-> IF s \in Sides(d) THEN Result(opened, d, s) ELSE @[s]]]
        /\ status' = [status EXCEPT ![d] =
                [s \in Teams |-> IF s \in Sides(d) THEN "completed" ELSE @[s]]]
        /\ score' = [a \in Teams |->
                Floored(Floored(played[a] + PredictionPoints(opened, d, Home[d], a))
                            + PredictionPoints(opened, d, Away[d], a))]
        /\ ledger' = ledger \cup Published(opened, d, t)
        /\ pred' = Cleared({d} \X Sides(d))
        /\ judged' = [a \in Teams |-> [s \in Teams |-> [g \in Gens |->
                judged[a][s][g] + IF d \in Reserved(pred, a, s, g) THEN 1 ELSE 0]]]
        /\ budget' = Swept({d} \X Sides(d), budget)
        /\ UNCHANGED <<now, gen, rotatedAt, sealed, hunted>>

-----------------------------------------------------------------------------
\* hunt-rps.  The public evidence: two duels opened with the same hiding number.
Evidence(t) ==
    \E e1, e2 \in ledger :
        /\ e1[2] = t /\ e2[2] = t /\ e1[1] # e2[1]
        /\ e1[3].r = e2[3].r

MutCanPredict(d, t) ==
    /\ t \in Sides(d) /\ sealed[d][t] # None /\ now < ExpiresAt(d)
CanPredict(d, t) ==
    /\ t \in Sides(d)
    /\ status[d][t] = "open" /\ status[d][Opponent(d, t)] = "open"
    /\ now < ExpiresAt(d)
    /\ sealed[d][t] # None

MutHasAttempt(a, t) == TRUE
HasAttempt(a, t) == budget[a][t][gen[t]] < MaxAttempts

Reserve(a, t) == [budget EXCEPT ![a][t][gen[t]] = @ + 1]

Predict(a, d, t, hand) ==
    /\ Running
    /\ a # t
    /\ CanPredict(d, t)
    /\ pred[d][t][a] = None
    /\ Evidence(t)
    /\ HasAttempt(a, t)
    /\ budget' = Reserve(a, t)
    /\ pred' = [pred EXCEPT ![d][t][a] = [hand |-> hand, gen |-> gen[t]]]
    /\ UNCHANGED <<now, gen, rotatedAt, score, status, sealed, opening, outcome,
                   hunted, ledger, judged>>

\* hunt: an answer about the target's secret, right or wrong.
HuntScore(a, t, right) ==
    IF right
    THEN [score EXCEPT ![a] = @ + HuntBonus, ![t] = Floored(@ - HuntPenalty)]
    ELSE [score EXCEPT ![a] = Floored(@ - WrongHunt)]

Hunt(a, t, right) ==
    /\ Running
    /\ a # t
    /\ <<a, t, gen[t]>> \notin hunted
    /\ HasAttempt(a, t)
    /\ budget' = [budget EXCEPT ![a][t][gen[t]] = @ + 1]
    /\ judged' = [judged EXCEPT ![a][t][gen[t]] = @ + 1]
    /\ score' = HuntScore(a, t, right)
    /\ hunted' = IF right THEN hunted \cup {<<a, t, gen[t]>>} ELSE hunted
    /\ UNCHANGED <<now, gen, rotatedAt, status, sealed, opening, outcome, pred,
                   ledger>>

\* rotate: a new generation.  The duel Orders stay; the other open Orders are
\* voided, at a fee this module takes from RotateFees.
DuelsAfterRotate(t) == status

Rotate(t, fee) ==
    LET next == [gen EXCEPT ![t] = @ + 1]
    IN  /\ Running
        /\ rotatedAt[t] # None => now - rotatedAt[t] >= Cooldown
        /\ gen[t] < MaxGen
        /\ gen' = next
        /\ rotatedAt' = [rotatedAt EXCEPT ![t] = now]
        /\ score' = [score EXCEPT ![t] = Floored(@ - fee)]
        /\ status' = DuelsAfterRotate(t)
        /\ budget' = Pruned(budget, next, pred)
        /\ UNCHANGED <<now, sealed, opening, outcome, pred, hunted, ledger, judged>>

-----------------------------------------------------------------------------
\* A side that did all it could wins when its opponent is late.
ForfeitWinner(d, t) ==
    \/ opening[d][t] # None
    \/ sealed[d][t] # None /\ sealed[d][Opponent(d, t)] = None

MutLapsing(at) ==
    {e \in Duels \X Teams : status[e[1]][e[2]] = "open" /\ ExpiresAt(e[1]) < at}
Lapsing(at) ==
    {e \in Duels \X Teams : status[e[1]][e[2]] = "open" /\ ExpiresAt(e[1]) <= at}

Refunds(D, a, t, g) == Cardinality({d \in Reserved(pred, a, t, g) : <<d, t>> \in D})
Refunded(D) ==
    [a \in Teams |-> [t \in Teams |-> [g \in Gens |->
        budget[a][t][g] - Refunds(D, a, t, g)]]]

\* Several duels of one team may lapse together at the final bell: their
\* prizes and penalties apply in the order of issue, each floored.
MutLateScore(D, t) ==
    IF \E e \in D : pred[e[1]][e[2]][t] # None THEN Floored(score[t] - WrongHunt)
    ELSE score[t]
LateScore(D, t) ==
    LET lapse[d \in 0..DuelCount] ==
          IF d = 0 THEN score[t]
          ELSE IF <<d, t>> \in D
          THEN Floored(lapse[d - 1] +
                       IF ForfeitWinner(d, t) THEN DuelWin ELSE -ExpiredOrder)
          ELSE lapse[d - 1]
    IN  Floored(lapse[DuelCount])

Arriving(at) == {d \in Duels : IssueAt[d] = at /\ at < MatchEnd}

\* The clock reaches the next instant: lapsed Orders close without publishing
\* anything, their predictions are refunded, then the arriving slots are issued
\* to both sides, unless a full belt on either side skips the slot.
MutDelivery(delivered, d, t) == d \in delivered /\ t = Home[d]
Delivery(delivered, d, t) == d \in delivered /\ t \in Sides(d)

Tick(delivered) ==
    LET D == Lapsing(now + 1)
    IN  /\ Running
        /\ now' = now + 1
        /\ status' = [d \in Duels |-> [t \in Teams |->
              IF <<d, t>> \in D
              THEN IF ForfeitWinner(d, t) THEN "completed" ELSE "expired"
              ELSE IF Delivery(delivered, d, t) THEN "open" ELSE status[d][t]]]
        /\ outcome' = [d \in Duels |-> [t \in Teams |->
              IF <<d, t>> \in D /\ ForfeitWinner(d, t) THEN "forfeit-win" ELSE outcome[d][t]]]
        /\ score' = [t \in Teams |-> LateScore(D, t)]
        /\ pred' = Cleared(D)
        /\ budget' = Swept(D, Refunded(D))
        /\ UNCHANGED <<gen, rotatedAt, sealed, opening, hunted, ledger, judged>>

TickSome == \E delivered \in SUBSET Arriving(now + 1) : Tick(delivered)

Next ==
    \/ \E d \in Duels, t \in Teams, c \in Sealed : Commit(d, t, c)
    \/ \E d \in Duels, t \in Teams, o \in Openings : OpenFirst(d, t, o)
    \/ \E d \in Duels, t \in Teams, o \in Openings : OpenSecond(d, t, o)
    \/ \E a \in Attackers, d \in Duels, t \in Teams, hand \in Hands : Predict(a, d, t, hand)
    \/ \E a \in Attackers, t \in Teams, right \in BOOLEAN : Hunt(a, t, right)
    \/ \E t \in Rotators, fee \in RotateFees : Rotate(t, fee)
    \/ TickSome

\* The platform keeps ticking a running match.
Spec == Init /\ [][Next]_vars /\ WF_vars(TickSome)

-----------------------------------------------------------------------------
Statuses == {"absent", "open", "completed", "expired"}
Outcomes == {"none", "win", "loss", "draw", "forfeit-win"}

\* Every variable keeps its type; a score never falls below zero.
TypeOK ==
    /\ now \in 0..MatchEnd
    /\ gen \in [Teams -> Gens]
    /\ rotatedAt \in [Teams -> Nat \cup {None}]
    /\ score \in [Teams -> Nat]
    /\ status \in [Duels -> [Teams -> Statuses]]
    /\ sealed \in [Duels -> [Teams -> Sealed \cup {None}]]
    /\ opening \in [Duels -> [Teams -> Openings \cup {None}]]
    /\ outcome \in [Duels -> [Teams -> Outcomes]]
    /\ pred \in [Duels -> [Teams -> [Teams -> Predictions \cup {None}]]]
    /\ budget \in [Teams -> [Teams -> [Gens -> Nat]]]
    /\ hunted \subseteq Teams \X Teams \X Gens
    /\ ledger \subseteq Duels \X Teams \X Openings
    /\ judged \in [Teams -> [Teams -> [Gens -> Nat]]]

\* A cancelled prediction can always give its attempt back: the row that the
\* refund decrements still holds at least one attempt per pending prediction,
\* whatever rotations happened since ("RPS cancellation has no reserved
\* attempt" is never thrown, rps-hunt.ts settleRpsHunts).
ReservationsBacked ==
    \A a \in Teams, t \in Teams, g \in Gens :
        Cardinality(Reserved(pred, a, t, g)) <= budget[a][t][g]

\* No order of hunts, predictions, refunds and rotations lets a team get more
\* than the configured number of answers judged against one generation.
AttemptsHonoured ==
    \A a \in Teams, t \in Teams, g \in Gens :
        judged[a][t][g] + Cardinality(Reserved(pred, a, t, g)) <= MaxAttempts

\* A counter of a retired generation survives only while a refund may need it
\* (pruneRetiredHuntAttempts keeps the stored row small).
RetiredRowsSwept ==
    \A a \in Teams, t \in Teams, g \in Gens :
        budget[a][t][g] > 0 => g = gen[t] \/ Reserved(pred, a, t, g) # {}

\* What a refund takes back is there, and nothing else is kept for it
\* (rps-hunt.ts settleRpsHunts, pruneRetiredHuntAttempts).
ReservationsExact == ReservationsBacked /\ RetiredRowsSwept

\* Nobody holds an invitation whose opponent cannot answer: both Orders of a
\* duel open and close together.
DuelsPaired ==
    \A d \in Duels : status[d][Home[d]] = "open" <=> status[d][Away[d]] = "open"

\* The two openings of a duel become public in one step or never, and a duel
\* decided by the clock publishes neither.
PublishedTogether ==
    \A d \in Duels :
        LET sides == {e[2] : e \in {x \in ledger : x[1] = d}}
        IN  /\ sides \in {{}, Sides(d)}
            /\ sides # {} => \A t \in Sides(d) : outcome[d][t] \in {"win", "loss", "draw"}

\* A prediction is pending only about a sealed hand nobody has seen, in a duel
\* both of whose sides are still open.
PendingSealed ==
    \A d \in Duels, t \in Teams, a \in Teams : pred[d][t][a] # None =>
        /\ \A s \in Sides(d) : status[d][s] = "open"
        /\ sealed[d][t] # None
        /\ \A e \in ledger : e[1] # d

\* The two results of a duel agree: one winner, a draw, or at most one winner
\* by forfeit whose opponent lapsed.
OutcomesAgree ==
    \A d \in Duels :
        LET verdict == {<<status[d][t], outcome[d][t]>> : t \in Sides(d)}
        IN  verdict \in
              { {<<"absent", "none">>}, {<<"open", "none">>}, {<<"expired", "none">>},
                {<<"completed", "win">>, <<"completed", "loss">>},
                {<<"completed", "draw">>},
                {<<"completed", "forfeit-win">>, <<"expired", "none">>} }

\* The two sides of a duel never disagree: on whether it is open, on what is public
\* and on the result, whichever of them moved last and whatever the clock cut off
\* (reducer.ts advance, rps.ts).
PairAgrees == DuelsPaired /\ PublishedTogether /\ OutcomesAgree

\* A sealed number and an opening are final: no later step replaces them.
SealsFinal ==
    [][\A d \in Duels, t \in Teams :
          /\ sealed[d][t] # None => sealed'[d][t] = sealed[d][t]
          /\ opening[d][t] # None => opening'[d][t] = opening[d][t]]_vars

\* A prediction that the clock cancels costs its author nothing, and earns
\* nothing: only the two players of a lapsing duel are paid or charged.
CancelledFree ==
    [][now' # now => \A a \in Teams :
          (\A d \in Duels : status[d][a] = "open" => status'[d][a] = "open")
              => score'[a] = score[a]]_vars

\* As long as the platform ticks, no player is held hostage by an absent
\* opponent: every issued duel ends.
DuelsEnd ==
    \A d \in Duels, t \in Teams :
        status[d][t] = "open" ~> status[d][t] \in {"completed", "expired"}

\* What the header of commitment.ts says: the hands are opened only once both
\* commitments are on the board.
OpenedAfterBothSealed ==
    \A d \in Duels, t \in Teams :
        opening[d][t] # None => sealed[d][Opponent(d, t)] # None
=============================================================================
