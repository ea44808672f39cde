----------------------------- MODULE MatchClock -----------------------------
(***************************************************************************)
(* How a crypto battle moves with the clock (reducer.ts tick and what it    *)
(* calls, match-length.ts, booster.ts, lightning.ts, rps.ts pairTeams and   *)
(* expireRps).  The whole match is one value m, as it is one stored row in  *)
(* the program, and every operator here is a function from matches to       *)
(* matches; OrderBelt adds the players' operations and the behaviours.      *)
(*                                                                         *)
(* A time is a number of units on the event clock.  What the match seed     *)
(* derives (task, rush and jitter of each arrival) is an entry of Seeds: a  *)
(* sequence of tasks and one of rolls as long as the match needs, which     *)
(* start over where it outlasts them.                                       *)
(***************************************************************************)
EXTENDS Integers, Sequences, FiniteSets, FiniteSetsExt

CONSTANTS
    Roster,         \* the teams, sorted by id
    Seeds,          \* a sequence of [task, rush, roll]: what some seeds derive, repeating
    DefaultTiming,  \* [length, toPressure, toEndgame] of the configuration
    Longest,        \* MAX_MATCH_DURATION_MS
    Ttl, RushTtl,   \* contractTtlMs, rushContractTtlMs
    Interval,       \* contractIntervalMs
    FollowUp,       \* onboardingFollowUpMs
    Jitter,         \* orderArrivalJitterMs
    PerIssue,       \* contractsPerIssue
    MaxOpen,        \* maxOpenOrdersPerTeam
    DuelEvery,      \* one slot in so many is a duel (6 in the code)
    Retained,       \* TERMINAL_ORDER_RETENTION_BATCHES
    TaskPoints, RushPoints, LeakPoints, DuelWin, ExpiredOrder,
    None            \* an absent field

Teams == {Roster[i] : i \in DOMAIN Roster}

ASSUME RosterAssumption ==
    Roster \in Seq(Teams) /\ Cardinality(Teams) = Len(Roster) /\ Len(Roster) > 0
ASSUME PaceAssumption ==
    /\ Ttl \in Nat \ {0} /\ RushTtl \in Nat \ {0} /\ Interval \in Nat \ {0}
    /\ FollowUp \in Nat \ {0} /\ Jitter \in Nat /\ PerIssue \in Nat \ {0}
    /\ MaxOpen \in Nat /\ DuelEvery \in Nat \ {0} /\ Retained \in Nat

ASSUME AmountsAssumption ==
    /\ None \notin Teams /\ None \notin Nat
    /\ DefaultTiming \in [length : Nat, toPressure : Nat, toEndgame : Nat] /\ Longest \in Nat
    /\ {TaskPoints, RushPoints, LeakPoints, DuelWin, ExpiredOrder} \subseteq Nat

Tasks == {"reveal", "disclose", "caesar", "cipher", "calc", "evolve", "prove", "duel"}
ASSUME SeedsAssumption ==
    \A s \in DOMAIN Seeds :
        /\ Seeds[s].task \in Seq(Tasks \ {"duel"}) /\ Len(Seeds[s].task) > 0
        /\ Seeds[s].roll \in Seq(Nat) /\ Len(Seeds[s].roll) > 0

Started(m) == m.start # None
End(m) == m.start + m.timing.length
Now(m) == IF m.now = None THEN m.start ELSE m.now
BoundaryAt(m) == m.start + m.timing.toEndgame
Floored(x) == IF x < 0 THEN 0 ELSE x
Least(a, b) == IF a < b THEN a ELSE b
Greatest(a, b) == IF a < b THEN b ELSE a

IsOpen(o) == o.status = "open"
OpenOrders(m) == {o \in m.orders : IsOpen(o)}
OpenCount(m, t) == Cardinality({o \in OpenOrders(m) : o.team = t})
Points(o) == IF o.rush THEN RushPoints ELSE TaskPoints
TtlOf(o) == IF o.rush THEN RushTtl ELSE Ttl

PhaseAt(m, elapsed) ==
    IF elapsed >= m.timing.length THEN "ended"
    ELSE IF elapsed >= m.timing.toEndgame THEN "endgame"
    ELSE IF elapsed >= m.timing.toPressure THEN "pressure" ELSE "build"

-----------------------------------------------------------------------------
\* Duels that lapse.  A side that did all it could wins.
OpponentOrder(m, o) ==
    {p \in m.orders : p.team = o.opp /\ p.task = "duel" /\ p.seq = o.seq
                        /\ p.issued = o.issued}
AllIn(m, o) ==
    \/ o.step = "opened"
    \/ o.step = "sealed" /\ \A p \in OpponentOrder(m, o) : p.step = "fresh"

LapsedDuels(m, at) == {o \in OpenOrders(m) : o.task = "duel" /\ o.expires <= at}

\* Several duels of a team may lapse at once: in the order of issue, each floored.
AfterDuels(m, D, t) ==
    LET after[k \in Nat] ==
          IF k = 0 THEN m.score[t]
          ELSE LET mine == {o \in D : o.team = t /\ o.seq = k - 1}
               IN  IF mine = {} THEN after[k - 1]
                   ELSE Floored(after[k - 1] +
                          IF \E o \in mine : AllIn(m, o) THEN DuelWin ELSE -ExpiredOrder)
    IN  after[m.count[t]]

ExpireRps(m, at) ==
    LET D == LapsedDuels(m, at)
    IN  [m EXCEPT
          !.score = [t \in Teams |-> AfterDuels(m, D, t)],
          !.orders = {IF o \notin D THEN o
                      ELSE IF AllIn(m, o) THEN [o EXCEPT !.status = "completed", !.how = "duel"]
                      ELSE [o EXCEPT !.status = "expired", !.how = "deadline"] : o \in m.orders}]

\* Every other order that lapses costs its team the same penalty.
Charged(m, lapsed) ==
    [t \in Teams |->
        Floored(m.score[t] - ExpiredOrder * Cardinality({o \in lapsed : o.team = t}))]
ExpireOrders(m, at) ==
    LET lapsed == {o \in OpenOrders(m) : o.expires <= at}
    IN  [m EXCEPT
          !.score = Charged(m, lapsed),
          !.orders = {IF o \in lapsed THEN [o EXCEPT !.status = "expired", !.how = "deadline"]
                      ELSE o : o \in m.orders}]

-----------------------------------------------------------------------------
\* pairTeams: the circle schedule.  The first team stays, the others turn, and
\* an odd roster has a bye.
Ring0 == IF Len(Roster) % 2 = 0 THEN Roster ELSE Append(Roster, None)
RingAt(k) ==
    [j \in 1..Len(Ring0) |->
        IF j = 1 THEN Ring0[1] ELSE Ring0[((j - 2 - k) % (Len(Ring0) - 1)) + 2]]
OpponentIn(round, t) ==
    LET ring == RingAt(round % (Len(Ring0) - 1))
        i == CHOOSE j \in DOMAIN ring : ring[j] = t
    IN  IF Len(Roster) < 2 THEN None ELSE ring[Len(ring) + 1 - i]

MutCountHeld(m, t) == Cardinality({o \in m.orders : o.team = t})
NextSeq(m, t) == m.count[t]

IsOpening(m) == \A t \in Teams : m.count[t] = 0

\* The opponent of the slot team t is about to get, if it is a duel.
DuelOpponent(m, t, opening) ==
    IF ~opening /\ m.count[t] % DuelEvery = 0
    THEN OpponentIn((m.count[t] \div DuelEvery) - 1, t) ELSE None

\* A full queue skips the slot; a duel needs room on both sides.
HasRoom(m, t) == OpenCount(m, t) < MaxOpen
Delivers(m, t, opp) == HasRoom(m, t) /\ (opp # None => HasRoom(m, opp))

\* The order of team t in a slot that arrives at a.
NewOrder(m, t, a, opp) ==
    LET index == m.count[t] - m.duels[t]
        tasks == Seeds[m.seed].task
        rush == opp = None /\ index # 0 /\ <<t, index>> \in Seeds[m.seed].rush
    IN  [team |-> t, seq |-> NextSeq(m, t), rush |-> rush, opp |-> opp,
         task |-> IF opp # None THEN "duel"
                  ELSE IF index = 0 THEN "reveal" ELSE tasks[((index - 1) % Len(tasks)) + 1],
         issued |-> a,
         expires |-> Least(a + (IF rush THEN RushTtl ELSE Ttl), End(m)),
         status |-> "open", how |-> "none", step |-> "fresh",
         tried |-> FALSE, failed |-> FALSE, hints |-> 0, gen |-> m.gen[t]]

\* One slot for every team; the counters advance even where it is skipped.
IssueSlot(m, a, opening) ==
    LET opp == [t \in Teams |-> DuelOpponent(m, t, opening)]
        given == {t \in Teams : Delivers(m, t, opp[t])}
    IN  [m EXCEPT
          !.orders = @ \cup {NewOrder(m, t, a, opp[t]) : t \in given},
          !.count = [t \in Teams |-> @[t] + 1],
          !.duels = [t \in Teams |-> @[t] + IF opp[t] # None THEN 1 ELSE 0]]

IssueSlots(m, a, opening, slots) ==
    LET after[k \in Nat] == IF k = 0 THEN m ELSE IssueSlot(after[k - 1], a, opening)
    IN  after[slots]

\* One shared schedule, derived from the scheduled time and never from the tick.
Gap(m, opening) ==
    LET base == IF opening THEN FollowUp ELSE Interval
        jitter == Least(base - 1, Jitter)
        rolls == Seeds[m.seed].roll
        roll == rolls[((m.next - m.start) % Len(rolls)) + 1]
    IN  base + (roll % (2 * jitter + 1)) - jitter

IsDue(m, at) == m.next <= at /\ m.next < End(m)

IssueNext(m) ==
    LET opening == IsOpening(m)
    IN  [IssueSlots(m, m.next, opening, IF opening THEN 1 ELSE PerIssue)
            EXCEPT !.next = @ + Gap(m, opening)]

\* Every batch that is due: each is later than the one before, so there are no more of
\* them than there are instants.
IssueDue(m, at) ==
    LET after[k \in Nat] ==
          IF k = 0 THEN m
          ELSE LET before == after[k - 1]
               IN  IF IsDue(before, at) THEN IssueNext(before) ELSE before
    IN  IF IsDue(m, at) THEN after[at - m.next + 1] ELSE m

\* Terminal orders leave the row after a while.
Prune(m, at) ==
    [m EXCEPT !.orders = {o \in @ : IsOpen(o) \/ o.issued >= at - Interval * Retained}]

TickAtTime(m, at) ==
    IF ~Started(m) THEN [m EXCEPT !.phase = "waiting", !.now = at]
    ELSE [Prune(IssueDue(ExpireOrders(ExpireRps(m, at), at), at), at)
             EXCEPT !.phase = PhaseAt(m, at - m.start), !.now = at]

-----------------------------------------------------------------------------
\* What the endgame distributes: free hints to the lowest team, and a card that
\* doubles one answer to the bottom two places, ties included.
NoCard == [st |-> "none", seq |-> None, points |-> 0, expires |-> 0, result |-> "none"]

LowestTeams(m) ==
    IF Len(Roster) < 2 THEN {} ELSE {t \in Teams : \A u \in Teams : m.score[t] <= m.score[u]}

BottomTeams(m) ==
    LET places == IF Len(Roster) = 2 THEN 1 ELSE 2
    IN  IF Len(Roster) < 2 THEN {}
        ELSE {t \in Teams : Cardinality({u \in Teams : m.score[u] < m.score[t]}) < places}

Methods(task) ==
    CASE task = "reveal" -> {"leak", "prove"}
      [] task = "disclose" -> {"leak"}
      [] task \in {"caesar", "cipher"} -> {"leak", "cipher"}
      [] task = "prove" -> {"prove"}
      [] task = "duel" -> {"duel"}
      [] OTHER -> {task}

\* Why an armed card is spent now, or "none".
OrderOf(m, t, seq) == {o \in m.orders : o.team = t /\ o.seq = seq}
ProofMissed(o) == o.status = "completed" /\ o.how = "prove" /\ o.step = "missed"
Verdict(m, t) ==
    LET card == m.cards[t]
        mine == OrderOf(m, t, card.seq)
        done == {o \in mine : o.status = "completed"}
        lapsed == {o \in mine : o.status = "expired"}
    IN  IF \E o \in done : ProofMissed(o) THEN "miss"
        ELSE IF \E o \in done : o.how = "leak" THEN "leak"
        ELSE IF done # {} THEN "hit"
        ELSE IF \E o \in lapsed : o.how = "rotate" THEN "rotate"
        ELSE IF lapsed # {} \/ m.now >= card.expires THEN "deadline"
        ELSE IF m.phase = "ended" THEN "ended" ELSE "none"

\* A card that was never declared, once nothing can be declared any more.
Stranded(m, card) == card.st = "available" /\ m.phase = "ended"

SettledCard(m, t) ==
    LET card == m.cards[t]
        forfeit == \E o \in OrderOf(m, t, card.seq) : o.failed \/ ProofMissed(o)
        kept == IF forfeit THEN [card EXCEPT !.points = 0] ELSE card
    IN  IF Stranded(m, card) THEN [card EXCEPT !.st = "unused"]
        ELSE IF card.st # "armed" THEN card
        ELSE IF Verdict(m, t) = "none" THEN kept
        ELSE [kept EXCEPT !.st = "spent", !.result = Verdict(m, t)]

SettleLightning(m) == [m EXCEPT !.cards = [t \in Teams |-> SettledCard(m, t)]]

\* Both distributions happen once, at the first event at or past the boundary.
\* An end moved before the endgame means the endgame never came.
Award(m) ==
    IF m.awarded THEN m
    ELSE [m EXCEPT !.awarded = TRUE, !.boosted = LowestTeams(m),
                   !.cards = [t \in Teams |-> IF t \in BottomTeams(m)
                                THEN [NoCard EXCEPT !.st = "available"] ELSE NoCard]]

TickEvent(m, at) ==
    LET advanced == TickAtTime(m, at)
    IN  IF Started(m) /\ at >= BoundaryAt(m) /\ BoundaryAt(m) < End(m)
        THEN SettleLightning(Award(advanced)) ELSE SettleLightning(advanced)

MutNextInstant(m, at) == at
\* The next instant at which something happens, or the requested one: arrivals,
\* deadlines and the endgame are replayed in time order.
NextInstant(m, at) ==
    LET arrivals == IF m.next >= Now(m) /\ m.next < End(m) THEN {m.next} ELSE {}
        deadlines == {x \in {o.expires : o \in OpenOrders(m)} : x > Now(m)}
        boundary == IF ~m.awarded /\ BoundaryAt(m) >= Now(m) /\ BoundaryAt(m) < End(m)
                    THEN {BoundaryAt(m)} ELSE {}
    IN  Min({at} \cup arrivals \cup deadlines \cup boundary)

\* All but the last of these ticks: each is later than the one before.
Replayed(m, at) ==
    LET after[k \in Nat] ==
          IF k = 0 THEN m
          ELSE LET before == after[k - 1]
                   next == NextInstant(before, at)
               IN  IF next = at THEN before ELSE TickEvent(before, next)
    IN  after[at - Now(m)]

Replay(m, at) == TickEvent(Replayed(m, at), at)

Advance(m, at) ==
    IF m.now # None /\ at < m.now THEN m
    ELSE IF ~Started(m) THEN TickAtTime(m, at) ELSE Replay(m, at)

-----------------------------------------------------------------------------
\* What the platform reports: the instant at which it closes the match.
Thirds(length) ==
    [length |-> length, toPressure |-> length \div 3, toEndgame |-> (2 * length) \div 3]

\* Open orders keep the deadline they would have had under the new end, and an
\* armed card moves with its order.
Deadline(o, oldEnd, newEnd) ==
    Least(newEnd, IF o.expires = oldEnd THEN o.issued + TtlOf(o) ELSE o.expires)

CardMoved(card, t, moved) ==
    IF card.st = "armed" /\ \E o \in moved : o.team = t /\ o.seq = card.seq
    THEN [card EXCEPT !.expires = (CHOOSE o \in moved : o.team = t /\ o.seq = card.seq).expires]
    ELSE card

Rescheduled(m, length) ==
    LET newEnd == m.start + length
        orders == {IF IsOpen(o) THEN [o EXCEPT !.expires = Deadline(o, End(m), newEnd)] ELSE o
                      : o \in m.orders}
    IN  [m EXCEPT !.orders = orders,
                  !.cards = [t \in Teams |-> CardMoved(@[t], t, orders \ m.orders)]]

\* After START a report moves the end only; the phases were fixed at START.
TimingAfter(m, length) == [m.timing EXCEPT !.length = length]

Follows(m) == m.phase # "ended"

WithMatchDuration(m, reported) ==
    IF reported = None \/ ~Follows(m) THEN m
    ELSE IF reported <= 0 \/ reported > Longest THEN [m EXCEPT !.rejected = TRUE]
    ELSE LET accepted == [m EXCEPT !.rejected = FALSE, !.reported = reported]
             length == Greatest(0, reported - m.start)
         IN  IF ~Started(m) THEN [accepted EXCEPT !.timing = Thirds(reported)]
             ELSE IF length = m.timing.length THEN accepted
             ELSE [Rescheduled(accepted, length) EXCEPT !.timing = TimingAfter(m, length)]

\* A stale clock carries a stale report: both are ignored.
Tick(m, at, reported) ==
    IF m.now # None /\ at < m.now THEN m
    ELSE Advance(WithMatchDuration(m, reported), at)

-----------------------------------------------------------------------------
InitialMatch(seed) ==
    [seed |-> seed, phase |-> "waiting", ready |-> {}, now |-> None, start |-> None,
     next |-> 0, timing |-> DefaultTiming, reported |-> None, rejected |-> FALSE,
     orders |-> {}, count |-> [t \in Teams |-> 0], duels |-> [t \in Teams |-> 0],
     score |-> [t \in Teams |-> 0], awarded |-> FALSE, boosted |-> {},
     cards |-> [t \in Teams |-> NoCard],
     gen |-> [t \in Teams |-> 1], rotated |-> [t \in Teams |-> None],
     disclosed |-> [t \in Teams |-> FALSE]]

\* The phases divide the span left when the match starts.
ApplyStart(m) ==
    LET at == IF m.now = None THEN 0 ELSE m.now
        timing == IF m.reported = None THEN m.timing ELSE Thirds(Greatest(0, m.reported - at))
    IN  Tick([m EXCEPT !.start = at, !.next = at, !.phase = "build", !.timing = timing],
             at, None)

\* The match begins once every team has said so; a repeated READY adds nothing.
ApplyReady(m, t) ==
    LET waiting == [m EXCEPT !.ready = @ \cup {t}]
    IN  IF Teams \subseteq waiting.ready THEN ApplyStart(waiting) ELSE waiting
=============================================================================
