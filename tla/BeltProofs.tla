----------------------------- MODULE BeltProofs -----------------------------
(***************************************************************************)
(* Proofs about OrderBelt and MatchView: of every order, card and duel on    *)
(* the belt, and of what a page shows of them, for every roster, seed,       *)
(* timing and report.  A tick replays the instants it skipped one after      *)
(* another; the invariant says what holds between two of them, and each      *)
(* operation is shown to keep it.  Then a page is carried along: what a step *)
(* may do to the row, and what a page that was true relies on.               *)
(***************************************************************************)
EXTENDS MatchView, SumTheorems, SequenceTheorems

-----------------------------------------------------------------------------
(* The circle schedule.                                                     *)

LEMMA ModInjective ==
    ASSUME NEW x \in Int, NEW y \in Int, NEW n \in Nat \ {0}, x % n = y % n, x - y < n, y - x < n
    PROVE  x = y
<1> DEFINE p == x \div n
           q == y \div n
<1>1. x = (n * p) + (x % n) /\ y = (n * q) + (y % n) /\ p \in Int /\ q \in Int /\ x % n \in Int
  OBVIOUS
<1> HIDE DEF p, q
<1>2. x - y = n * (p - q)
  BY <1>1
<1>3. CASE p - q >= 1
  BY <1>1, <1>3, <1>2
<1>4. CASE q - p >= 1
  BY <1>1, <1>4, <1>2
<1>5. CASE p = q
  BY <1>1, <1>5
<1> QED BY <1>1, <1>3, <1>4, <1>5

\* Every team has one place in the roster, and a bye is nobody's.
LEMMA RosterPlaces ==
    /\ Len(Ring0) \in Nat
    /\ Ring0 \in [1..Len(Ring0) -> Teams \cup {None}]
    /\ \A i, j \in 1..Len(Ring0) : Ring0[i] = Ring0[j] => i = j
    /\ \A t \in Teams : \E i \in 1..Len(Ring0) : Ring0[i] = t
    /\ Len(Ring0) >= Len(Roster)
<1> DEFINE L == Len(Roster)
<1>1. Roster \in [1..L -> Teams] /\ L \in Nat
  BY RosterAssumption
<1>6. \A t \in Teams : \E i \in 1..L : Roster[i] = t
  BY <1>1 DEF Teams
<1> HIDE DEF L
<1>2. Roster \in Surjection(1..L, Teams)
  BY <1>1, <1>6 DEF Surjection
<1>3. IsFiniteSet(1..L) /\ Cardinality(1..L) = L
  BY <1>1, FS_Interval
<1>4. Roster \in Injection(1..L, Teams)
  BY <1>2, <1>3, RosterAssumption, FS_SurjSameCardinalityImpliesInj DEF L
<1>5. \A i, j \in 1..L : Roster[i] = Roster[j] => i = j
  BY <1>4 DEF Injection, IsInjective
<1>7. CASE Len(Roster) % 2 = 0
  BY <1>1, <1>5, <1>6, <1>7 DEF Ring0, L
<1>8. CASE Len(Roster) % 2 # 0
  <2>1. Ring0 = Append(Roster, None)
    BY <1>8 DEF Ring0
  <2>2. Len(Ring0) = L + 1 /\ \A i \in 1..L : Ring0[i] = Roster[i]
    BY <2>1, RosterAssumption DEF L
  <2>3. Ring0[L + 1] = None
    BY <2>1, RosterAssumption DEF L
  <2>4. Ring0 \in Seq(Teams \cup {None})
    BY <1>1, <2>1, AppendProperties
  <2>5. \A i \in 1..(L + 1) : i \in 1..L \/ i = L + 1
    BY <1>1
  <2>6. Ring0 \in [1..(L + 1) -> Teams \cup {None}]
    BY <1>1, <2>2, <2>3, <2>4, <2>5
  <2>7. \A i, j \in 1..(L + 1) : Ring0[i] = Ring0[j] => i = j
    BY <1>1, <1>5, <2>2, <2>3, <2>5, AmountsAssumption
  <2>8. \A t \in Teams : \E i \in 1..(L + 1) : Ring0[i] = t
    BY <1>1, <1>6, <2>2
  <2> QED BY <1>1, <2>2, <2>6, <2>7, <2>8 DEF L
<1> QED BY <1>7, <1>8

\* A turn of the ring moves every place but the first, and no two to the same.
LEMMA RingTurns ==
    ASSUME NEW k \in Int, Len(Roster) >= 2
    PROVE  /\ RingAt(k) \in [1..Len(Ring0) -> Teams \cup {None}]
           /\ \A i, j \in 1..Len(Ring0) : RingAt(k)[i] = RingAt(k)[j] => i = j
           /\ \A t \in Teams : \E i \in 1..Len(Ring0) : RingAt(k)[i] = t
<1> DEFINE L == Len(Ring0)
           place == [j \in 1..L |-> IF j = 1 THEN 1 ELSE ((j - 2 - k) % (L - 1)) + 2]
<1>1. L \in Nat /\ L >= 2
  BY RosterPlaces, RosterAssumption
<1>2. RingAt(k) = [j \in 1..L |-> Ring0[place[j]]]
  BY <1>1 DEF RingAt
<1> HIDE DEF L
<1>3. ASSUME NEW j \in 1..L, j # 1
      PROVE  /\ (j - 2 - k) \in Int /\ (j - 2 - k) % (L - 1) \in 0..(L - 2)
             /\ place[j] = ((j - 2 - k) % (L - 1)) + 2
  BY <1>1, <1>3
<1>4. place \in [1..L -> 1..L]
  <2> SUFFICES ASSUME NEW j \in 1..L PROVE place[j] \in 1..L
    OBVIOUS
  <2>1. CASE j = 1
    BY <1>1, <2>1
  <2>2. CASE j # 1
    <3> DEFINE e == (j - 2 - k) % (L - 1)
    <3>1. e \in 0..(L - 2) /\ place[j] = e + 2
      BY <1>3, <2>2
    <3> HIDE DEF e, place
    <3> QED BY <1>1, <3>1
  <2> QED BY <2>1, <2>2
<1>5. ASSUME NEW i \in 1..L, NEW j \in 1..L, place[i] = place[j] PROVE i = j
  <2>1. CASE i = 1 \/ j = 1
    <3>1. ASSUME NEW e \in 1..L, e # 1 PROVE place[e] # 1
      <4> DEFINE d == (e - 2 - k) % (L - 1)
      <4>1. d \in 0..(L - 2) /\ place[e] = d + 2
        BY <1>3, <3>1
      <4> HIDE DEF d, place
      <4> QED BY <1>1, <4>1
    <3>2. place[1] = 1
      BY <1>1
    <3> HIDE DEF place
    <3> QED BY <1>5, <2>1, <3>1, <3>2
  <2>2. CASE i # 1 /\ j # 1
    <3> DEFINE x == i - 2 - k
               y == j - 2 - k
    <3>1. /\ x \in Int /\ y \in Int /\ x % (L - 1) \in Int /\ y % (L - 1) \in Int
          /\ place[i] = (x % (L - 1)) + 2 /\ place[j] = (y % (L - 1)) + 2
      BY <1>1, <1>3, <2>2
    <3>2. x % (L - 1) = y % (L - 1)
      <4> DEFINE u == x % (L - 1)
                 v == y % (L - 1)
      <4>1. u \in Int /\ v \in Int /\ u + 2 = v + 2
        BY <1>5, <3>1
      <4> HIDE DEF u, v
      <4>2. u = v
        BY <4>1
      <4> QED BY <4>2 DEF u, v
    <3>3. x - y < L - 1 /\ y - x < L - 1 /\ L - 1 \in Nat \ {0}
      BY <1>1, <2>2
    <3> HIDE DEF place, x, y
    <3>4. x = y
      BY <3>1, <3>2, <3>3, ModInjective
    <3> QED BY <1>1, <3>4 DEF x, y
  <2> QED BY <2>1, <2>2
<1>6. place \in Injection(1..L, 1..L)
  <2> HIDE DEF place
  <2> QED BY <1>4, <1>5 DEF Injection, IsInjective
<1>7. place \in Surjection(1..L, 1..L)
  <2>1. IsFiniteSet(1..L)
    BY <1>1, FS_Interval
  <2> HIDE DEF place
  <2> QED BY <1>6, <2>1, FS_Injection
<1> HIDE DEF place
<1>8. \A i \in 1..L : \E j \in 1..L : place[j] = i
  BY <1>7 DEF Surjection
<1>9. /\ Ring0 \in [1..L -> Teams \cup {None}]
      /\ \A i, j \in 1..L : Ring0[i] = Ring0[j] => i = j
      /\ \A t \in Teams : \E i \in 1..L : Ring0[i] = t
  BY RosterPlaces DEF L
<1>10. RingAt(k) \in [1..L -> Teams \cup {None}]
  BY <1>2, <1>4, <1>9
<1>11. \A i, j \in 1..L : RingAt(k)[i] = RingAt(k)[j] => i = j
  BY <1>2, <1>4, <1>5, <1>9
<1>12. ASSUME NEW t \in Teams PROVE \E i \in 1..L : RingAt(k)[i] = t
  <2>1. PICK i \in 1..L : Ring0[i] = t
    BY <1>9
  <2>2. PICK j \in 1..L : place[j] = i
    BY <1>8
  <2> QED BY <1>2, <2>1, <2>2
<1> QED BY <1>10, <1>11, <1>12 DEF L

\* Whom the schedule gives a team, it gives that team to (pairTeams).
LEMMA OpponentMutual ==
    ASSUME NEW round \in Int, NEW t \in Teams, OpponentIn(round, t) # None
    PROVE  /\ OpponentIn(round, t) \in Teams
           /\ OpponentIn(round, OpponentIn(round, t)) = t
<1> DEFINE k == round % (Len(Ring0) - 1)
           ring == RingAt(k)
           L == Len(Ring0)
           at(u) == CHOOSE j \in DOMAIN ring : ring[j] = u
           opp == OpponentIn(round, t)
<1>1. Len(Roster) >= 2 /\ Len(Roster) \in Nat
  BY RosterAssumption DEF OpponentIn
<1>2. L \in Nat /\ L >= 2
  BY <1>1, RosterPlaces
<1>3. k \in Int
  BY <1>2
<1> HIDE DEF k
<1>4. /\ ring \in [1..L -> Teams \cup {None}]
      /\ \A i, j \in 1..L : ring[i] = ring[j] => i = j
      /\ \A u \in Teams : \E i \in 1..L : ring[i] = u
  BY <1>1, <1>3, RingTurns
<1>5. Len(ring) = L /\ DOMAIN ring = 1..L
  BY <1>2, <1>4
<1>6. \A u \in Teams : OpponentIn(round, u) = ring[Len(ring) + 1 - at(u)]
  BY <1>1 DEF OpponentIn, k
<1> HIDE DEF ring, L
<1>7. \A u \in Teams : at(u) \in 1..L /\ ring[at(u)] = u
  BY <1>4, <1>5
<1> HIDE DEF at
<1>8. \A u \in Teams : L + 1 - at(u) \in 1..L /\ OpponentIn(round, u) = ring[L + 1 - at(u)]
  BY <1>2, <1>5, <1>6, <1>7
<1>9. opp \in Teams /\ opp = ring[L + 1 - at(t)]
  BY <1>4, <1>8
<1> HIDE DEF opp
<1>10. at(opp) = L + 1 - at(t)
  BY <1>4, <1>7, <1>8, <1>9
<1>11. L + 1 - at(opp) = at(t)
  BY <1>2, <1>7, <1>10
<1>12. OpponentIn(round, opp) = t
  BY <1>7, <1>8, <1>9, <1>11
<1> QED BY <1>9, <1>12 DEF opp

-----------------------------------------------------------------------------
(* What holds of a row between two steps.                                   *)

\* Orders are told apart by team and number, and every team is at the same number.
Numbered(m) ==
    /\ \A o, p \in m.orders : o.team = p.team /\ o.seq = p.seq => o = p
    /\ \A o \in m.orders : o.seq < m.count[o.team]
    /\ \A t, u \in Teams : m.count[t] = m.count[u]

Deadlines(m) == \A o \in OpenOrders(m) : o.expires = Least(o.issued + TtlOf(o), End(m))

Twins(o, p) ==
    /\ p.team = o.opp /\ p.task = "duel" /\ p.seq = o.seq /\ p.issued = o.issued
    /\ p.expires = o.expires /\ p.opp = o.team
Paired(m) ==
    \A o \in OpenOrders(m) : o.task = "duel" =>
        ~o.rush /\ \E p \in OpenOrders(m) : Twins(o, p)

\* The belt holds so many open orders of a team.
Roomy(m) == \A t \in Teams : OpenCount(m, t) <= MaxOpen

Sound(m) ==
    /\ m \in CryptoBattleState /\ IsFiniteSet(m.orders)
    /\ Numbered(m) /\ Deadlines(m) /\ Paired(m) /\ Roomy(m)

\* The order an armed card was declared on.
Stake(card, t, o) ==
    /\ o.team = t /\ o.seq = card.seq /\ o.expires = card.expires
    /\ card.points \in {0, 2 * Points(o)}
Named(m) == \A t \in Teams : m.cards[t].st \in {"armed", "spent"} => m.cards[t].seq # None
Held(m) ==
    /\ Named(m)
    /\ \A t \in Teams : m.cards[t].st = "armed" =>
          \E o \in OpenOrders(m) : Stake(m.cards[t], t, o)
HeldUntil(m, x) ==
    /\ Named(m)
    /\ \A t \in Teams : m.cards[t].st = "armed" =>
          m.cards[t].expires <= x \/ \E o \in OpenOrders(m) : Stake(m.cards[t], t, o)
Tied(m) ==
    /\ Named(m)
    /\ \A t \in Teams : m.cards[t].st = "armed" =>
          m.cards[t].expires <= m.now \/ \E o \in m.orders : Stake(m.cards[t], t, o)

\* Every card is what settling it makes of it.
Still(m) == \A t \in Teams : SettledCard(m, t) = m.cards[t]

\* Every open order can be answered, and the endgame was not distributed early.
Alive(m) == \A o \in OpenOrders(m) : Now(m) < o.expires
Timely(m) == m.awarded => BoundaryAt(m) <= Now(m) /\ BoundaryAt(m) <= End(m)

\* What is open was open, or is new.
Evolves(m, r) ==
    /\ \A t \in Teams : m.count[t] <= r.count[t]
    /\ \A q \in OpenOrders(r) : q.seq < m.count[q.team] =>
          \E o \in OpenOrders(m) : o.team = q.team /\ o.seq = q.seq

\* What lapses and arrivals leave alone.
Untouched(m, r) ==
    /\ r.start = m.start /\ r.timing = m.timing /\ r.awarded = m.awarded /\ r.cards = m.cards
    /\ r.seed = m.seed /\ r.ready = m.ready /\ r.reported = m.reported
    /\ r.rejected = m.rejected /\ r.boosted = m.boosted /\ r.gen = m.gen
    /\ r.rotated = m.rotated /\ r.disclosed = m.disclosed

LEMMA EvolvesOn ==
    ASSUME NEW m \in CryptoBattleState, NEW r \in CryptoBattleState, NEW s \in CryptoBattleState,
           Evolves(m, r), Evolves(r, s)
    PROVE  Evolves(m, s)
<1>1. \A t \in Teams : m.count[t] \in Nat /\ r.count[t] \in Nat /\ s.count[t] \in Nat
  BY DEF CryptoBattleState
<1>2. \A t \in Teams : m.count[t] <= s.count[t]
  BY <1>1 DEF Evolves
<1>3. ASSUME NEW q \in OpenOrders(s), q.seq < m.count[q.team]
      PROVE  \E o \in OpenOrders(m) : o.team = q.team /\ o.seq = q.seq
  <2>1. q.seq \in Nat /\ q.team \in Teams
    BY DEF OpenOrders, CryptoBattleState, Contract
  <2>2. q.seq < r.count[q.team]
    BY <1>1, <1>3, <2>1 DEF Evolves
  <2>3. PICK p \in OpenOrders(r) : p.team = q.team /\ p.seq = q.seq
    BY <2>2 DEF Evolves
  <2> QED BY <1>3, <2>3 DEF Evolves
<1> QED BY <1>2, <1>3 DEF Evolves

LEMMA EvolvesSame ==
    ASSUME NEW m \in CryptoBattleState, NEW r, r.orders = m.orders, r.count = m.count
    PROVE  Evolves(m, r)
BY DEF CryptoBattleState, Evolves, OpenOrders

LEMMA OrderFields ==
    ASSUME NEW m \in CryptoBattleState, NEW o \in m.orders
    PROVE  /\ o \in Contract /\ o.team \in Teams /\ o.seq \in Nat /\ o.rush \in BOOLEAN
           /\ o.opp \in Teams \cup {None} /\ o.task \in Tasks /\ o.issued \in Nat
           /\ o.expires \in Nat /\ o.hints \in 0..Len(HintCosts)
           /\ TtlOf(o) \in Nat \ {0} /\ Points(o) \in Nat
BY PaceAssumption, AmountsAssumption DEF CryptoBattleState, Contract, TtlOf, Points, Optional

LEMMA RowFields ==
    ASSUME NEW m \in CryptoBattleState
    PROVE  /\ m.orders \in SUBSET Contract /\ m.count \in [Teams -> Nat]
           /\ m.duels \in [Teams -> Nat] /\ m.score \in [Teams -> Nat]
           /\ m.cards \in [Teams -> LightningCard] /\ m.awarded \in BOOLEAN /\ m.next \in Nat
           /\ m.timing \in [length : Nat, toPressure : Nat, toEndgame : Nat]
           /\ m.timing.length \in Nat /\ m.timing.toEndgame \in Nat
           /\ m.now \in Nat \cup {None} /\ m.start \in Nat \cup {None} /\ m.phase \in Phases
           /\ m.seed \in DOMAIN Seeds /\ m.gen \in [Teams -> Nat \ {0}]
           /\ (Started(m) => m.start \in Nat /\ End(m) \in Nat /\ BoundaryAt(m) \in Nat)
BY DEF CryptoBattleState, Optional, Started, End, BoundaryAt

\* A step that rewrites orders one by one, and closes both sides of a duel or neither.
Twin(o, q) ==
    /\ q.team = o.team /\ q.seq = o.seq /\ q.opp = o.opp /\ q.task = o.task /\ q.rush = o.rush
    /\ q.issued = o.issued /\ q.expires = o.expires
Revises(m, r, f) ==
    /\ f \in [m.orders -> Contract]
    /\ r.orders = {f[o] : o \in m.orders}
    /\ \A o \in m.orders : Twin(o, f[o]) /\ (IsOpen(f[o]) => IsOpen(o))
    /\ \A o, p \in OpenOrders(m) :
          o.task = "duel" /\ IsOpen(f[o]) /\ Twins(o, p) => IsOpen(f[p])

\* Where every open order was open before, there are no more of them.
LEMMA FewerOpen ==
    ASSUME NEW m, Roomy(m), IsFiniteSet(m.orders), NEW r, IsFiniteSet(r.orders), Numbered(r),
           \A q \in OpenOrders(r) : \E o \in OpenOrders(m) : o.team = q.team /\ o.seq = q.seq
    PROVE  Roomy(r)
<1> SUFFICES ASSUME NEW t \in Teams PROVE OpenCount(r, t) <= MaxOpen
  BY DEF Roomy
<1> DEFINE S == {o \in OpenOrders(m) : o.team = t}
           T == {o \in OpenOrders(r) : o.team = t}
           f == [q \in T |-> CHOOSE o \in S : o.seq = q.seq]
<1>1. \A q \in T : f[q] \in S /\ f[q].seq = q.seq
  OBVIOUS
<1>2. T \in SUBSET r.orders /\ S \in SUBSET m.orders
  BY DEF OpenOrders
<1>3. IsFiniteSet(S) /\ IsFiniteSet(T)
  BY <1>2, FS_Subset
<1>4. \A p, q \in T : p.seq = q.seq => p = q
  BY DEF Numbered, OpenOrders
<1>5. f \in Injection(T, S)
  <2>1. f \in [T -> S]
    BY <1>1
  <2>2. \A p, q \in T : f[p] = f[q] => p = q
    BY <1>1, <1>4
  <2> HIDE DEF f, S, T
  <2> QED BY <2>1, <2>2 DEF Injection, IsInjective
<1> HIDE DEF f, S, T
<1>6. Cardinality(T) <= Cardinality(S)
  BY <1>3, <1>5, FS_Injection
<1>7. Cardinality(T) \in Nat /\ Cardinality(S) \in Nat
  BY <1>3, FS_CardinalityType
<1>8. Cardinality(S) <= MaxOpen
  BY DEF Roomy, OpenCount, S
<1> QED BY <1>6, <1>7, <1>8, PaceAssumption DEF OpenCount, T

LEMMA Revised ==
    ASSUME NEW m, Sound(m), NEW r \in CryptoBattleState, r.count = m.count,
           r.start = m.start, r.timing = m.timing, NEW f, Revises(m, r, f)
    PROVE  Sound(r) /\ Evolves(m, r)
<1>0. m \in CryptoBattleState
  BY DEF Sound
<1>1. /\ f \in [m.orders -> Contract] /\ \A q \in r.orders : \E o \in m.orders : q = f[o]
      /\ \A o \in m.orders : f[o] \in r.orders
  BY DEF Revises
<1>2. IsFiniteSet(r.orders)
  <2>1. f \in Surjection(m.orders, r.orders)
    BY <1>1 DEF Surjection
  <2> QED BY <2>1, FS_Surjection DEF Sound
<1>3. \A o \in m.orders : Twin(o, f[o]) /\ (IsOpen(f[o]) => IsOpen(o))
  BY DEF Revises
<1>4. Numbered(r)
  BY <1>1, <1>3 DEF Sound, Numbered, Twin
<1>5. ASSUME NEW q \in OpenOrders(r)
      PROVE  \E o \in OpenOrders(m) : q = f[o] /\ Twin(o, q)
  BY <1>1, <1>3 DEF OpenOrders
<1>6. Deadlines(r)
  BY <1>5 DEF Sound, Deadlines, Twin, TtlOf, End
<1>7. Paired(r)
  <2> SUFFICES ASSUME NEW q \in OpenOrders(r), q.task = "duel"
               PROVE  ~q.rush /\ \E p \in OpenOrders(r) : Twins(q, p)
    BY DEF Paired
  <2>1. PICK o \in OpenOrders(m) : q = f[o] /\ Twin(o, q)
    BY <1>5
  <2>2. PICK p \in OpenOrders(m) : Twins(o, p) /\ ~o.rush
    BY <2>1 DEF Sound, Paired, Twin
  <2>3. IsOpen(f[p])
    BY <2>1, <2>2 DEF Revises, OpenOrders, Twin
  <2>4. f[p] \in OpenOrders(r) /\ Twin(p, f[p])
    BY <1>1, <1>3, <2>3 DEF OpenOrders
  <2>5. Twins(q, f[p])
    BY <2>1, <2>2, <2>4 DEF Twins, Twin
  <2> QED BY <2>1, <2>2, <2>4, <2>5 DEF Twin
<1>8. Evolves(m, r)
  BY RowFields, <1>5 DEF Sound, Evolves, Twin
<1>9. \A q \in OpenOrders(r) : \E o \in OpenOrders(m) : o.team = q.team /\ o.seq = q.seq
  BY <1>5 DEF Twin
<1>10. Roomy(r)
  BY <1>2, <1>4, <1>9, FewerOpen DEF Sound
<1> QED BY <1>2, <1>4, <1>6, <1>7, <1>8, <1>10 DEF Sound

\* Cards that stood for an order stand for what it has become.
LEMMA RevisedHeld ==
    ASSUME NEW m \in CryptoBattleState, NEW r, NEW f, Revises(m, r, f), r.cards = m.cards,
           NEW x, HeldUntil(m, x),
           \A o \in OpenOrders(m) : IsOpen(f[o]) \/ o.expires <= x
    PROVE  HeldUntil(r, x)
BY DEF HeldUntil, Named, Stake, Revises, OpenOrders, Twin, Points

LEMMA RevisedTied ==
    ASSUME NEW m \in CryptoBattleState, NEW r, NEW f, Revises(m, r, f), r.cards = m.cards,
           r.now = m.now, Held(m)
    PROVE  Tied(r)
BY DEF Tied, Held, Named, OpenOrders, Revises, Stake, Twin, Points

-----------------------------------------------------------------------------
(* Orders that lapse.                                                       *)

LEMMA FlooredType == \A x \in Int : Floored(x) \in Nat
BY DEF Floored

\* What the lapsed duel of number k does to the score v of its team.
DuelStep(m, D, t, k, v) ==
    LET mine == {o \in D : o.team = t /\ o.seq = k}
    IN  IF mine = {} THEN v
        ELSE Floored(v + IF \E o \in mine : AllIn(m, o) THEN DuelWin ELSE -ExpiredOrder)
Pays(g, m, D, t) ==
    g[0] = m.score[t] /\ \A k \in Nat : g[k + 1] = DuelStep(m, D, t, k, g[k])

LEMMA AfterDuelsType ==
    ASSUME NEW m \in CryptoBattleState, NEW D, NEW t \in Teams
    PROVE  /\ AfterDuels(m, D, t) \in Nat
           /\ \E f : Pays(f, m, D, t) /\ AfterDuels(m, D, t) = f[m.count[t]]
<1> DEFINE mine(k) == {o \in D : o.team = t /\ o.seq = k - 1}
           step(k, v) == IF mine(k) = {} THEN v
                         ELSE Floored(v + IF \E o \in mine(k) : AllIn(m, o) THEN DuelWin
                                          ELSE -ExpiredOrder)
           F == [k \in Nat |-> [v \in Nat |-> step(k, v)]]
           Is(g) == g = [k \in Nat |-> IF k = 0 THEN m.score[t] ELSE step(k, g[k - 1])]
           after == CHOOSE g : Is(g)
<1>1. m.score[t] \in Nat /\ m.count[t] \in Nat
  BY RowFields
<1>2. ASSUME NEW k \in Nat, NEW v \in Nat PROVE step(k, v) \in Nat
  BY AmountsAssumption, FlooredType
<1>3. F \in [Nat -> [Nat -> Nat]]
  BY <1>2
<1>4. \A k \in Nat, v \in Nat : F[k][v] = step(k, v)
  OBVIOUS
<1>5. AfterDuels(m, D, t) = after[m.count[t]]
  BY DEF AfterDuels
<1> HIDE DEF F, step
<1>6. PICK g \in [Nat -> Nat] : Repeats(g, m.score[t], F)
  BY <1>1, <1>3, Iterates
<1>7. \A k \in Nat : k # 0 => F[k][g[k - 1]] = step(k, g[k - 1])
  BY <1>4, <1>6
<1>8. g = [k \in Nat |-> IF k = 0 THEN m.score[t] ELSE step(k, g[k - 1])]
  BY <1>6, <1>7 DEF Repeats
<1>9. Is(after)
  BY <1>8
<1> HIDE DEF after
<1>10. \A k \in Nat : after[k] \in Nat
  <2> DEFINE T == {k \in Nat : after[k] \in Nat}
  <2>1. 0 \in T
    BY <1>1, <1>9
  <2>2. ASSUME NEW k \in T PROVE k + 1 \in T
    <3>1. k + 1 \in Nat /\ k + 1 # 0 /\ (k + 1) - 1 = k /\ after[k] \in Nat
      OBVIOUS
    <3>2. after[k + 1] = step(k + 1, after[k])
      BY <1>9, <3>1
    <3> QED BY <1>2, <3>1, <3>2
  <2>3. T \in SUBSET Nat
    OBVIOUS
  <2> HIDE DEF T
  <2>4. T = Nat
    BY <2>1, <2>2, <2>3, NatSteps
  <2> QED BY <2>4 DEF T
<1>11. Pays(after, m, D, t)
  <2>1. after[0] = m.score[t]
    BY <1>9
  <2>2. ASSUME NEW k \in Nat PROVE after[k + 1] = DuelStep(m, D, t, k, after[k])
    BY <1>9 DEF step, DuelStep
  <2> QED BY <2>1, <2>2 DEF Pays
<1>12. \E f : Pays(f, m, D, t) /\ AfterDuels(m, D, t) = f[m.count[t]]
  BY <1>5, <1>11
<1> QED BY <1>1, <1>5, <1>10, <1>12

\* What a step of the clock does to a row: it stays sound, opens nothing twice, leaves the
\* schedule alone and every card that has not run out with its order.
Carries(m, r, x) ==
    /\ Sound(r) /\ Evolves(m, r) /\ Untouched(m, r)
    /\ HeldUntil(r, x)

\* The open orders of D lapse at x, and f says what every order becomes.
Lapses(m, x, D, score, f) ==
    /\ D \in SUBSET OpenOrders(m)
    /\ \A o \in OpenOrders(m) : o \in D => o.expires <= x
    /\ \A o, p \in OpenOrders(m) : o.task = "duel" /\ Twins(o, p) /\ p \in D => o \in D
    /\ score \in [Teams -> Nat]
    /\ f \in [m.orders -> Contract]
    /\ \A o \in m.orders : Twin(o, f[o]) /\ (IF o \in D THEN ~IsOpen(f[o]) ELSE f[o] = o)

Revision(m, score, f) == [m EXCEPT !.score = score, !.orders = {f[o] : o \in m.orders}]

LEMMA Closes ==
    ASSUME NEW m, Sound(m), NEW x \in Nat, HeldUntil(m, x), NEW D, NEW score, NEW f,
           Lapses(m, x, D, score, f),
           NEW r, r = Revision(m, score, f)
    PROVE  /\ Carries(m, r, x) /\ r.next = m.next /\ r.count = m.count
           /\ OpenOrders(r) = OpenOrders(m) \ D
<1>0. /\ D \in SUBSET OpenOrders(m)
      /\ \A o \in OpenOrders(m) : o \in D => o.expires <= x
      /\ \A o, p \in OpenOrders(m) : o.task = "duel" /\ Twins(o, p) /\ p \in D => o \in D
      /\ score \in [Teams -> Nat] /\ f \in [m.orders -> Contract]
      /\ \A o \in m.orders : Twin(o, f[o]) /\ (IF o \in D THEN ~IsOpen(f[o]) ELSE f[o] = o)
  BY DEF Lapses
<1>1. m \in CryptoBattleState
  BY DEF Sound
<1>2. {f[o] : o \in m.orders} \in SUBSET Contract
  BY <1>0
<1>3. /\ r.orders = {f[o] : o \in m.orders} /\ r.count = m.count /\ r.start = m.start
      /\ r.timing = m.timing /\ r.next = m.next /\ r.cards = m.cards /\ Untouched(m, r)
  BY <1>1 DEF CryptoBattleState, Revision, Untouched
<1>4. r \in CryptoBattleState
  BY <1>0, <1>1, <1>2 DEF CryptoBattleState, Revision
<1>5. \A o \in m.orders : IsOpen(f[o]) => IsOpen(o) /\ o \notin D
  BY <1>0
<1>6. Revises(m, r, f)
  <2>1. ASSUME NEW o \in OpenOrders(m), NEW p \in OpenOrders(m), o.task = "duel", IsOpen(f[o]),
               Twins(o, p)
        PROVE  IsOpen(f[p])
    BY <1>5, <2>1, <1>0 DEF OpenOrders
  <2> QED BY <1>0, <1>3, <1>5, <2>1 DEF Revises
<1>7. Sound(r) /\ Evolves(m, r)
  BY <1>3, <1>4, <1>6, Revised
<1>8. HeldUntil(r, x)
  BY <1>0, <1>1, <1>3, <1>6, RevisedHeld DEF OpenOrders
<1>9. OpenOrders(r) = OpenOrders(m) \ D
  BY <1>0, <1>3, <1>5 DEF OpenOrders
<1> QED BY <1>3, <1>7, <1>8, <1>9 DEF Carries

LEMMA RpsCarries ==
    ASSUME NEW m, Sound(m), NEW x \in Nat, HeldUntil(m, x)
    PROVE  /\ Carries(m, ExpireRps(m, x), x) /\ ExpireRps(m, x).next = m.next
           /\ ExpireRps(m, x).count = m.count
           /\ OpenOrders(ExpireRps(m, x)) \subseteq OpenOrders(m)
<1> DEFINE D == LapsedDuels(m, x)
           score == [t \in Teams |-> AfterDuels(m, D, t)]
           new(o) == IF o \notin D THEN o
                     ELSE IF AllIn(m, o) THEN [o EXCEPT !.status = "completed", !.how = "duel"]
                     ELSE [o EXCEPT !.status = "expired", !.how = "deadline"]
           f == [o \in m.orders |-> new(o)]
<1>1. m \in CryptoBattleState
  BY DEF Sound
<1>2. score \in [Teams -> Nat]
  BY <1>1, AfterDuelsType
<1>3. D \in SUBSET OpenOrders(m) /\ \A o \in OpenOrders(m) : o \in D => o.expires <= x
  BY DEF LapsedDuels
<1>4. ASSUME NEW o \in OpenOrders(m), NEW p \in OpenOrders(m), o.task = "duel", Twins(o, p), p \in D
      PROVE  o \in D
  BY <1>4 DEF LapsedDuels, Twins
<1>5. ASSUME NEW o \in m.orders
      PROVE  /\ new(o) \in Contract /\ Twin(o, new(o))
             /\ IF o \in D THEN ~IsOpen(new(o)) ELSE new(o) = o
  <2>1. o \in Contract
    BY <1>1, OrderFields
  <2>2. CASE o \notin D
    BY <2>1, <2>2 DEF Twin
  <2>3. CASE o \in D /\ AllIn(m, o)
    <3>1. new(o) = [o EXCEPT !.status = "completed", !.how = "duel"]
      BY <2>3
    <3> HIDE DEF D, new
    <3> QED BY <2>1, <2>3, <3>1 DEF Contract, Twin, IsOpen, Answers
  <2>4. CASE o \in D /\ ~AllIn(m, o)
    <3>1. new(o) = [o EXCEPT !.status = "expired", !.how = "deadline"]
      BY <2>4
    <3> HIDE DEF D, new
    <3> QED BY <2>1, <2>4, <3>1 DEF Contract, Twin, IsOpen
  <2> QED BY <2>2, <2>3, <2>4
<1>6. ExpireRps(m, x) = [m EXCEPT !.score = score, !.orders = {new(o) : o \in m.orders}]
  BY DEF ExpireRps
<1> HIDE DEF D, score, new
<1>7. {new(o) : o \in m.orders} = {f[o] : o \in m.orders} /\ f \in [m.orders -> Contract]
  BY <1>5
<1>8. \A o \in m.orders : Twin(o, f[o]) /\ (IF o \in D THEN ~IsOpen(f[o]) ELSE f[o] = o)
  BY <1>5
<1>9. ExpireRps(m, x) = Revision(m, score, f)
  BY <1>6, <1>7 DEF Revision
<1> HIDE DEF f
<1>10. Lapses(m, x, D, score, f)
  BY <1>2, <1>3, <1>4, <1>7, <1>8 DEF Lapses
<1>11. /\ Carries(m, ExpireRps(m, x), x) /\ ExpireRps(m, x).next = m.next
       /\ ExpireRps(m, x).count = m.count
       /\ OpenOrders(ExpireRps(m, x)) = OpenOrders(m) \ D
  BY <1>9, <1>10, Closes
<1> QED BY <1>11

LEMMA OrdersCarry ==
    ASSUME NEW m, Sound(m), NEW x \in Nat, HeldUntil(m, x)
    PROVE  /\ Carries(m, ExpireOrders(m, x), x) /\ ExpireOrders(m, x).next = m.next
           /\ ExpireOrders(m, x).count = m.count
           /\ \A o \in OpenOrders(ExpireOrders(m, x)) : x < o.expires
<1> DEFINE D == {o \in OpenOrders(m) : o.expires <= x}
           score == Charged(m, D)
           new(o) == IF o \in D THEN [o EXCEPT !.status = "expired", !.how = "deadline"] ELSE o
           f == [o \in m.orders |-> new(o)]
<1>1. m \in CryptoBattleState
  BY DEF Sound
<1>2. score \in [Teams -> Nat]
  <2>1. ASSUME NEW t \in Teams
        PROVE  Floored(m.score[t] - ExpiredOrder * Cardinality({o \in D : o.team = t})) \in Nat
    <3>1. IsFiniteSet({o \in D : o.team = t})
      BY FS_Subset DEF OpenOrders, Sound
    <3> DEFINE n == Cardinality({o \in D : o.team = t})
    <3>2. n \in Nat
      BY <3>1, FS_CardinalityType
    <3> HIDE DEF n
    <3>3. ExpiredOrder * n \in Int /\ m.score[t] \in Nat
      BY <1>1, <3>2, AmountsAssumption, RowFields
    <3>4. m.score[t] - ExpiredOrder * n \in Int
      BY <3>3
    <3> QED BY <3>4, FlooredType DEF n
  <2> QED BY <2>1 DEF Charged
<1>3. D \in SUBSET OpenOrders(m) /\ \A o \in OpenOrders(m) : o \in D <=> o.expires <= x
  OBVIOUS
<1>4. ASSUME NEW o \in OpenOrders(m), NEW p \in OpenOrders(m), o.task = "duel", Twins(o, p), p \in D
      PROVE  o \in D
  BY <1>4 DEF Twins
<1>5. ASSUME NEW o \in m.orders
      PROVE  /\ new(o) \in Contract /\ Twin(o, new(o))
             /\ IF o \in D THEN ~IsOpen(new(o)) ELSE new(o) = o
  <2>1. o \in Contract
    BY <1>1, OrderFields
  <2>2. CASE o \notin D
    BY <2>1, <2>2 DEF Twin
  <2>3. CASE o \in D
    <3>1. new(o) = [o EXCEPT !.status = "expired", !.how = "deadline"]
      BY <2>3
    <3> HIDE DEF D, new
    <3> QED BY <2>1, <2>3, <3>1 DEF Contract, Twin, IsOpen
  <2> QED BY <2>2, <2>3
<1>6. ExpireOrders(m, x) = [m EXCEPT !.score = score, !.orders = {new(o) : o \in m.orders}]
  BY DEF ExpireOrders
<1> HIDE DEF D, score, new
<1>7. {new(o) : o \in m.orders} = {f[o] : o \in m.orders} /\ f \in [m.orders -> Contract]
  BY <1>5
<1>8. \A o \in m.orders : Twin(o, f[o]) /\ (IF o \in D THEN ~IsOpen(f[o]) ELSE f[o] = o)
  BY <1>5
<1>9. ExpireOrders(m, x) = Revision(m, score, f)
  BY <1>6, <1>7 DEF Revision
<1> HIDE DEF f
<1>10. /\ Carries(m, ExpireOrders(m, x), x) /\ ExpireOrders(m, x).next = m.next
       /\ ExpireOrders(m, x).count = m.count
       /\ OpenOrders(ExpireOrders(m, x)) = OpenOrders(m) \ D
  <2>1. Lapses(m, x, D, score, f)
    BY <1>2, <1>3, <1>4, <1>7, <1>8 DEF Lapses
  <2> QED BY <1>9, <2>1, Closes
<1>11. ASSUME NEW o \in OpenOrders(ExpireOrders(m, x)) PROVE x < o.expires
  BY <1>3, <1>10, <1>1, OrderFields DEF OpenOrders
<1> QED BY <1>10, <1>11

LEMMA CarriesOn ==
    ASSUME NEW m \in CryptoBattleState, NEW r, NEW s, NEW x, Carries(m, r, x), Carries(r, s, x)
    PROVE  Carries(m, s, x)
BY EvolvesOn DEF Carries, Sound, Untouched

-----------------------------------------------------------------------------
(* Orders that arrive.                                                      *)

LEMMA LeastType ==
    \A a, b \in Int : Least(a, b) \in {a, b} /\ Least(a, b) <= a /\ Least(a, b) <= b
BY DEF Least

LEMMA NewOrderType ==
    ASSUME NEW m \in CryptoBattleState, Started(m), NEW t \in Teams, NEW a \in Nat,
           NEW opp \in Teams \cup {None}
    PROVE  LET o == NewOrder(m, t, a, opp)
           IN  /\ o \in Contract /\ o.team = t /\ o.seq = m.count[t] /\ o.opp = opp
               /\ IsOpen(o) /\ o.issued = a /\ (opp # None => ~o.rush)
               /\ (o.task = "duel" <=> opp # None)
               /\ o.expires = Least(a + TtlOf(o), End(m))
<1>1. /\ m.seed \in DOMAIN Seeds /\ m.count[t] \in Nat /\ m.duels[t] \in Nat
      /\ m.gen[t] \in Nat \ {0} /\ End(m) \in Nat
  BY RowFields
<1> DEFINE o == NewOrder(m, t, a, opp)
           tasks == Seeds[m.seed].task
           index == m.count[t] - m.duels[t]
           rush == opp = None /\ index # 0 /\ <<t, index>> \in Seeds[m.seed].rush
           task == IF opp # None THEN "duel"
                   ELSE IF index = 0 THEN "reveal" ELSE tasks[((index - 1) % Len(tasks)) + 1]
           ttl == IF rush THEN RushTtl ELSE Ttl
<1>2. task \in Tasks /\ (task = "duel" <=> opp # None)
  <2>1. CASE opp # None
    BY <2>1 DEF Tasks
  <2>2. CASE opp = None /\ index = 0
    BY <2>2 DEF Tasks
  <2>3. CASE opp = None /\ index # 0
    <3>1. tasks \in Seq(Tasks \ {"duel"}) /\ Len(tasks) \in Nat \ {0}
      BY <1>1, SeedsAssumption
    <3> DEFINE L == Len(tasks)
               d == (index - 1) % L
    <3>2. index - 1 \in Int
      BY <1>1
    <3>3. d \in 0..(L - 1)
      <4> HIDE DEF index, tasks
      <4> QED BY <3>1, <3>2
    <3>4. d + 1 \in 1..L
      <4> HIDE DEF d, tasks
      <4> QED BY <3>1, <3>3
    <3>5. task = tasks[d + 1]
      BY <2>3
    <3>6. \A i \in 1..L : tasks[i] \in Tasks \ {"duel"}
      <4> HIDE DEF tasks
      <4> QED BY <3>1, ElementOfSeq
    <3> HIDE DEF d, tasks, L, task
    <3> QED BY <2>3, <3>4, <3>5, <3>6
  <2> QED BY <2>1, <2>2, <2>3
<1>3. rush \in BOOLEAN /\ (opp # None => ~rush)
  OBVIOUS
<1>4. ttl \in Nat /\ Least(a + ttl, End(m)) \in Nat
  BY <1>1, PaceAssumption, LeastType
<1>5. o = [team |-> t, seq |-> m.count[t], rush |-> rush, opp |-> opp, task |-> task,
           issued |-> a, expires |-> Least(a + ttl, End(m)), status |-> "open", how |-> "none",
           step |-> "fresh", tried |-> FALSE, failed |-> FALSE, hints |-> 0, gen |-> m.gen[t]]
  BY DEF NewOrder, NextSeq
<1>6. 0 \in 0..Len(HintCosts)
  BY HintsAssumption
<1> HIDE DEF task, rush
<1>7. o \in Contract
  BY <1>1, <1>2, <1>3, <1>4, <1>5, <1>6 DEF Contract, Optional
<1>8. TtlOf(o) = ttl
  BY <1>5 DEF TtlOf
<1> QED BY <1>2, <1>3, <1>5, <1>7, <1>8 DEF IsOpen

LEMMA TeamsFinite == IsFiniteSet(Teams)
<1>1. Roster \in [1..Len(Roster) -> Teams] /\ Len(Roster) \in Nat
  BY RosterAssumption
<1>2. \A t \in Teams : \E i \in 1..Len(Roster) : Roster[i] = t
  BY <1>1 DEF Teams
<1>3. Roster \in Surjection(1..Len(Roster), Teams)
  BY <1>1, <1>2 DEF Surjection
<1> QED BY <1>1, <1>3, FS_Interval, FS_Surjection

\* One batch: everything the clock does to a row when orders arrive.
Arrives(m, r, a) ==
    /\ \A q \in OpenOrders(r) : q \in OpenOrders(m) \/ a <= q.issued
    /\ Sound(r) /\ Evolves(m, r) /\ Untouched(m, r) /\ m.orders \subseteq r.orders
    /\ r.cards = m.cards /\ r.now = m.now

LEMMA ArrivesOn ==
    ASSUME NEW m \in CryptoBattleState, NEW r, NEW s, NEW a, Arrives(m, r, a), Arrives(r, s, a)
    PROVE  Arrives(m, s, a)
BY EvolvesOn DEF Arrives, Sound, Untouched

LEMMA SlotArrives ==
    ASSUME NEW m, Sound(m), Started(m), NEW a \in Nat, NEW opening \in BOOLEAN
    PROVE  Arrives(m, IssueSlot(m, a, opening), a) /\ IssueSlot(m, a, opening).next = m.next
<1> DEFINE r == IssueSlot(m, a, opening)
           opp == [t \in Teams |-> DuelOpponent(m, t, opening)]
           given == {t \in Teams : Delivers(m, t, opp[t])}
           new == [t \in given |-> NewOrder(m, t, a, opp[t])]
           fresh == {new[t] : t \in given}
<1>1. m \in CryptoBattleState /\ m.count \in [Teams -> Nat] /\ m.duels \in [Teams -> Nat]
      /\ m.orders \in SUBSET Contract
  BY RowFields DEF Sound
<1>2. ASSUME NEW t \in Teams
      PROVE  /\ opp[t] \in Teams \cup {None}
             /\ opp[t] # None => opp[opp[t]] = t
  <2> DEFINE round == (m.count[t] \div DuelEvery) - 1
  <2>1. round \in Int
    BY <1>1, PaceAssumption
  <2>2. \A u \in Teams : opp[u] = IF ~opening /\ m.count[u] % DuelEvery = 0
                                  THEN OpponentIn((m.count[u] \div DuelEvery) - 1, u) ELSE None
    BY DEF DuelOpponent
  <2>3. \A u \in Teams : m.count[u] = m.count[t]
    BY DEF Sound, Numbered
  <2>4. \A u \in Teams : opp[u] = IF ~opening /\ m.count[t] % DuelEvery = 0
                                  THEN OpponentIn(round, u) ELSE None
    BY <2>2, <2>3
  <2> HIDE DEF round, opp
  <2> QED BY <2>1, <2>4, OpponentMutual
<1>3. r = [m EXCEPT !.orders = m.orders \cup fresh,
                    !.count = [t \in Teams |-> m.count[t] + 1],
                    !.duels = [t \in Teams |-> m.duels[t] + IF opp[t] # None THEN 1 ELSE 0]]
  <2>1. {NewOrder(m, t, a, opp[t]) : t \in given} = fresh
    OBVIOUS
  <2>2. r = [m EXCEPT !.orders = m.orders \cup {NewOrder(m, t, a, opp[t]) : t \in given},
                      !.count = [t \in Teams |-> m.count[t] + 1],
                      !.duels = [t \in Teams |-> m.duels[t] + IF opp[t] # None THEN 1 ELSE 0]]
    BY <1>1 DEF IssueSlot, CryptoBattleState
  <2> HIDE DEF given, opp, fresh
  <2> QED BY <2>1, <2>2
<1>4. ASSUME NEW t \in given
      PROVE  /\ new[t] \in Contract /\ new[t].team = t /\ new[t].seq = m.count[t]
             /\ new[t].opp = opp[t] /\ IsOpen(new[t]) /\ new[t].issued = a
             /\ (opp[t] # None => ~new[t].rush) /\ (new[t].task = "duel" <=> opp[t] # None)
             /\ new[t].expires = Least(a + TtlOf(new[t]), End(m))
  <2>1. t \in Teams /\ opp[t] \in Teams \cup {None} /\ new[t] = NewOrder(m, t, a, opp[t])
    BY <1>2
  <2> HIDE DEF opp, new, given
  <2>2. m \in CryptoBattleState /\ Started(m) /\ a \in Nat
    BY <1>1
  <2> DEFINE o == NewOrder(m, t, a, opp[t])
  <2>3. /\ o \in Contract /\ o.team = t /\ o.seq = m.count[t] /\ o.opp = opp[t]
        /\ IsOpen(o) /\ o.issued = a /\ (opp[t] # None => ~o.rush)
        /\ (o.task = "duel" <=> opp[t] # None)
        /\ o.expires = Least(a + TtlOf(o), End(m))
    BY <2>1, <2>2, NewOrderType
  <2>4. new[t] = o
    BY <2>1
  <2> HIDE DEF o
  <2> QED BY <2>3, <2>4
<1>5. ASSUME NEW t \in given, opp[t] # None
      PROVE  opp[t] \in given /\ opp[opp[t]] = t
  BY <1>2, <1>5 DEF Delivers
<1>6. given \in SUBSET Teams
  OBVIOUS
<1> HIDE DEF opp, given, new
<1>7. fresh \in SUBSET Contract /\ IsFiniteSet(fresh)
  <2>1. new \in Surjection(given, fresh)
    BY DEF Surjection, new
  <2> QED BY <1>4, <1>6, <2>1, TeamsFinite, FS_Subset, FS_Surjection
<1>8. \A q \in fresh : \E t \in given : q = new[t]
  BY Zenon
<1> HIDE DEF fresh
<1>9. r \in CryptoBattleState
  <2>1. m.orders \cup fresh \in SUBSET Contract
    BY <1>1, <1>7
  <2>2. [t \in Teams |-> m.count[t] + 1] \in [Teams -> Nat]
    BY <1>1
  <2>3. [t \in Teams |-> m.duels[t] + IF opp[t] # None THEN 1 ELSE 0] \in [Teams -> Nat]
    BY <1>1
  <2>4. ASSUME NEW orders \in SUBSET Contract, NEW count \in [Teams -> Nat],
               NEW duels \in [Teams -> Nat]
        PROVE  [m EXCEPT !.orders = orders, !.count = count, !.duels = duels] \in CryptoBattleState
    BY <1>1 DEF CryptoBattleState
  <2> HIDE DEF r
  <2> QED BY <1>3, <2>1, <2>2, <2>3, <2>4
<1>10. /\ r.orders = m.orders \cup fresh /\ r.count = [t \in Teams |-> m.count[t] + 1]
       /\ r.start = m.start /\ r.timing = m.timing /\ Untouched(m, r)
       /\ r.cards = m.cards /\ r.next = m.next /\ r.now = m.now
  BY <1>1, <1>3 DEF CryptoBattleState, Untouched
<1> HIDE DEF r
<1>11. \A o \in m.orders : o.team \in Teams /\ o.seq \in Nat /\ o.seq < m.count[o.team]
  BY <1>1, OrderFields DEF Sound, Numbered
<1>12. Numbered(r)
  <2>1. ASSUME NEW o \in r.orders, NEW p \in r.orders, o.team = p.team, o.seq = p.seq
        PROVE  o = p
    <3>1. CASE o \in m.orders /\ p \in m.orders
      BY <2>1, <3>1 DEF Sound, Numbered
    <3>2. CASE o \in fresh /\ p \in fresh
      BY <1>4, <1>8, <2>1, <3>2
    <3>3. CASE o \in m.orders /\ p \in fresh
      BY <1>1, <1>4, <1>6, <1>8, <1>11, <2>1, <3>3
    <3>4. CASE o \in fresh /\ p \in m.orders
      BY <1>1, <1>4, <1>6, <1>8, <1>11, <2>1, <3>4
    <3> QED BY <1>10, <3>1, <3>2, <3>3, <3>4
  <2>2. ASSUME NEW o \in r.orders PROVE o.seq < r.count[o.team]
    BY <1>1, <1>10, <1>11, <1>4, <1>6, <1>8
  <2>3. \A t, u \in Teams : r.count[t] = r.count[u]
    BY <1>10 DEF Sound, Numbered
  <2> QED BY <2>1, <2>2, <2>3 DEF Numbered
<1>13. \A q \in OpenOrders(r) : q \in OpenOrders(m) \/ \E t \in given : q = new[t]
  BY <1>8, <1>10 DEF OpenOrders
<1>14. OpenOrders(m) \subseteq OpenOrders(r) /\ \A t \in given : new[t] \in OpenOrders(r)
  BY <1>4, <1>10 DEF OpenOrders, fresh
<1>15. Deadlines(r)
  BY <1>4, <1>10, <1>13 DEF Sound, Deadlines, End
<1>16. Paired(r)
  <2> SUFFICES ASSUME NEW q \in OpenOrders(r), q.task = "duel"
               PROVE  ~q.rush /\ \E p \in OpenOrders(r) : Twins(q, p)
    BY DEF Paired
  <2>1. CASE q \in OpenOrders(m)
    BY <1>14, <2>1 DEF Sound, Paired
  <2>2. ASSUME NEW t \in given, q = new[t]
        PROVE  ~q.rush /\ \E p \in OpenOrders(r) : Twins(q, p)
    <3>1. opp[t] # None /\ ~q.rush /\ q.opp = opp[t]
      BY <1>4, <2>2
    <3> DEFINE u == opp[t]
    <3>2. u \in given /\ opp[u] = t /\ t # None
      BY <1>5, <1>6, <3>1, AmountsAssumption
    <3>3. /\ new[u].team = u /\ new[u].task = "duel" /\ ~new[u].rush /\ new[u].issued = a
          /\ new[u].opp = t /\ new[u].seq = m.count[u] /\ new[u].expires = Least(a + Ttl, End(m))
      BY <1>4, <3>2 DEF TtlOf
    <3>4. /\ q.team = t /\ q.issued = a /\ q.seq = m.count[t] /\ q.opp = u
          /\ q.expires = Least(a + Ttl, End(m))
      BY <1>4, <2>2, <3>1 DEF TtlOf
    <3>5. m.count[u] = m.count[t]
      BY <1>6, <3>2 DEF Sound, Numbered
    <3>6. Twins(q, new[u])
      BY <3>3, <3>4, <3>5 DEF Twins
    <3> QED BY <1>14, <3>1, <3>2, <3>6
  <2> QED BY <1>13, <2>1, <2>2
<1>17. Evolves(m, r)
  <2>1. \A t \in Teams : m.count[t] <= r.count[t]
    BY <1>1, <1>10
  <2>2. ASSUME NEW q \in OpenOrders(r), q.seq < m.count[q.team]
        PROVE  q \in OpenOrders(m)
    BY <1>1, <1>4, <1>6, <2>2, <1>13
  <2> QED BY <2>1, <2>2 DEF Evolves
<1>18. IsFiniteSet(r.orders)
  <2>1. IsFiniteSet(m.orders)
    BY DEF Sound
  <2>2. IsFiniteSet(m.orders \cup fresh)
    BY <1>7, <2>1, FS_Union
  <2> QED BY <1>10, <2>2
<1>21. Roomy(r)
  <2> SUFFICES ASSUME NEW t \in Teams PROVE OpenCount(r, t) <= MaxOpen
    BY DEF Roomy
  <2> DEFINE S == {o \in OpenOrders(m) : o.team = t}
             T == {o \in OpenOrders(r) : o.team = t}
  <2>1. S \in SUBSET m.orders /\ IsFiniteSet(m.orders)
    BY DEF OpenOrders, Sound
  <2>2. IsFiniteSet(S) /\ Cardinality(S) \in Nat
    BY <2>1, FS_Subset, FS_CardinalityType
  <2>3. Cardinality(S) = OpenCount(m, t) /\ Cardinality(T) = OpenCount(r, t)
    BY DEF OpenCount
  <2>4. Cardinality(S) <= MaxOpen /\ (t \in given => Cardinality(S) < MaxOpen)
    BY <2>3 DEF Sound, Roomy, given, Delivers, HasRoom
  <2>5. T = IF t \in given THEN S \cup {new[t]} ELSE S
    BY <1>4, <1>13, <1>14
  <2> HIDE DEF S, T
  <2>6. Cardinality(S \cup {new[t]}) <= Cardinality(S) + 1
    <3>1. CASE new[t] \in S
      <4>1. S \cup {new[t]} = S
        BY <3>1
      <4> QED BY <2>2, <4>1
    <3>2. CASE new[t] \notin S
      <4> DEFINE e == new[t]
      <4>1. IsFiniteSet(S) /\ e \notin S
        BY <2>2, <3>2
      <4> HIDE DEF e
      <4>2. Cardinality(S \cup {e}) = Cardinality(S) + 1
        BY <4>1, FS_AddElement
      <4> QED BY <2>2, <4>2 DEF e
    <3> QED BY <3>1, <3>2
  <2>7. Cardinality(S \cup {new[t]}) \in Nat
    BY <2>2, FS_AddElement, FS_CardinalityType
  <2>8. Cardinality(T) <= MaxOpen
    BY <2>2, <2>4, <2>5, <2>6, <2>7, PaceAssumption
  <2> QED BY <2>3, <2>8
<1>19. Sound(r)
  BY <1>9, <1>12, <1>15, <1>16, <1>18, <1>21 DEF Sound
<1>22. \A q \in OpenOrders(r) : q \in OpenOrders(m) \/ a <= q.issued
  BY <1>4, <1>13
<1>20. Arrives(m, r, a)
  BY <1>10, <1>17, <1>19, <1>22 DEF Arrives
<1> QED BY <1>10, <1>20 DEF r

LEMMA ArrivesSelf ==
    ASSUME NEW m, Sound(m), NEW a
    PROVE  Arrives(m, m, a)
BY EvolvesSame DEF Arrives, Sound, Untouched

\* One slot after another.
Slots(g, m, a, opening) ==
    g[0] = m /\ \A k \in Nat : g[k + 1] = IssueSlot(g[k], a, opening) /\ Arrives(m, g[k], a)

LEMMA SlotsArrive ==
    ASSUME NEW m, Sound(m), Started(m), NEW a \in Nat, NEW opening \in BOOLEAN, NEW slots \in Nat
    PROVE  /\ Arrives(m, IssueSlots(m, a, opening, slots), a)
           /\ IssueSlots(m, a, opening, slots).next = m.next
           /\ \E f : Slots(f, m, a, opening) /\ IssueSlots(m, a, opening, slots) = f[slots]
<1> DEFINE X == {r \in CryptoBattleState : Arrives(m, r, a) /\ r.next = m.next}
           F == [k \in Nat |-> [r \in X |-> IssueSlot(r, a, opening)]]
           Is(g) == g = [k \in Nat |-> IF k = 0 THEN m ELSE IssueSlot(g[k - 1], a, opening)]
           after == CHOOSE g : Is(g)
<1>1. m \in X
  BY ArrivesSelf DEF Sound
<1>2. ASSUME NEW r \in X PROVE IssueSlot(r, a, opening) \in X
  <2>1. Sound(r) /\ Started(r) /\ Arrives(m, r, a) /\ r.next = m.next
    BY DEF Arrives, Untouched, Started
  <2>2. Arrives(r, IssueSlot(r, a, opening), a) /\ IssueSlot(r, a, opening).next = r.next
    BY <2>1, SlotArrives
  <2>3. m \in CryptoBattleState /\ IssueSlot(r, a, opening) \in CryptoBattleState
    BY <2>2 DEF Arrives, Sound
  <2> QED BY <2>1, <2>2, <2>3, ArrivesOn
<1> HIDE DEF X
<1>3. \A k \in Nat, r \in X : F[k][r] = IssueSlot(r, a, opening)
  OBVIOUS
<1>4. F \in [Nat -> [X -> X]]
  BY <1>2
<1>5. IssueSlots(m, a, opening, slots) = after[slots]
  BY DEF IssueSlots
<1> HIDE DEF F
<1>6. PICK g \in [Nat -> X] : Repeats(g, m, F)
  BY <1>1, <1>4, Iterates
<1>7. \A k \in Nat : k # 0 => F[k][g[k - 1]] = IssueSlot(g[k - 1], a, opening)
  BY <1>3, <1>6
<1>8. Is(g)
  BY <1>6, <1>7 DEF Repeats
<1>9. Is(after)
  BY <1>8
<1> HIDE DEF after
<1>10. \A k \in Nat : after[k] \in X
  <2> DEFINE T == {k \in Nat : after[k] \in X}
  <2>1. 0 \in T
    BY <1>1, <1>9
  <2>2. ASSUME NEW k \in T PROVE k + 1 \in T
    BY <1>9, <1>2
  <2>3. T \in SUBSET Nat
    OBVIOUS
  <2> HIDE DEF T
  <2>4. T = Nat
    BY <2>1, <2>2, <2>3, NatSteps
  <2> QED BY <2>4 DEF T
<1>11. Slots(after, m, a, opening)
  <2>1. after[0] = m
    BY <1>9
  <2>2. ASSUME NEW k \in Nat
        PROVE  after[k + 1] = IssueSlot(after[k], a, opening) /\ Arrives(m, after[k], a)
    BY <1>9, <1>10 DEF X
  <2> QED BY <2>1, <2>2 DEF Slots
<1>12. \E f : Slots(f, m, a, opening) /\ IssueSlots(m, a, opening, slots) = f[slots]
  BY <1>5, <1>11
<1> QED BY <1>5, <1>10, <1>12 DEF X

\* The schedule moves on by a whole number of units, and by one at least.
LEMMA GapForward ==
    ASSUME NEW m \in CryptoBattleState, Started(m), NEW opening \in BOOLEAN
    PROVE  Gap(m, opening) \in Nat \ {0}
<1> DEFINE base == IF opening THEN FollowUp ELSE Interval
           jitter == Least(base - 1, Jitter)
           rolls == Seeds[m.seed].roll
           L == Len(rolls)
           d == (m.next - m.start) % L
           roll == rolls[d + 1]
           e == roll % (2 * jitter + 1)
<1>1. base \in Nat \ {0} /\ Jitter \in Nat
  BY PaceAssumption
<1>2. m.next \in Nat /\ m.start \in Nat /\ rolls \in Seq(Nat) /\ L \in Nat \ {0}
  BY RowFields, SeedsAssumption
<1>3. Gap(m, opening) = base + e - jitter
  BY DEF Gap
<1> HIDE DEF base, rolls
<1>4. jitter \in Nat /\ jitter <= base - 1
  BY <1>1 DEF Least
<1>5. d \in 0..(L - 1)
  BY <1>2
<1>6. roll \in Nat
  <2>1. d + 1 \in 1..Len(rolls)
    BY <1>2, <1>5
  <2> HIDE DEF d
  <2> QED BY <1>2, <2>1, ElementOfSeq
<1> HIDE DEF jitter, roll
<1>7. e \in 0..(2 * jitter)
  <2>1. 2 * jitter + 1 \in Nat \ {0}
    BY <1>4
  <2> DEFINE n == 2 * jitter + 1
  <2> HIDE DEF n
  <2>2. roll % n \in 0..(n - 1)
    BY <1>6, <2>1 DEF n
  <2> QED BY <1>4, <2>2 DEF n
<1> HIDE DEF e
<1> QED BY <1>1, <1>3, <1>4, <1>7

LEMMA NextArrives ==
    ASSUME NEW m, Sound(m), Started(m)
    PROVE  Arrives(m, IssueNext(m), m.next) /\ IssueNext(m).next \in Nat /\ IssueNext(m).next > m.next
<1> DEFINE opening == IsOpening(m)
           slots == IF opening THEN 1 ELSE PerIssue
           s == IssueSlots(m, m.next, opening, slots)
           r == IssueNext(m)
<1>1. m \in CryptoBattleState /\ m.next \in Nat /\ opening \in BOOLEAN /\ slots \in Nat
  BY RowFields, PaceAssumption DEF Sound, IsOpening
<1>2. Gap(m, opening) \in Nat \ {0}
  BY <1>1, GapForward
<1>3. Arrives(m, s, m.next) /\ s.next = m.next
  <2> HIDE DEF opening, slots
  <2> QED BY <1>1, SlotsArrive
<1>4. s \in CryptoBattleState
  BY <1>3 DEF Arrives, Sound
<1>5. r = [s EXCEPT !.next = s.next + Gap(m, opening)]
  <2>1. r = [s EXCEPT !.next = @ + Gap(m, opening)]
    BY DEF IssueNext
  <2> HIDE DEF r, s, opening
  <2> QED BY <1>4, <2>1 DEF CryptoBattleState
<1> HIDE DEF r, s, opening
<1>6. r \in CryptoBattleState
  <2> DEFINE n == s.next + Gap(m, opening)
  <2>1. n \in Nat
    BY <1>1, <1>2, <1>3
  <2>2. r = [s EXCEPT !.next = n]
    BY <1>5
  <2> HIDE DEF n
  <2> QED BY <1>4, <2>1, <2>2 DEF CryptoBattleState
<1>7. /\ r.next = m.next + Gap(m, opening) /\ r.orders = s.orders /\ r.count = s.count
      /\ r.start = s.start /\ r.timing = s.timing /\ Untouched(s, r) /\ r.cards = s.cards
      /\ r.now = s.now
  BY <1>3, <1>4, <1>5 DEF CryptoBattleState, Untouched
<1>8. Sound(r)
  BY <1>3, <1>6, <1>7 DEF Arrives, Sound, Numbered, Deadlines, Paired, Roomy, OpenCount,
     OpenOrders, End
<1>9. Evolves(m, r)
  BY <1>3, <1>7 DEF Arrives, Evolves, OpenOrders
<1>10. Arrives(m, r, m.next)
  BY <1>3, <1>7, <1>8, <1>9 DEF Arrives, Untouched, OpenOrders
<1> QED BY <1>1, <1>2, <1>7, <1>10 DEF r

\* One batch that is due after another.
Batches(g, m, x) ==
    /\ g[0] = m
    /\ \A k \in Nat : /\ g[k + 1] = IF IsDue(g[k], x) THEN IssueNext(g[k]) ELSE g[k]
                      /\ Arrives(m, g[k], m.next)

\* Every batch that is due arrives: the next is later, or beyond the end.
LEMMA DueArrives ==
    ASSUME NEW m, Sound(m), Started(m), NEW x \in Nat
    PROVE  /\ Arrives(m, IssueDue(m, x), m.next) /\ ~IsDue(IssueDue(m, x), x)
           /\ ~IsDue(m, x) => IssueDue(m, x) = m
           /\ IsDue(m, x) => \E f : Batches(f, m, x) /\ IssueDue(m, x) = f[x - m.next + 1]
<1> DEFINE X == {r \in CryptoBattleState : Arrives(m, r, m.next) /\ m.next <= r.next}
           step(r) == IF IsDue(r, x) THEN IssueNext(r) ELSE r
           F == [k \in Nat |-> [r \in X |-> step(r)]]
           Is(g) == g = [k \in Nat |-> IF k = 0 THEN m ELSE step(g[k - 1])]
           after == CHOOSE g : Is(g)
<1>0. m \in CryptoBattleState /\ m.next \in Nat
  BY RowFields DEF Sound
<1>1. m \in X
  BY <1>0, ArrivesSelf
<1>2. ASSUME NEW r \in X PROVE step(r) \in X
  <2>1. Sound(r) /\ Started(r) /\ Arrives(m, r, m.next) /\ m.next <= r.next /\ r.next \in Nat
    BY RowFields DEF Arrives, Untouched, Started
  <2> DEFINE s == IssueNext(r)
  <2>2. Arrives(r, s, r.next) /\ s.next \in Nat /\ s.next > r.next
    BY <2>1, NextArrives
  <2> HIDE DEF s
  <2>3. s \in CryptoBattleState
    BY <2>2 DEF Arrives, Sound
  <2>5. \A q \in OpenOrders(s) : q.issued \in Nat
    BY <2>3, OrderFields DEF OpenOrders
  <2>6. Arrives(r, s, m.next)
    BY <1>0, <2>1, <2>2, <2>5 DEF Arrives
  <2>4. Arrives(m, s, m.next) /\ m.next <= s.next
    BY <1>0, <2>1, <2>2, <2>6, ArrivesOn
  <2> HIDE DEF X
  <2>7. s \in X
    BY <2>3, <2>4 DEF X
  <2> QED BY <2>7 DEF s
<1>4. \A r \in X : Sound(r) /\ Started(r) /\ r.next \in Nat /\ End(r) = End(m) /\ End(m) \in Nat
  BY RowFields DEF Arrives, Untouched, Started, Sound, End
<1>11. ASSUME ~IsDue(m, x) PROVE IssueDue(m, x) = m
  BY <1>11 DEF IssueDue
<1>12. IsDue(m, x) => IssueDue(m, x) = after[x - m.next + 1]
  BY DEF IssueDue
<1> HIDE DEF X
<1>3. \A k \in Nat, r \in X : F[k][r] = step(r)
  OBVIOUS
<1>5. F \in [Nat -> [X -> X]]
  BY <1>2
<1> HIDE DEF F, step
<1>6. PICK g \in [Nat -> X] : Repeats(g, m, F)
  BY <1>1, <1>5, Iterates
<1>7. \A k \in Nat : k # 0 => F[k][g[k - 1]] = step(g[k - 1])
  BY <1>3, <1>6
<1>8. Is(g)
  BY <1>6, <1>7 DEF Repeats
<1>9. Is(after)
  BY <1>8
<1> HIDE DEF after
<1>10. \A k \in Nat : after[k] \in X /\ (after[k].next >= m.next + k \/ ~IsDue(after[k], x))
  <2> DEFINE Far(k) == after[k] \in X /\ (after[k].next >= m.next + k \/ ~IsDue(after[k], x))
             T == {k \in Nat : Far(k)}
  <2>1. 0 \in T
    BY <1>9, <1>0, <1>1
  <2>2. ASSUME NEW k \in T PROVE k + 1 \in T
    <3>1. k \in Nat /\ k + 1 \in Nat /\ k + 1 # 0 /\ (k + 1) - 1 = k /\ Far(k)
      OBVIOUS
    <3>2. after[k + 1] = step(after[k])
      BY <1>9, <3>1
    <3>3. after[k + 1] \in X
      BY <1>2, <3>1, <3>2
    <3>4. CASE IsDue(after[k], x)
      <4>1. after[k + 1] = IssueNext(after[k]) /\ after[k].next >= m.next + k
        BY <3>1, <3>2, <3>4 DEF step
      <4>2. after[k + 1].next > after[k].next
        BY <1>4, <3>1, <4>1, NextArrives
      <4>3. after[k + 1].next \in Nat /\ after[k].next \in Nat
        BY <1>4, <3>1, <3>3
      <4>4. after[k + 1].next >= m.next + (k + 1)
        BY <1>0, <3>1, <4>1, <4>2, <4>3
      <4> QED BY <3>1, <3>3, <4>4
    <3>5. CASE ~IsDue(after[k], x)
      BY <3>1, <3>2, <3>3, <3>5 DEF step
    <3> QED BY <3>4, <3>5
  <2>3. T \in SUBSET Nat
    OBVIOUS
  <2> HIDE DEF T
  <2>4. T = Nat
    BY <2>1, <2>2, <2>3, NatSteps
  <2> QED BY <2>4 DEF T
<1>13. ASSUME IsDue(m, x)
       PROVE  Arrives(m, IssueDue(m, x), m.next) /\ ~IsDue(IssueDue(m, x), x)
  <2> DEFINE n == x - m.next + 1
             r == after[n]
  <2>1. n \in Nat /\ m.next + n = x + 1
    BY <1>0, <1>13 DEF IsDue
  <2> HIDE DEF n
  <2>2. r \in X /\ (r.next >= x + 1 \/ ~IsDue(r, x))
    BY <1>10, <2>1
  <2>3. ~IsDue(r, x)
    BY <1>4, <2>2 DEF IsDue
  <2> QED BY <1>12, <1>13, <2>2, <2>3 DEF X, n
<1>14. ~IsDue(m, x) => Arrives(m, IssueDue(m, x), m.next) /\ ~IsDue(IssueDue(m, x), x)
  BY <1>1, <1>11 DEF X
<1>15. Batches(after, m, x)
  <2>1. after[0] = m
    BY <1>9
  <2>2. ASSUME NEW k \in Nat
        PROVE  /\ after[k + 1] = IF IsDue(after[k], x) THEN IssueNext(after[k]) ELSE after[k]
               /\ Arrives(m, after[k], m.next)
    BY <1>9, <1>10 DEF X, step
  <2> QED BY <2>1, <2>2 DEF Batches
<1>16. IsDue(m, x) => \E f : Batches(f, m, x) /\ IssueDue(m, x) = f[x - m.next + 1]
  BY <1>12, <1>15
<1> QED BY <1>11, <1>13, <1>14, <1>16

\* Only what was closed leaves the row.
LEMMA PruneCarries ==
    ASSUME NEW m, Sound(m), NEW x \in Nat, HeldUntil(m, x)
    PROVE  /\ Carries(m, Prune(m, x), x) /\ Prune(m, x).next = m.next
           /\ OpenOrders(Prune(m, x)) = OpenOrders(m)
<1> DEFINE r == Prune(m, x)
           kept == {o \in m.orders : IsOpen(o) \/ o.issued >= x - Interval * Retained}
<1>1. m \in CryptoBattleState
  BY DEF Sound
<1>2. r = [m EXCEPT !.orders = kept]
  BY <1>1 DEF Prune, CryptoBattleState
<1>3. kept \subseteq m.orders /\ \A o \in m.orders : IsOpen(o) => o \in kept
  OBVIOUS
<1> HIDE DEF kept, r
<1>4. r \in CryptoBattleState
  BY <1>1, <1>2, <1>3 DEF CryptoBattleState
<1>5. /\ r.orders = kept /\ r.count = m.count /\ r.start = m.start /\ r.timing = m.timing
      /\ Untouched(m, r) /\ r.cards = m.cards /\ r.next = m.next
  BY <1>1, <1>2 DEF CryptoBattleState, Untouched
<1>6. OpenOrders(r) = OpenOrders(m)
  BY <1>3, <1>5 DEF OpenOrders
<1>7. IsFiniteSet(r.orders)
  BY <1>3, <1>5, FS_Subset DEF Sound
<1>8. Numbered(r) /\ Deadlines(r) /\ Paired(r) /\ Roomy(r)
  BY <1>3, <1>5, <1>6 DEF Sound, Numbered, Deadlines, Paired, Roomy, OpenCount, End
<1>9. Evolves(m, r)
  BY <1>1, RowFields, <1>5, <1>6 DEF Evolves
<1> QED BY <1>4, <1>5, <1>6, <1>7, <1>8, <1>9 DEF Carries, Sound, HeldUntil, Named, r

-----------------------------------------------------------------------------
(* One tick.                                                                *)

LEMMA TickCarries ==
    ASSUME NEW m, Sound(m), Started(m), Held(m), NEW x \in Nat
    PROVE  LET r == TickAtTime(m, x)
           IN  /\ Carries(m, r, x) /\ r.now = x /\ r.phase = PhaseAt(m, x - m.start)
               /\ ~IsDue(r, x)
               /\ ~IsDue(m, x) \/ x <= m.next => \A o \in OpenOrders(r) : x < o.expires
<1> DEFINE a == ExpireRps(m, x)
           b == ExpireOrders(a, x)
           c == IssueDue(b, x)
           d == Prune(c, x)
           r == TickAtTime(m, x)
<1>0. m \in CryptoBattleState /\ HeldUntil(m, x)
  BY DEF Sound, Held, HeldUntil
<1>1. Carries(m, a, x) /\ a.next = m.next
  BY <1>0, RpsCarries
<1>2. /\ Carries(a, b, x) /\ b.next = a.next /\ \A o \in OpenOrders(b) : x < o.expires
  BY <1>1, OrdersCarry DEF Carries
<1>3. Carries(m, b, x) /\ b.next = m.next /\ b \in CryptoBattleState
  BY <1>0, <1>1, <1>2, CarriesOn DEF Carries, Sound
<1>4. Started(b) /\ Sound(b) /\ End(b) = End(m) /\ HeldUntil(b, x)
  BY <1>3 DEF Carries, Untouched, Started, End
<1>5. IsDue(b, x) <=> IsDue(m, x)
  BY <1>3, <1>4 DEF IsDue
<1>6. /\ Arrives(b, c, b.next) /\ ~IsDue(c, x) /\ (~IsDue(m, x) => c = b)
  BY <1>4, <1>5, DueArrives
<1>7. HeldUntil(c, x)
  BY <1>6, <1>4 DEF Arrives, OpenOrders, HeldUntil, Named
<1>8. Carries(m, c, x)
  BY <1>6, <1>7, <1>0, <1>3, CarriesOn DEF Arrives, Carries
<1>9. /\ Carries(c, d, x) /\ d.next = c.next /\ OpenOrders(d) = OpenOrders(c)
  BY <1>7, <1>8, PruneCarries DEF Carries
<1>10. Carries(m, d, x)
  BY <1>0, <1>8, <1>9, CarriesOn
<1>11. ~IsDue(d, x)
  BY <1>6, <1>9 DEF IsDue, End, Carries, Untouched
<1>12. r = [d EXCEPT !.phase = PhaseAt(m, x - m.start), !.now = x]
  BY DEF TickAtTime
<1>13. ~IsDue(m, x) \/ x <= m.next => \A o \in OpenOrders(d) : x < o.expires
  <2>1. CASE ~IsDue(m, x)
    BY <1>2, <1>6, <1>9, <2>1
  <2>2. ASSUME IsDue(m, x), x <= m.next, NEW o \in OpenOrders(d) PROVE x < o.expires
    <3>1. m.next \in Nat /\ End(m) \in Nat /\ m.next = x /\ x < End(m)
      BY <1>0, <2>2, RowFields DEF IsDue
    <3>2. o \in OpenOrders(c) /\ c \in CryptoBattleState /\ End(c) = End(m)
      BY <1>8, <1>9 DEF Carries, Sound, Untouched, End
    <3>3. CASE o \in OpenOrders(b)
      BY <1>2, <3>3
    <3>4. CASE o \notin OpenOrders(b)
      <4>1. x <= o.issued
        BY <1>3, <1>6, <3>1, <3>2, <3>4 DEF Arrives
      <4>2. o.expires = Least(o.issued + TtlOf(o), End(m))
        BY <1>8, <3>2 DEF Carries, Sound, Deadlines
      <4>3. o.issued \in Nat /\ TtlOf(o) \in Nat \ {0}
        BY <3>2, OrderFields DEF OpenOrders
      <4> QED BY <3>1, <4>1, <4>2, <4>3 DEF Least
    <3> QED BY <3>3, <3>4
  <2> QED BY <2>1, <2>2
<1> HIDE DEF a, b, c, d, r
<1>14. d \in CryptoBattleState
  BY <1>10 DEF Carries, Sound
<1>15. PhaseAt(m, x - m.start) \in Phases
  BY DEF PhaseAt, Phases
<1>16. /\ r.now = x /\ r.phase = PhaseAt(m, x - m.start)
       /\ r.orders = d.orders /\ r.count = d.count /\ r.start = d.start /\ r.timing = d.timing
       /\ Untouched(d, r) /\ r.cards = d.cards /\ r.next = d.next
  BY <1>12, <1>14 DEF CryptoBattleState, Untouched
<1>17. r \in CryptoBattleState
  BY <1>12, <1>14, <1>15 DEF CryptoBattleState, Optional
<1>18. Sound(r) /\ OpenOrders(r) = OpenOrders(d)
  BY <1>10, <1>16, <1>17 DEF Carries, Sound, Numbered, Deadlines, Paired, Roomy, OpenCount,
     OpenOrders, End
<1>19. Carries(m, r, x)
  BY <1>10, <1>16, <1>18 DEF Carries, Untouched, HeldUntil, Named, Evolves
<1>20. ~IsDue(r, x)
  BY <1>11, <1>16 DEF IsDue, End
<1> QED BY <1>13, <1>16, <1>18, <1>19, <1>20 DEF r

\* A card that is not spent stands for an order that can be answered, and at the end none
\* is left.
LEMMA SettleHolds ==
    ASSUME NEW m \in CryptoBattleState, m.now \in Nat, Tied(m)
    PROVE  LET r == SettleLightning(m)
           IN  /\ r \in CryptoBattleState /\ Held(r) /\ Still(r)
               /\ r = [m EXCEPT !.cards = r.cards]
               /\ m.phase = "ended" => \A t \in Teams : r.cards[t].st \notin {"available", "armed"}
<1> DEFINE cards == [t \in Teams |-> SettledCard(m, t)]
           r == SettleLightning(m)
           card(t) == m.cards[t]
           forfeit(t) == \E o \in OrderOf(m, t, card(t).seq) : o.failed \/ ProofMissed(o)
           kept(t) == IF forfeit(t) THEN [card(t) EXCEPT !.points = 0] ELSE card(t)
<1>1. ASSUME NEW t \in Teams
      PROVE  SettledCard(m, t) = IF Stranded(m, card(t)) THEN [card(t) EXCEPT !.st = "unused"]
                                 ELSE IF card(t).st # "armed" THEN card(t)
                                 ELSE IF Verdict(m, t) = "none" THEN kept(t)
                                 ELSE [kept(t) EXCEPT !.st = "spent", !.result = Verdict(m, t)]
  BY DEF SettledCard
<1>2. ASSUME NEW t \in Teams
      PROVE  /\ card(t) \in LightningCard /\ kept(t) \in LightningCard
             /\ kept(t).st = card(t).st /\ kept(t).seq = card(t).seq
             /\ kept(t).expires = card(t).expires /\ kept(t).points \in {0, card(t).points}
  <2>1. card(t) \in LightningCard
    BY RowFields
  <2> HIDE DEF card, forfeit
  <2> QED BY <2>1 DEF LightningCard
<1> HIDE DEF kept
<1>3. ASSUME NEW t \in Teams
      PROVE  Verdict(m, t) \in {"none", "miss", "hit", "leak", "deadline", "rotate", "ended"}
  BY DEF Verdict
<1>4. cards \in [Teams -> LightningCard]
  <2> SUFFICES ASSUME NEW t \in Teams PROVE SettledCard(m, t) \in LightningCard
    OBVIOUS
  <2>1. CASE Stranded(m, card(t))
    <3>1. SettledCard(m, t) = [card(t) EXCEPT !.st = "unused"]
      BY <1>1, <2>1
    <3> HIDE DEF card
    <3> QED BY <1>2, <3>1 DEF LightningCard
  <2>2. CASE ~Stranded(m, card(t)) /\ card(t).st = "armed" /\ Verdict(m, t) # "none"
    <3>1. SettledCard(m, t) = [kept(t) EXCEPT !.st = "spent", !.result = Verdict(m, t)]
      BY <1>1, <2>2
    <3> HIDE DEF card
    <3> QED BY <1>2, <1>3, <3>1 DEF LightningCard
  <2>3. CASE ~Stranded(m, card(t)) /\ ~(card(t).st = "armed" /\ Verdict(m, t) # "none")
    BY <1>1, <2>3, <1>2
  <2> QED BY <2>1, <2>2, <2>3
<1>5. r = [m EXCEPT !.cards = cards]
  BY DEF SettleLightning
<1> HIDE DEF r
<1>6. r.cards = cards /\ r.orders = m.orders /\ r = [m EXCEPT !.cards = r.cards]
  <2> HIDE DEF cards
  <2> QED BY <1>5 DEF CryptoBattleState
<1>7. r \in CryptoBattleState
  <2> HIDE DEF cards
  <2> QED BY <1>4, <1>5 DEF CryptoBattleState
<1>8. ASSUME NEW t \in Teams, r.cards[t].st = "armed"
      PROVE  /\ card(t).st = "armed" /\ Verdict(m, t) = "none" /\ r.cards[t] = kept(t)
  <2>1. r.cards[t] = SettledCard(m, t)
    BY <1>6
  <2>2. CASE Stranded(m, card(t))
    <3>1. r.cards[t] = [card(t) EXCEPT !.st = "unused"]
      BY <1>1, <2>1, <2>2
    <3> HIDE DEF card
    <3> QED BY <1>2, <1>8, <3>1 DEF LightningCard
  <2>3. CASE ~Stranded(m, card(t)) /\ card(t).st = "armed" /\ Verdict(m, t) # "none"
    <3>1. r.cards[t] = [kept(t) EXCEPT !.st = "spent", !.result = Verdict(m, t)]
      BY <1>1, <2>1, <2>3
    <3> HIDE DEF card
    <3> QED BY <1>2, <1>8, <3>1 DEF LightningCard
  <2> QED BY <1>1, <1>8, <2>1, <2>2, <2>3
<1>9. ASSUME NEW t \in Teams, Verdict(m, t) = "none"
      PROVE  /\ \A o \in OrderOf(m, t, card(t).seq) : o.status \notin {"completed", "expired"}
             /\ ~(m.now >= card(t).expires) /\ m.phase # "ended"
  BY <1>9 DEF Verdict
<1>14. Named(r)
  <2> SUFFICES ASSUME NEW t \in Teams, r.cards[t].st \in {"armed", "spent"}
               PROVE  r.cards[t].seq # None
    BY DEF Named
  <2>1. r.cards[t] = SettledCard(m, t)
    BY <1>6
  <2>2. CASE Stranded(m, card(t))
    <3>1. r.cards[t] = [card(t) EXCEPT !.st = "unused"]
      BY <1>1, <2>1, <2>2
    <3> HIDE DEF card
    <3> QED BY <1>2, <3>1 DEF LightningCard
  <2>3. CASE ~Stranded(m, card(t)) /\ card(t).st # "armed"
    BY <1>1, <2>1, <2>3 DEF Tied, Named
  <2>4. CASE ~Stranded(m, card(t)) /\ card(t).st = "armed"
    <3>1. card(t).seq # None /\ kept(t).seq = card(t).seq /\ kept(t) \in LightningCard
      BY <1>2, <2>4 DEF Tied, Named
    <3>2. r.cards[t] = kept(t) \/ r.cards[t] = [kept(t) EXCEPT !.st = "spent", !.result = Verdict(m, t)]
      BY <1>1, <2>1, <2>4
    <3> HIDE DEF card
    <3> QED BY <3>1, <3>2 DEF LightningCard
  <2> QED BY <2>2, <2>3, <2>4
\* What is settled stays so: settling again finds the same verdicts.
<1>15. ASSUME NEW t \in Teams PROVE SettledCard(r, t) = r.cards[t]
  <2> DEFINE c == r.cards[t]
             again == \E o \in OrderOf(r, t, c.seq) : o.failed \/ ProofMissed(o)
             keep == IF again THEN [c EXCEPT !.points = 0] ELSE c
  <2>1. c = SettledCard(m, t) /\ r.phase = m.phase /\ r.now = m.now /\ r.orders = m.orders
    <3>1. r.phase = m.phase /\ r.now = m.now
      <4> HIDE DEF cards
      <4> QED BY <1>5 DEF CryptoBattleState
    <3> QED BY <1>6, <3>1
  <2>2. SettledCard(r, t) = IF Stranded(r, c) THEN [c EXCEPT !.st = "unused"]
                            ELSE IF c.st # "armed" THEN c
                            ELSE IF Verdict(r, t) = "none" THEN keep
                            ELSE [keep EXCEPT !.st = "spent", !.result = Verdict(r, t)]
    BY DEF SettledCard
  <2>3. CASE Stranded(m, card(t))
    <3>1. c = [card(t) EXCEPT !.st = "unused"]
      BY <1>1, <2>1, <2>3
    <3>2. c.st = "unused"
      <4> HIDE DEF card, c
      <4> QED BY <1>2, <3>1 DEF LightningCard
    <3> QED BY <2>2, <3>2 DEF Stranded
  <2>4. CASE ~Stranded(m, card(t)) /\ card(t).st # "armed"
    BY <1>1, <2>1, <2>4, <2>2 DEF Stranded
  <2>5. CASE ~Stranded(m, card(t)) /\ card(t).st = "armed" /\ Verdict(m, t) # "none"
    <3>1. c = [kept(t) EXCEPT !.st = "spent", !.result = Verdict(m, t)]
      BY <1>1, <2>1, <2>5
    <3>2. c.st = "spent"
      <4> HIDE DEF card, c
      <4> QED BY <1>2, <3>1 DEF LightningCard
    <3> QED BY <2>2, <3>2 DEF Stranded
  <2>6. CASE ~Stranded(m, card(t)) /\ card(t).st = "armed" /\ Verdict(m, t) = "none"
    <3>1. c = kept(t)
      BY <1>1, <2>1, <2>6
    <3>2. c.st = "armed" /\ c.seq = card(t).seq /\ c.expires = card(t).expires
      BY <1>2, <2>6, <3>1
    <3>3. OrderOf(r, t, c.seq) = OrderOf(m, t, card(t).seq)
      BY <2>1, <3>2 DEF OrderOf
    <3>4. Verdict(r, t) = Verdict(m, t)
      BY <2>1, <3>2, <3>3 DEF Verdict
    <3>5. again = forfeit(t)
      BY <3>3
    <3>6. keep = c
      <4>1. CASE forfeit(t)
        <5>1. c = [card(t) EXCEPT !.points = 0]
          BY <3>1, <4>1 DEF kept
        <5>2. [c EXCEPT !.points = 0] = c
          <6> HIDE DEF card, c
          <6> QED BY <1>2, <5>1 DEF LightningCard
        <5> QED BY <3>5, <4>1, <5>2
      <4>2. CASE ~forfeit(t)
        BY <3>5, <4>2
      <4> QED BY <4>1, <4>2
    <3>7. ~Stranded(r, c)
      BY <3>2 DEF Stranded
    <3> HIDE DEF keep
    <3> QED BY <2>2, <2>6, <3>2, <3>4, <3>6, <3>7
  <2> QED BY <2>3, <2>4, <2>5, <2>6
<1>10. Held(r)
  <2> SUFFICES ASSUME NEW t \in Teams, r.cards[t].st = "armed"
               PROVE  \E o \in OpenOrders(r) : Stake(r.cards[t], t, o)
    BY <1>14 DEF Held
  <2>1. card(t).st = "armed" /\ Verdict(m, t) = "none" /\ r.cards[t] = kept(t)
    BY <1>8
  <2>2. card(t).expires \in Nat
    <3>1. card(t) \in LightningCard
      BY <1>2
    <3> HIDE DEF card
    <3> QED BY <3>1 DEF LightningCard
  <2>3. PICK o \in m.orders : Stake(card(t), t, o)
    BY <1>9, <2>1, <2>2 DEF Tied
  <2>4. o \in Contract /\ o \in OrderOf(m, t, card(t).seq)
    BY <2>3, OrderFields DEF Stake, OrderOf
  <2>5. IsOpen(o)
    BY <1>9, <2>1, <2>4 DEF IsOpen, Contract
  <2>6. Stake(r.cards[t], t, o)
    <3> HIDE DEF card
    <3> QED BY <1>2, <2>1, <2>3 DEF Stake
  <2> QED BY <1>6, <2>5, <2>6 DEF OpenOrders
<1>11. ASSUME NEW t \in Teams, m.phase = "ended" PROVE r.cards[t].st \notin {"available", "armed"}
  <2>1. r.cards[t].st # "armed"
    BY <1>8, <1>9, <1>11
  <2>2. r.cards[t] = SettledCard(m, t)
    BY <1>6
  <2>3. CASE card(t).st = "available"
    <3>1. r.cards[t] = [card(t) EXCEPT !.st = "unused"]
      BY <1>1, <1>11, <2>2, <2>3 DEF Stranded
    <3> HIDE DEF card
    <3> QED BY <1>2, <3>1 DEF LightningCard
  <2>4. CASE card(t).st \notin {"available", "armed"}
    BY <1>1, <2>2, <2>4 DEF Stranded
  <2>5. CASE card(t).st = "armed"
    <3>1. Verdict(m, t) # "none" /\ ~Stranded(m, card(t))
      BY <1>9, <1>11, <2>5 DEF Stranded
    <3>2. r.cards[t] = [kept(t) EXCEPT !.st = "spent", !.result = Verdict(m, t)]
      BY <1>1, <2>2, <2>5, <3>1
    <3> HIDE DEF card
    <3> QED BY <1>2, <3>2 DEF LightningCard
  <2> QED BY <2>3, <2>4, <2>5
<1>16. Still(r)
  BY <1>15 DEF Still
<1> QED BY <1>6, <1>7, <1>10, <1>11, <1>16 DEF r

LEMMA AwardKeeps ==
    ASSUME NEW m \in CryptoBattleState, Tied(m)
    PROVE  LET r == Award(m)
           IN  /\ r \in CryptoBattleState /\ Tied(r) /\ r.awarded
               /\ r.orders = m.orders /\ r.count = m.count /\ r.start = m.start
               /\ r.timing = m.timing /\ r.next = m.next /\ r.now = m.now /\ r.phase = m.phase
<1> DEFINE r == Award(m)
           boosted == LowestTeams(m)
           cards == [t \in Teams |-> IF t \in BottomTeams(m)
                                     THEN [NoCard EXCEPT !.st = "available"] ELSE NoCard]
<1>1. CASE m.awarded
  BY <1>1 DEF Award
<1>2. CASE ~m.awarded
  <2>1. r = [m EXCEPT !.awarded = TRUE, !.boosted = boosted, !.cards = cards]
    BY <1>2 DEF Award
  <2>2. boosted \in SUBSET Teams
    BY DEF LowestTeams
  <2>3. /\ NoCard \in LightningCard /\ NoCard.st = "none"
        /\ [NoCard EXCEPT !.st = "available"] \in LightningCard
        /\ [NoCard EXCEPT !.st = "available"].st = "available"
    BY DEF NoCard, LightningCard, Optional
  <2>4. cards \in [Teams -> LightningCard] /\ \A t \in Teams : cards[t].st \notin {"armed", "spent"}
    BY <2>3
  <2> HIDE DEF cards, boosted, r
  <2>5. r \in CryptoBattleState
    BY <2>1, <2>2, <2>4 DEF CryptoBattleState
  <2>6. /\ r.awarded /\ r.orders = m.orders /\ r.count = m.count /\ r.start = m.start
        /\ r.timing = m.timing /\ r.next = m.next /\ r.now = m.now /\ r.phase = m.phase
        /\ r.cards = cards
    BY <2>1 DEF CryptoBattleState
  <2>7. Tied(r)
    BY <2>4, <2>6 DEF Tied, Named
  <2> QED BY <2>5, <2>6, <2>7 DEF r
<1> QED BY <1>1, <1>2

\* What a row is after a tick at x: it owes nothing that was due.
Ticked(m, r, x) ==
    /\ Sound(r) /\ Evolves(m, r) /\ Held(r) /\ r.start = m.start /\ r.timing = m.timing
    /\ r.now = x /\ r.phase = PhaseAt(m, x - m.start) /\ ~IsDue(r, x)
    /\ r.awarded <=> m.awarded \/ (x >= BoundaryAt(r) /\ BoundaryAt(r) < End(r))
    /\ Still(r)
    /\ r.phase = "ended" => \A t \in Teams : r.cards[t].st \notin {"available", "armed"}

LEMMA TickTicks ==
    ASSUME NEW m, Sound(m), Started(m), Held(m), NEW x \in Nat
    PROVE  /\ Ticked(m, TickEvent(m, x), x)
           /\ ~IsDue(m, x) \/ x <= m.next => \A o \in OpenOrders(TickEvent(m, x)) : x < o.expires
<1> DEFINE a == TickAtTime(m, x)
           turn == x >= BoundaryAt(m) /\ BoundaryAt(m) < End(m)
           b == IF turn THEN Award(a) ELSE a
           r == TickEvent(m, x)
<1>1. /\ Carries(m, a, x) /\ a.now = x /\ a.phase = PhaseAt(m, x - m.start) /\ ~IsDue(a, x)
      /\ ~IsDue(m, x) \/ x <= m.next => \A o \in OpenOrders(a) : x < o.expires
  BY TickCarries
<1>2. a \in CryptoBattleState /\ Tied(a) /\ Sound(a) /\ Evolves(m, a) /\ Untouched(m, a)
  BY <1>1 DEF Carries, Sound, HeldUntil, Tied, OpenOrders
<1>0. m.awarded \in BOOLEAN
  BY RowFields DEF Sound
<1>3. r = SettleLightning(b)
  BY DEF TickEvent
<1> HIDE DEF a
<1>4. /\ b \in CryptoBattleState /\ Tied(b) /\ b.orders = a.orders /\ b.count = a.count
      /\ b.start = a.start /\ b.timing = a.timing /\ b.next = a.next /\ b.now = a.now
      /\ b.phase = a.phase /\ (b.awarded <=> a.awarded \/ turn)
  BY <1>2, AwardKeeps
<1> HIDE DEF b, r
<1>5. b.now \in Nat
  BY <1>1, <1>4
<1>6. /\ r \in CryptoBattleState /\ Held(r) /\ Still(r) /\ r = [b EXCEPT !.cards = r.cards]
      /\ b.phase = "ended" => \A t \in Teams : r.cards[t].st \notin {"available", "armed"}
  BY <1>3, <1>4, <1>5, SettleHolds
<1>7. /\ r.orders = a.orders /\ r.count = a.count /\ r.start = m.start /\ r.timing = m.timing
      /\ r.next = a.next /\ r.now = x /\ r.phase = PhaseAt(m, x - m.start) /\ r.phase = b.phase
      /\ (r.awarded <=> m.awarded \/ turn)
  BY <1>4, <1>6, <1>1, <1>2 DEF CryptoBattleState, Untouched
<1>8. Sound(r) /\ OpenOrders(r) = OpenOrders(a)
  BY <1>2, <1>6, <1>7 DEF Sound, Numbered, Deadlines, Paired, Roomy, OpenCount, OpenOrders, End,
     Untouched
<1>9. Evolves(m, r)
  BY <1>2, <1>7, <1>8 DEF Evolves
<1>10. ~IsDue(r, x)
  BY <1>1, <1>2, <1>7 DEF IsDue, End, Untouched
<1>11. r.awarded <=> m.awarded \/ (x >= BoundaryAt(r) /\ BoundaryAt(r) < End(r))
  BY <1>7 DEF BoundaryAt, End
<1> QED BY <1>1, <1>6, <1>7, <1>8, <1>9, <1>10, <1>11 DEF Ticked, r

-----------------------------------------------------------------------------
(* The instants between two looks at the clock.                             *)

LEMMA Smallest ==
    ASSUME NEW S \in SUBSET Nat, NEW s \in S
    PROVE  Min(S) \in S /\ \A y \in S : Min(S) <= y
<1> DEFINE T == {n \in Nat : \A y \in S : n <= y}
<1>1. CASE \E n \in T : n \in S
  BY <1>1 DEF Min
<1>2. CASE \A n \in T : n \notin S
  <2>1. 0 \in T
    OBVIOUS
  <2>2. ASSUME NEW n \in T PROVE n + 1 \in T
    BY <1>2
  <2>3. T \in SUBSET Nat
    OBVIOUS
  <2> HIDE DEF T
  <2>4. s + 1 \in T
    BY <2>1, <2>2, <2>3, NatSteps
  <2> QED BY <2>4 DEF T
<1> QED BY <1>1, <1>2

\* Between two ticks of a match.
Poised(m) ==
    /\ Sound(m) /\ Started(m) /\ Held(m) /\ Timely(m) /\ m.start <= Now(m)
    /\ ~(m.next < Now(m) /\ m.next < End(m))

\* After a tick: nothing is due now, and the endgame was distributed if it has come.
Rested(m) ==
    /\ m.now \in Nat /\ ~IsDue(m, m.now)
    /\ m.awarded \/ ~(m.now >= BoundaryAt(m) /\ BoundaryAt(m) < End(m))

LEMMA NowType == ASSUME NEW m \in CryptoBattleState, Started(m) PROVE Now(m) \in Nat
BY RowFields DEF Now

LEMMA InstantAhead ==
    ASSUME NEW m, Sound(m), Started(m), NEW at \in Nat, Now(m) <= at
    PROVE  LET x == NextInstant(m, at)
           IN  /\ x \in Nat /\ Now(m) <= x /\ x <= at
               /\ Now(m) <= m.next /\ m.next < End(m) => x <= m.next
               /\ Rested(m) => x = at \/ Now(m) < x
<1> DEFINE arrivals == IF m.next >= Now(m) /\ m.next < End(m) THEN {m.next} ELSE {}
           deadlines == {e \in {o.expires : o \in OpenOrders(m)} : e > Now(m)}
           boundary == IF ~m.awarded /\ BoundaryAt(m) >= Now(m) /\ BoundaryAt(m) < End(m)
                       THEN {BoundaryAt(m)} ELSE {}
           S == {at} \cup arrivals \cup deadlines \cup boundary
           x == NextInstant(m, at)
<1>1. m \in CryptoBattleState
  BY DEF Sound
<1>2. Now(m) \in Nat /\ m.next \in Nat /\ BoundaryAt(m) \in Nat /\ End(m) \in Nat
  BY <1>1, NowType, RowFields
<1>3. \A o \in OpenOrders(m) : o.expires \in Nat
  BY <1>1, OrderFields DEF OpenOrders
<1>4. \A e \in deadlines : e \in Nat /\ Now(m) < e
  BY <1>3
<1>5. x = Min(S)
  BY DEF NextInstant
<1> HIDE DEF deadlines, x
<1>6. S \in SUBSET Nat /\ at \in S
  BY <1>2, <1>4
<1>7. x \in S /\ \A y \in S : x <= y
  <2> HIDE DEF S
  <2> QED BY <1>5, <1>6, Smallest
<1>8. \A y \in S : Now(m) <= y
  BY <1>2, <1>4
<1>9. Now(m) <= m.next /\ m.next < End(m) => m.next \in S
  BY <1>2
<1>10. ASSUME Rested(m), NEW y \in S, y # at PROVE Now(m) < y
  BY <1>10, AmountsAssumption, <1>4, <1>2 DEF Rested, Now, IsDue
<1> HIDE DEF S
<1> QED BY <1>6, <1>7, <1>8, <1>9, <1>10 DEF x

LEMMA TickPoised ==
    ASSUME NEW m, Poised(m), NEW x \in Nat, Now(m) <= x
    PROVE  LET r == TickEvent(m, x)
           IN  /\ Poised(r) /\ Rested(r) /\ Ticked(m, r, x) /\ Now(r) = x
               /\ ~IsDue(m, x) \/ x <= m.next => Alive(r)
<1> DEFINE r == TickEvent(m, x)
<1>1. /\ Ticked(m, r, x)
      /\ ~IsDue(m, x) \/ x <= m.next => \A o \in OpenOrders(r) : x < o.expires
  BY TickTicks DEF Poised
<1> HIDE DEF r
<1>2. m \in CryptoBattleState /\ Now(m) \in Nat /\ m.start \in Nat
  BY NowType, RowFields DEF Poised, Sound
<1>3. Now(r) = x /\ Started(r) /\ r.start <= x
  BY <1>1, <1>2, AmountsAssumption DEF Ticked, Now, Started, Poised
<1>4. r \in CryptoBattleState /\ r.next \in Nat
  BY <1>1, RowFields DEF Ticked, Sound
<1>5. Rested(r)
  BY <1>1 DEF Ticked, Rested
<1>6. ~(r.next < x /\ r.next < End(r))
  BY <1>1, <1>4 DEF Ticked, IsDue
<1>7. Timely(r)
  BY <1>1, <1>2, RowFields, <1>3 DEF Ticked, BoundaryAt, End, Poised, Timely
<1>8. ~IsDue(m, x) \/ x <= m.next => Alive(r)
  BY <1>1, <1>3 DEF Alive
<1> QED BY <1>1, <1>3, <1>5, <1>6, <1>7, <1>8 DEF Poised, Ticked, r

\* The rows a replay goes through, until only the requested instant is left.
Plays(g, m, at) ==
    /\ g[0] = m
    /\ \A k \in Nat : g[k + 1] = IF NextInstant(g[k], at) = at THEN g[k]
                                ELSE TickEvent(g[k], NextInstant(g[k], at))

\* Every instant at which something happens is replayed, one tick after another.
LEMMA ReplayedPoised ==
    ASSUME NEW m, Poised(m), NEW at \in Nat, Now(m) <= at
    PROVE  LET r == Replayed(m, at)
           IN  /\ Poised(r) /\ Evolves(m, r) /\ r.start = m.start /\ r.timing = m.timing
               /\ Now(r) <= at /\ NextInstant(r, at) = at
               /\ \E g : Plays(g, m, at) /\ r = g[at - Now(m)]
<1> DEFINE X == {r \in CryptoBattleState :
                    /\ Poised(r) /\ Evolves(m, r) /\ r.start = m.start /\ r.timing = m.timing
                    /\ Now(r) <= at}
           step(r) == IF NextInstant(r, at) = at THEN r ELSE TickEvent(r, NextInstant(r, at))
           F == [k \in Nat |-> [r \in X |-> step(r)]]
           Is(g) == g = [k \in Nat |-> IF k = 0 THEN m ELSE step(g[k - 1])]
           after == CHOOSE g : Is(g)
<1>0. m \in CryptoBattleState /\ Now(m) \in Nat
  BY NowType DEF Poised, Sound
<1>1. m \in X
  BY <1>0, EvolvesSame
<1>a. ASSUME NEW r \in X
      PROVE  LET x == NextInstant(r, at)
             IN  x \in Nat /\ Now(r) \in Nat /\ Now(r) <= x /\ x <= at /\ (Rested(r) => x = at \/ Now(r) < x)
  <2>1. Sound(r) /\ Started(r) /\ Now(r) <= at /\ r \in CryptoBattleState
    BY DEF Poised
  <2> HIDE DEF X
  <2> QED BY <2>1, InstantAhead, NowType
<1>2. ASSUME NEW r \in X, NextInstant(r, at) # at
      PROVE  /\ step(r) \in X /\ Rested(step(r)) /\ Now(step(r)) = NextInstant(r, at)
  <2> DEFINE x == NextInstant(r, at)
             s == TickEvent(r, x)
  <2>1. x \in Nat /\ Now(r) <= x /\ x <= at
    BY <1>a
  <2>2. Poised(r) /\ Evolves(m, r) /\ r.start = m.start /\ r.timing = m.timing
    OBVIOUS
  <2> HIDE DEF X, x
  <2>3. Poised(s) /\ Rested(s) /\ Ticked(r, s, x) /\ Now(s) = x
    BY <2>1, <2>2, TickPoised
  <2> HIDE DEF s
  <2>4. s \in CryptoBattleState /\ r \in CryptoBattleState
    BY <2>2, <2>3 DEF Poised, Sound
  <2>5. Evolves(m, s) /\ s.start = m.start /\ s.timing = m.timing
    BY <1>0, <2>2, <2>3, <2>4, EvolvesOn DEF Ticked
  <2>6. s \in X
    BY <2>1, <2>3, <2>4, <2>5 DEF X
  <2>7. step(r) = s
    BY <1>2 DEF s, x
  <2> HIDE DEF step
  <2> QED BY <2>3, <2>6, <2>7 DEF x
<1>3. \A r \in X : step(r) \in X
  BY <1>2
<1>5. Replayed(m, at) = after[at - Now(m)]
  BY DEF Replayed
<1> HIDE DEF X
<1>4. \A k \in Nat, r \in X : F[k][r] = step(r)
  OBVIOUS
<1>b. F \in [Nat -> [X -> X]]
  BY <1>3
<1> HIDE DEF F, step
<1>6. PICK g \in [Nat -> X] : Repeats(g, m, F)
  BY <1>1, <1>b, Iterates
<1>7. \A k \in Nat : k # 0 => F[k][g[k - 1]] = step(g[k - 1])
  BY <1>4, <1>6
<1>8. Is(g)
  BY <1>6, <1>7 DEF Repeats
<1>9. Is(after)
  BY <1>8
<1> HIDE DEF after
<1> DEFINE Far(k) == /\ after[k] \in X
                     /\ \/ NextInstant(after[k], at) = at
                        \/ NextInstant(after[k], at) >= Now(m) + k
<1>10. \A k \in Nat : Far(k)
  <2> DEFINE T == {k \in Nat : Far(k)}
  <2>1. 0 \in T
    BY <1>9, <1>1, <1>a, <1>0
  <2>2. ASSUME NEW k \in T PROVE k + 1 \in T
    <3>1. k \in Nat /\ k + 1 \in Nat /\ k + 1 # 0 /\ (k + 1) - 1 = k /\ Far(k)
      OBVIOUS
    <3>2. after[k + 1] = step(after[k])
      BY <1>9, <3>1
    <3>3. after[k + 1] \in X
      BY <1>3, <3>1, <3>2
    <3>4. CASE NextInstant(after[k], at) = at
      BY <3>2, <3>4, <3>1 DEF step
    <3>5. CASE NextInstant(after[k], at) # at
      <4> DEFINE r == after[k]
                 s == after[k + 1]
                 x == NextInstant(r, at)
                 y == NextInstant(s, at)
      <4>1. r \in X /\ s \in X /\ x >= Now(m) + k
        BY <3>1, <3>3, <3>5
      <4>2. Rested(s) /\ Now(s) = x
        BY <1>2, <3>2, <3>5, <4>1
      <4>3. x \in Nat /\ y \in Nat /\ (y = at \/ x < y)
        BY <1>a, <4>1, <4>2
      <4>4. y = at \/ y >= Now(m) + (k + 1)
        <5> HIDE DEF x, y
        <5> QED BY <1>0, <3>1, <4>1, <4>3
      <4> QED BY <3>1, <4>1, <4>4
    <3> QED BY <3>4, <3>5
  <2>3. T \in SUBSET Nat
    OBVIOUS
  <2> HIDE DEF T
  <2>4. T = Nat
    BY <2>1, <2>2, <2>3, NatSteps
  <2> QED BY <2>4 DEF T
<1> DEFINE n == at - Now(m)
           r == after[n]
<1>11. n \in Nat /\ Now(m) + n = at
  BY <1>0
<1> HIDE DEF n
<1>12. Far(n)
  BY <1>10, <1>11
<1>13. r \in X /\ (NextInstant(r, at) = at \/ NextInstant(r, at) >= at)
  BY <1>11, <1>12
<1>14. NextInstant(r, at) \in Nat /\ NextInstant(r, at) <= at
  BY <1>13, <1>a
<1>15. NextInstant(r, at) = at
  BY <1>13, <1>14
<1>16. Replayed(m, at) = r
  BY <1>5 DEF n
<1>17. Plays(after, m, at)
  <2>1. after[0] = m
    BY <1>9
  <2>2. ASSUME NEW k \in Nat PROVE after[k + 1] = step(after[k])
    BY <1>9
  <2> QED BY <2>1, <2>2 DEF Plays, step
<1>18. \E f : Plays(f, m, at) /\ r = f[at - Now(m)]
  BY <1>17 DEF r, n
<1> HIDE DEF r
<1> QED BY <1>13, <1>15, <1>16, <1>18 DEF X

\* Once nothing is left, nothing changes.
LEMMA PlayedOut ==
    ASSUME NEW g, NEW m, NEW at, Plays(g, m, at), NEW i \in Nat, NextInstant(g[i], at) = at,
           NEW j \in Nat
    PROVE  g[i + j] = g[i]
<1> DEFINE T == {k \in Nat : g[i + k] = g[i]}
<1>1. 0 \in T
  OBVIOUS
<1>2. ASSUME NEW k \in T PROVE k + 1 \in T
  BY DEF Plays
<1>3. T \in SUBSET Nat
  OBVIOUS
<1> HIDE DEF T
<1>4. T = Nat
  BY <1>1, <1>2, <1>3, NatSteps
<1> QED BY <1>4 DEF T

\* A replay is its first tick and the replay of what is left.
LEMMA ReplaySteps ==
    ASSUME NEW m, Poised(m), NEW at \in Nat, Now(m) <= at
    PROVE  LET x == NextInstant(m, at)
           IN  Replay(m, at) = IF x = at THEN TickEvent(m, at) ELSE Replay(TickEvent(m, x), at)
<1> DEFINE x == NextInstant(m, at)
           r == Replayed(m, at)
           s == TickEvent(m, x)
           q == Replayed(s, at)
           n == at - Now(m)
<1>1. m \in CryptoBattleState /\ Now(m) \in Nat /\ Sound(m) /\ Started(m)
  BY NowType DEF Poised, Sound
<1>2. NextInstant(r, at) = at /\ \E g : Plays(g, m, at) /\ r = g[n]
  BY ReplayedPoised
<1>3. PICK g : Plays(g, m, at) /\ r = g[n]
  BY <1>2
<1>4. n \in Nat /\ g[0] = m
  BY <1>1, <1>3 DEF Plays
<1>5. CASE x = at
  <2>1. g[0 + n] = g[0]
    <3> HIDE DEF n
    <3> QED BY <1>3, <1>4, <1>5, PlayedOut
  <2>2. r = m
    <3> HIDE DEF n, r
    <3> QED BY <1>3, <1>4, <2>1
  <2> QED BY <1>5, <2>2 DEF Replay
<1>6. CASE x # at
  <2>1. x \in Nat /\ Now(m) <= x /\ x <= at
    BY <1>1, InstantAhead
  <2> DEFINE k == at - x
  <2> HIDE DEF x, s
  <2>2. Poised(s) /\ Now(s) = x
    BY <2>1, TickPoised DEF s
  <2>3. NextInstant(q, at) = at /\ \E h : Plays(h, s, at) /\ q = h[k]
    BY <2>1, <2>2, ReplayedPoised
  <2>4. PICK h : Plays(h, s, at) /\ q = h[k]
    BY <2>3
  <2>5. k \in Nat
    BY <2>1
  <2> HIDE DEF k, n, r, q
  <2>6. \A i \in Nat : h[i] = g[i + 1]
    <3> DEFINE T == {i \in Nat : h[i] = g[i + 1]}
    <3>1. 0 \in T
      BY <1>3, <1>4, <1>6, <2>4 DEF Plays, s, x
    <3>2. ASSUME NEW i \in T PROVE i + 1 \in T
      BY <2>4, <1>3 DEF Plays
    <3>3. T \in SUBSET Nat
      OBVIOUS
    <3> HIDE DEF T
    <3>4. T = Nat
      BY <3>1, <3>2, <3>3, NatSteps
    <3> QED BY <3>4 DEF T
  <2>7. q = g[k + 1] /\ k + 1 \in Nat
    BY <2>4, <2>5, <2>6
  <2>8. CASE n <= k + 1
    <3> DEFINE j == (k + 1) - n
    <3>1. j \in Nat /\ n + j = k + 1
      BY <1>4, <2>5, <2>8
    <3> HIDE DEF j
    <3>2. g[n + j] = g[n]
      BY <1>2, <1>3, <1>4, <3>1, PlayedOut
    <3> QED BY <1>3, <2>7, <3>1, <3>2, <1>6 DEF Replay, q, r, s, x
  <2>9. CASE k + 1 <= n
    <3> DEFINE j == n - (k + 1)
               i == k + 1
    <3>1. j \in Nat /\ i + j = n /\ i \in Nat /\ q = g[i]
      BY <1>4, <2>5, <2>7, <2>9
    <3> HIDE DEF i, j
    <3>2. g[i + j] = g[i]
      BY <1>3, <2>3, <3>1, PlayedOut
    <3> QED BY <1>3, <1>6, <3>1, <3>2 DEF Replay, q, r, s, x
  <2> QED BY <1>4, <2>5, <2>8, <2>9
<1> QED BY <1>5, <1>6

\* A stored row.
Settled(m) ==
    /\ Sound(m) /\ Held(m)
    /\ ~Started(m) => m.orders = {} /\ m.phase = "waiting" /\ ~m.awarded
    /\ Started(m) =>
          /\ m.now \in Nat /\ m.start <= m.now /\ Rested(m) /\ Timely(m)
          /\ Alive(m) /\ Still(m)
          /\ m.phase # "waiting" /\ (m.phase = "ended" <=> m.now >= End(m))
          /\ m.phase = "ended" =>
                /\ OpenOrders(m) = {}
                /\ \A t \in Teams : m.cards[t].st \notin {"available", "armed"}

LEMMA ReplaySettles ==
    ASSUME NEW m, Poised(m), NEW at \in Nat, Now(m) <= at
    PROVE  LET r == Replay(m, at)
           IN  Settled(r) /\ Started(r) /\ Evolves(m, r)
<1> DEFINE s == Replayed(m, at)
           r == Replay(m, at)
<1>1. /\ Poised(s) /\ Evolves(m, s) /\ s.start = m.start /\ s.timing = m.timing
      /\ Now(s) <= at /\ NextInstant(s, at) = at
  BY ReplayedPoised
<1>2. r = TickEvent(s, at)
  BY DEF Replay
<1> HIDE DEF r, s
<1>3. /\ Poised(r) /\ Rested(r) /\ Ticked(s, r, at) /\ Now(r) = at
      /\ ~IsDue(s, at) \/ at <= s.next => Alive(r)
  BY <1>1, <1>2, TickPoised
<1>4. /\ m \in CryptoBattleState /\ s \in CryptoBattleState /\ r \in CryptoBattleState
      /\ Sound(r) /\ Held(r)
  BY <1>1, <1>3 DEF Poised, Sound
<1>5. Evolves(m, r)
  BY <1>1, <1>3, <1>4, EvolvesOn DEF Ticked
<1>6. /\ s.start \in Nat /\ s.timing.length \in Nat /\ End(s) = s.start + s.timing.length
      /\ r.start = s.start /\ End(r) = End(s) /\ r.now = at /\ r.start <= at
      /\ r.phase = PhaseAt(s, at - s.start) /\ s.next \in Nat /\ Now(s) \in Nat
  BY <1>1, <1>3, <1>4, RowFields, NowType DEF Poised, Ticked, End
<1>7. r.phase # "waiting" /\ (r.phase = "ended" <=> at >= End(s))
  BY <1>6 DEF PhaseAt
<1>8. ASSUME r.phase = "ended" PROVE OpenOrders(r) = {}
  <2>1. at >= End(s)
    BY <1>7, <1>8
  <2>2. ~IsDue(s, at)
    <3> SUFFICES ASSUME s.next < End(s) PROVE FALSE
      BY DEF IsDue
    <3>1. Now(s) <= s.next
      BY <1>1, <1>6 DEF Poised
    <3>2. at <= s.next
      BY <1>1, <3>1, InstantAhead DEF Poised
    <3> QED BY <1>6, <2>1, <3>2
  <2>3. \A o \in OpenOrders(r) : at < o.expires
    BY <1>1, <1>2, <2>2, TickTicks DEF Poised
  <2>4. ASSUME NEW o \in OpenOrders(r) PROVE FALSE
    BY <1>4, <2>3, OrderFields, <1>6, <2>1 DEF Sound, Deadlines, OpenOrders, Least
  <2> QED BY <2>4
<1>9. r.phase = "ended" => \A t \in Teams : r.cards[t].st \notin {"available", "armed"}
  BY <1>3 DEF Ticked
<1>10. Started(r) /\ Timely(r) /\ Still(r)
  BY <1>3 DEF Poised, Ticked
<1>12. Alive(r)
  BY <1>1, InstantAhead, <1>6, <1>3 DEF Poised, IsDue
<1>11. Settled(r)
  BY <1>3, <1>4, <1>6, <1>7, <1>8, <1>9, <1>10, <1>12 DEF Settled
<1> QED BY <1>5, <1>10, <1>11 DEF r

-----------------------------------------------------------------------------
(* Reports of the end, and the start.                                       *)

\* Rows that differ in nothing the invariant speaks of.
Alike(m, r) ==
    /\ r \in CryptoBattleState /\ r.orders = m.orders /\ r.count = m.count /\ r.start = m.start
    /\ r.timing = m.timing /\ r.cards = m.cards /\ r.next = m.next /\ r.now = m.now
    /\ r.phase = m.phase /\ r.awarded = m.awarded

LEMMA AlikeSettled ==
    ASSUME NEW m, NEW r, Settled(m), Alike(m, r)
    PROVE  Settled(r) /\ Evolves(m, r)
<1>1. OpenOrders(r) = OpenOrders(m) /\ End(r) = End(m) /\ BoundaryAt(r) = BoundaryAt(m)
      /\ (Started(r) <=> Started(m))
  BY DEF Alike, OpenOrders, End, BoundaryAt, Started
<1>2. Sound(r)
  BY <1>1 DEF Settled, Alike, Sound, Numbered, Deadlines, Paired, Roomy, OpenCount
<1>3. Evolves(m, r)
  BY EvolvesSame DEF Settled, Alike, Sound
<1>4. Held(r)
  BY <1>1 DEF Settled, Alike, Held, Named
<1>5. Started(m) => Rested(r) /\ Timely(r) /\ Alive(r)
  BY <1>1 DEF Settled, Alike, Rested, IsDue, Timely, Alive, Now
<1>6. Started(m) => Still(r)
  <2>1. ASSUME NEW t \in Teams PROVE SettledCard(r, t) = SettledCard(m, t)
    BY DEF Alike, OrderOf, Verdict, Stranded, SettledCard
  <2> QED BY <2>1 DEF Settled, Still, Alike
<1> QED BY <1>1, <1>2, <1>3, <1>4, <1>5, <1>6 DEF Settled, Alike

LEMMA SettledPoised ==
    ASSUME NEW m, Settled(m), Started(m)
    PROVE  Poised(m) /\ m.now \in Nat /\ Now(m) = m.now
BY RowFields, AmountsAssumption DEF Settled, Sound, Now, Rested, IsDue, Poised

\* The end moves, every open deadline with it, and every card with its order.
LEMMA RescheduleKeeps ==
    ASSUME NEW m, Sound(m), Started(m), Held(m), NEW length \in Nat, NEW timing,
           timing \in [length : Nat, toPressure : Nat, toEndgame : Nat], timing.length = length
    PROVE  LET r == [Rescheduled(m, length) EXCEPT !.timing = timing]
           IN  /\ Sound(r) /\ Held(r) /\ Evolves(m, r) /\ r.timing = timing
               /\ r.start = m.start /\ r.next = m.next /\ r.now = m.now
               /\ r.awarded = m.awarded
<1> DEFINE newEnd == m.start + length
           new(o) == IF IsOpen(o) THEN [o EXCEPT !.expires = Deadline(o, End(m), newEnd)] ELSE o
           orders == {new(o) : o \in m.orders}
           moved == orders \ m.orders
           cards == [t \in Teams |-> CardMoved(m.cards[t], t, moved)]
           f == [o \in m.orders |-> new(o)]
           r == [Rescheduled(m, length) EXCEPT !.timing = timing]
<1>1. /\ m \in CryptoBattleState /\ m.start \in Nat /\ End(m) \in Nat /\ newEnd \in Nat
      /\ m.cards \in [Teams -> LightningCard]
  BY RowFields DEF Sound
<1>2. ASSUME NEW o \in m.orders
      PROVE  /\ new(o) \in Contract /\ new(o).team = o.team /\ new(o).seq = o.seq
             /\ new(o).opp = o.opp /\ new(o).task = o.task /\ new(o).rush = o.rush
             /\ new(o).issued = o.issued /\ (IsOpen(new(o)) <=> IsOpen(o))
             /\ IsOpen(o) => /\ new(o).expires = Deadline(o, End(m), newEnd)
                             /\ new(o).expires = Least(o.issued + TtlOf(o), newEnd)
  <2>1. o \in Contract /\ o.expires \in Nat /\ o.issued \in Nat /\ TtlOf(o) \in Nat
    BY <1>1, OrderFields
  <2>2. CASE IsOpen(o)
    <3> DEFINE e == Deadline(o, End(m), newEnd)
    <3>1. o.expires = Least(o.issued + TtlOf(o), End(m))
      BY <2>2 DEF Sound, Deadlines, OpenOrders
    <3>2. e = Least(o.issued + TtlOf(o), newEnd) /\ e \in Nat
      BY <1>1, <2>1, <3>1 DEF Deadline, Least
    <3>3. new(o) = [o EXCEPT !.expires = e]
      BY <2>2
    <3> HIDE DEF e, new
    <3>4. /\ new(o) \in Contract /\ new(o).team = o.team /\ new(o).seq = o.seq
          /\ new(o).opp = o.opp /\ new(o).task = o.task /\ new(o).rush = o.rush
          /\ new(o).issued = o.issued /\ new(o).status = o.status /\ new(o).expires = e
      BY <2>1, <3>2, <3>3 DEF Contract
    <3> QED BY <3>2, <3>4 DEF IsOpen, e
  <2>3. CASE ~IsOpen(o)
    <3>1. new(o) = o
      BY <2>3
    <3> HIDE DEF new
    <3> QED BY <2>1, <2>3, <3>1
  <2> QED BY <2>2, <2>3
<1>3. r = [m EXCEPT !.orders = orders, !.cards = cards, !.timing = timing]
  <2>1. Rescheduled(m, length) = [m EXCEPT !.orders = orders, !.cards = [t \in Teams |-> CardMoved(@[t], t, moved)]]
    BY DEF Rescheduled
  <2> HIDE DEF orders, moved
  <2> QED BY <1>1, <2>1 DEF CryptoBattleState
<1> HIDE DEF new, r
<1>4. f \in [m.orders -> Contract] /\ orders = {f[o] : o \in m.orders}
      /\ \A o \in m.orders : f[o] = new(o)
  BY <1>2
<1>5. \A q \in orders : \E o \in m.orders : q = new(o)
  OBVIOUS
<1>6. \A o \in m.orders : new(o) \in orders
  OBVIOUS
<1> HIDE DEF orders, f
<1>7. \A o, p \in orders : o.team = p.team /\ o.seq = p.seq => o = p
  BY <1>2, <1>5 DEF Sound, Numbered
\* The card of an open order has its new deadline, whether that moved or not.
<1>8. ASSUME NEW t \in Teams
      PROVE  /\ cards[t] \in LightningCard /\ cards[t].st = m.cards[t].st
             /\ cards[t].seq = m.cards[t].seq
             /\ cards[t].st = "armed" =>
                   \E o \in orders : IsOpen(o) /\ Stake(cards[t], t, o)
  <2> DEFINE card == m.cards[t]
             mine == {o \in moved : o.team = t /\ o.seq = card.seq}
             e == (CHOOSE o \in moved : o.team = t /\ o.seq = card.seq).expires
  <2>1. card \in LightningCard
    BY <1>1
  <2>2. \A o \in moved : o \in orders /\ o \in Contract
    BY <1>2, <1>5
  <2>3. CASE card.st = "armed" /\ mine # {}
    <3>1. \E o \in moved : o.team = t /\ o.seq = card.seq
      BY <2>3
    <3> DEFINE p == CHOOSE o \in moved : o.team = t /\ o.seq = card.seq
    <3>2. p \in moved /\ p.team = t /\ p.seq = card.seq
      BY <3>1
    <3>3. cards[t] = [card EXCEPT !.expires = p.expires]
      BY <2>3, <3>1 DEF CardMoved
    <3> HIDE DEF p, moved, cards
    <3>4. p.expires \in Nat
      BY <2>2, <3>2 DEF Contract
    <3>5. /\ cards[t] \in LightningCard /\ cards[t].st = card.st /\ cards[t].seq = card.seq
          /\ cards[t].points = card.points /\ cards[t].expires = p.expires
      <4> HIDE DEF card
      <4> QED BY <2>1, <3>3, <3>4 DEF LightningCard
    <3>6. PICK o \in OpenOrders(m) : Stake(card, t, o)
      BY <2>3 DEF Held
    <3>7. o \in m.orders /\ IsOpen(o)
      BY DEF OpenOrders
    <3>8. new(o) = p
      BY <1>2, <1>6, <1>7, <2>2, <3>2, <3>6, <3>7 DEF Stake
    <3>9. IsOpen(p) /\ p \in orders /\ p.rush = o.rush
      BY <1>2, <1>6, <3>7, <3>8
    <3>10. Stake(cards[t], t, p)
      BY <3>2, <3>5, <3>6, <3>9 DEF Stake, Points
    <3> QED BY <3>5, <3>9, <3>10
  <2>4. CASE ~(card.st = "armed" /\ mine # {})
    <3>1. cards[t] = card
      BY <2>4 DEF CardMoved
    <3>2. ASSUME card.st = "armed"
          PROVE  \E o \in orders : IsOpen(o) /\ Stake(card, t, o)
      BY <3>2, <1>2, <1>6, <2>4 DEF Held, OpenOrders, Stake, Sound, Numbered
    <3> HIDE DEF cards
    <3> QED BY <2>1, <3>1, <3>2
  <2> QED BY <2>3, <2>4
<1>9. cards \in [Teams -> LightningCard]
  BY <1>8
<1> HIDE DEF cards
<1>10. r \in CryptoBattleState
  <2>1. orders \in SUBSET Contract
    BY <1>2, <1>5
  <2> QED BY <1>1, <1>3, <1>9, <2>1 DEF CryptoBattleState
<1>11. /\ r.orders = orders /\ r.cards = cards /\ r.timing = timing /\ r.count = m.count
       /\ r.start = m.start /\ r.next = m.next /\ r.now = m.now /\ r.awarded = m.awarded
  BY <1>1, <1>3 DEF CryptoBattleState
<1>12. Held(r)
  BY <1>8, <1>11 DEF Held, Named, OpenOrders
<1>13. IsFiniteSet(r.orders)
  <2>1. f \in Surjection(m.orders, orders)
    BY <1>4, <1>5, <1>6 DEF Surjection
  <2> QED BY <1>11, <2>1, FS_Surjection DEF Sound
<1>14. Numbered(r)
  BY <1>2, <1>5, <1>7, <1>11 DEF Sound, Numbered
<1>15. ASSUME NEW q \in OpenOrders(r) PROVE \E o \in OpenOrders(m) : q = new(o) /\ o \in m.orders
  BY <1>2, <1>5, <1>11 DEF OpenOrders
<1>16. Deadlines(r)
  <2>1. End(r) = newEnd
    BY <1>11 DEF End
  <2>2. ASSUME NEW q \in OpenOrders(r) PROVE q.expires = Least(q.issued + TtlOf(q), newEnd)
    BY <1>15, <1>2 DEF OpenOrders, TtlOf
  <2> QED BY <2>1, <2>2 DEF Deadlines
<1>17. Paired(r)
  BY <1>15, <1>2, <1>6, <1>11 DEF Paired, Sound, OpenOrders, Twins, TtlOf
<1>18. Evolves(m, r)
  BY <1>1, RowFields, <1>2, <1>11, <1>15 DEF Evolves
<1>20. Roomy(r)
  BY <1>2, <1>15, <1>13, <1>14, FewerOpen DEF Sound
<1>19. Sound(r)
  BY <1>10, <1>13, <1>14, <1>16, <1>17, <1>20 DEF Sound
<1> QED BY <1>11, <1>12, <1>18, <1>19 DEF r

LEMMA DurationPoises ==
    ASSUME NEW m, Settled(m), Started(m), NEW reported \in Int \cup {None},
           reported # None => reported >= m.now \/ reported <= 0
    PROVE  LET r == WithMatchDuration(m, reported)
           IN  Poised(r) /\ Evolves(m, r) /\ Now(r) = m.now /\ r.now = m.now /\ Started(r)
<1> DEFINE r == WithMatchDuration(m, reported)
           accepted == [m EXCEPT !.rejected = FALSE, !.reported = reported]
           length == Greatest(0, reported - m.start)
           timing == TimingAfter(m, length)
<1>1. m \in CryptoBattleState /\ m.start \in Nat /\ m.next \in Nat /\ End(m) \in Nat
      /\ m.timing \in [length : Nat, toPressure : Nat, toEndgame : Nat]
  BY RowFields DEF Settled, Sound
<1>2. ASSUME NEW s, Alike(m, s)
      PROVE  Poised(s) /\ Evolves(m, s) /\ Now(s) = m.now /\ s.now = m.now /\ Started(s)
             /\ Sound(s) /\ Held(s)
  BY <1>2, AlikeSettled, SettledPoised DEF Alike, Started, Poised
<1>3. CASE reported = None \/ ~Follows(m)
  BY <1>3, <1>1, <1>2 DEF WithMatchDuration, Alike
<1>4. CASE ~(reported = None \/ ~Follows(m)) /\ (reported <= 0 \/ reported > Longest)
  <2>1. r = [m EXCEPT !.rejected = TRUE]
    BY <1>4 DEF WithMatchDuration
  <2> HIDE DEF r
  <2>2. Alike(m, r)
    BY <1>1, <2>1 DEF Alike, CryptoBattleState
  <2> QED BY <1>2, <2>2 DEF r
<1>5. CASE ~(reported = None \/ ~Follows(m)) /\ ~(reported <= 0 \/ reported > Longest)
  <2>1. reported \in Nat /\ Follows(m)
    BY <1>5, AmountsAssumption
  <2>2. Alike(m, accepted)
    BY <1>1, <2>1 DEF Alike, CryptoBattleState, Optional
  <2>3. length \in Nat
    BY <1>1, <2>1 DEF Greatest
  <2>4. r = IF length = m.timing.length THEN accepted
            ELSE [Rescheduled(accepted, length) EXCEPT !.timing = timing]
    BY <1>5 DEF WithMatchDuration
  <2>5. /\ timing \in [length : Nat, toPressure : Nat, toEndgame : Nat]
        /\ timing.length = length /\ timing.toEndgame = m.timing.toEndgame
    <3> HIDE DEF length
    <3> QED BY <1>1, <2>3 DEF TimingAfter
  <2>8. reported >= m.now /\ m.start + length >= reported
    BY <1>1, <1>5, <2>1, AmountsAssumption DEF Greatest
  <2> HIDE DEF accepted, length, timing, r
  <2>6. CASE r = accepted
    BY <1>2, <2>2, <2>6 DEF r
  <2>7. CASE r # accepted
    <3>1. r = [Rescheduled(accepted, length) EXCEPT !.timing = timing]
      BY <2>4, <2>7
    <3>2. /\ Sound(accepted) /\ Held(accepted) /\ Started(accepted) /\ Evolves(m, accepted)
          /\ accepted.now = m.now /\ accepted.start = m.start /\ accepted.next = m.next
          /\ accepted \in CryptoBattleState /\ accepted.awarded = m.awarded
      BY <1>2, <2>2 DEF Alike
    <3>3. /\ Sound(r) /\ Held(r) /\ Evolves(accepted, r)
          /\ r.start = m.start /\ r.next = m.next /\ r.now = m.now
          /\ r.awarded = m.awarded /\ r.timing = timing
      BY <2>3, <2>5, <3>1, <3>2, RescheduleKeeps
    <3>4. Evolves(m, r)
      BY <1>1, <3>2, <3>3, EvolvesOn DEF Sound
    <3>5. m.now \in Nat /\ m.start <= m.now /\ Now(m) = m.now
      BY SettledPoised DEF Settled
    <3>6. Now(r) = m.now /\ Started(r)
      BY <3>3, <3>5, AmountsAssumption DEF Now, Started
\* A match that can still be moved has not reached its end: what is next lies ahead.
    <3>7. ~(r.next < Now(r))
      BY <1>1, <2>1, <3>5, <3>3, <3>6 DEF Settled, Follows, Rested, IsDue
    <3>9. Timely(r)
      <4>1. BoundaryAt(r) = BoundaryAt(m) /\ BoundaryAt(m) \in Nat /\ End(r) = m.start + length
        BY <1>1, <2>5, <3>3, RowFields DEF BoundaryAt, End
      <4>2. m.awarded => BoundaryAt(m) <= m.now
        BY <3>5 DEF Settled, Timely
      <4>3. m.now <= End(r)
        BY <1>1, <2>1, <2>3, <2>8, <3>5, <4>1
      <4> QED BY <1>1, <2>1, <2>3, <3>3, <3>5, <3>6, <4>1, <4>2, <4>3 DEF Timely
    <3>8. Poised(r)
      BY <3>3, <3>5, <3>6, <3>7, <3>9 DEF Poised
    <3> QED BY <3>3, <3>4, <3>6, <3>8 DEF r
  <2> QED BY <2>6, <2>7
<1> QED BY <1>3, <1>4, <1>5

\* A report before the start changes nothing but how long the match will be.
Fresh(m, r) ==
    /\ r \in CryptoBattleState /\ r.orders = m.orders /\ r.count = m.count /\ r.start = m.start
    /\ r.cards = m.cards /\ r.awarded = m.awarded

LEMMA FreshSettled ==
    ASSUME NEW m, Settled(m), ~Started(m), NEW r, Fresh(m, r), r.phase = "waiting"
    PROVE  Settled(r) /\ Evolves(m, r) /\ ~Started(r)
<1>1. m.orders = {} /\ m \in CryptoBattleState /\ IsFiniteSet({})
  BY FS_EmptySet DEF Settled, Sound
<1>2. ~Started(r)
  BY DEF Started, Fresh
<1>3. Sound(r) /\ Held(r)
  BY <1>1 DEF Settled, Fresh, Sound, Numbered, Deadlines, Paired, Roomy, OpenCount, OpenOrders,
     Held, Named
<1>4. Evolves(m, r)
  BY <1>1, EvolvesSame DEF Fresh
<1> QED BY <1>1, <1>2, <1>3, <1>4 DEF Settled, Fresh

LEMMA TickSettles ==
    ASSUME NEW m, Settled(m), NEW at \in Nat, NEW reported \in Int \cup {None},
           reported # None => reported >= at \/ reported <= 0
    PROVE  /\ Settled(Tick(m, at, reported)) /\ Evolves(m, Tick(m, at, reported))
           /\ Started(m) => Started(Tick(m, at, reported))
<1> DEFINE w == WithMatchDuration(m, reported)
           r == Tick(m, at, reported)
<1>0. m \in CryptoBattleState
  BY DEF Settled, Sound
<1>1. CASE m.now # None /\ at < m.now
  BY <1>0, <1>1, AlikeSettled DEF Tick, Alike
<1>2. CASE ~(m.now # None /\ at < m.now) /\ Started(m)
  <2>2. m.now \in Nat /\ m.now <= at
    BY <1>2, SettledPoised, AmountsAssumption
  <2>0. reported # None => reported >= m.now \/ reported <= 0
    BY <2>2
  <2>1. Poised(w) /\ Evolves(m, w) /\ Now(w) = m.now /\ w.now = m.now /\ Started(w)
    BY <1>2, <2>0, DurationPoises
  <2> HIDE DEF w
  <2>3. r = Replay(w, at)
    BY <1>2, <2>1 DEF Tick, Advance, w
  <2>4. Settled(r) /\ Started(r) /\ Evolves(w, r)
    BY <2>1, <2>2, <2>3, ReplaySettles
  <2> HIDE DEF r
  <2>5. Evolves(m, r)
    BY <1>0, <2>1, <2>4, EvolvesOn DEF Poised, Settled, Sound
  <2> QED BY <2>4, <2>5 DEF r
<1>3. CASE ~(m.now # None /\ at < m.now) /\ ~Started(m)
  <2>1. Fresh(m, w) /\ w.now = m.now
    <3>1. CASE reported = None \/ ~Follows(m)
      BY <1>0, <3>1 DEF WithMatchDuration, Fresh
    <3>2. CASE ~(reported = None \/ ~Follows(m)) /\ (reported <= 0 \/ reported > Longest)
      <4>1. w = [m EXCEPT !.rejected = TRUE]
        BY <3>2 DEF WithMatchDuration
      <4> HIDE DEF w
      <4> QED BY <1>0, <4>1 DEF Fresh, CryptoBattleState
    <3>3. CASE ~(reported = None \/ ~Follows(m)) /\ ~(reported <= 0 \/ reported > Longest)
      <4> DEFINE timing == Thirds(reported)
      <4>1. reported \in Nat
        BY <3>3, AmountsAssumption
      <4>2. timing \in [length : Nat, toPressure : Nat, toEndgame : Nat]
        BY <4>1 DEF Thirds
      <4>3. w = [[m EXCEPT !.rejected = FALSE, !.reported = reported] EXCEPT !.timing = timing]
        <5>1. ~Started([m EXCEPT !.rejected = FALSE, !.reported = reported])
              <=> ~Started(m)
          BY <1>0 DEF Started, CryptoBattleState
        <5> HIDE DEF timing
        <5> QED BY <1>3, <3>3 DEF WithMatchDuration, timing
      <4> HIDE DEF w, timing
      <4> QED BY <1>0, <4>1, <4>2, <4>3 DEF Fresh, CryptoBattleState, Optional
    <3> QED BY <3>1, <3>2, <3>3
  <2> HIDE DEF w
  <2>2. r = [w EXCEPT !.phase = "waiting", !.now = at]
    BY <1>3, <2>1 DEF Tick, Advance, TickAtTime, w, Fresh, Started
  <2> HIDE DEF r
  <2>3. Fresh(m, r) /\ r.phase = "waiting"
    BY <2>1, <2>2 DEF Fresh, CryptoBattleState, Phases, Optional
  <2>4. Settled(r) /\ Evolves(m, r)
    BY <1>3, <2>3, FreshSettled
  <2> QED BY <1>3, <2>4 DEF r
<1> QED BY <1>1, <1>2, <1>3

LEMMA StartSettles ==
    ASSUME NEW m, Settled(m), ~Started(m)
    PROVE  Settled(ApplyStart(m)) /\ Evolves(m, ApplyStart(m)) /\ Started(ApplyStart(m))
<1> DEFINE at == IF m.now = None THEN 0 ELSE m.now
           timing == IF m.reported = None THEN m.timing ELSE Thirds(Greatest(0, m.reported - at))
           w == [m EXCEPT !.start = at, !.next = at, !.phase = "build", !.timing = timing]
           r == ApplyStart(m)
<1>1. m \in CryptoBattleState /\ m.orders = {} /\ IsFiniteSet({})
  BY FS_EmptySet DEF Settled, Sound
<1>2. at \in Nat
  BY <1>1, RowFields
<1>3. timing \in [length : Nat, toPressure : Nat, toEndgame : Nat]
  <2>1. CASE m.reported = None
    BY <1>1, <2>1, RowFields
  <2>2. CASE m.reported # None
    <3>1. m.reported \in Nat
      BY <1>1, <2>2 DEF CryptoBattleState, Optional
    <3> DEFINE n == Greatest(0, m.reported - at)
    <3>2. n \in Nat
      BY <1>2, <3>1 DEF Greatest
    <3>3. timing = Thirds(n)
      BY <2>2
    <3> HIDE DEF n, timing
    <3> QED BY <3>2, <3>3 DEF Thirds
  <2> QED BY <2>1, <2>2
<1>4. r = Tick(w, at, None)
  BY DEF ApplyStart
<1> HIDE DEF timing, w, r
<1>5. /\ w \in CryptoBattleState /\ w.start = at /\ w.next = at /\ w.now = m.now
      /\ w.orders = {} /\ w.count = m.count /\ w.cards = m.cards /\ w.awarded = m.awarded
  <2> HIDE DEF at
  <2> QED BY <1>1, <1>2, <1>3 DEF CryptoBattleState, Optional, Phases, w
<1>6. Started(w) /\ Now(w) = at
  BY <1>2, <1>5, AmountsAssumption DEF Started, Now
<1>7. Sound(w) /\ Held(w) /\ Timely(w)
  BY <1>1, <1>5 DEF Settled, Sound, Numbered, Deadlines, Paired, Roomy, OpenCount, OpenOrders,
     Held, Named, Timely
<1>8. Evolves(m, w)
  BY <1>1, <1>5, EvolvesSame
<1>9. Poised(w)
  BY <1>2, <1>5, <1>6, <1>7 DEF Poised
<1>10. r = Replay(w, at)
  BY <1>2, <1>4, <1>5, <1>6 DEF Tick, Advance, WithMatchDuration
<1>11. Settled(r) /\ Started(r) /\ Evolves(w, r)
  BY <1>2, <1>6, <1>9, <1>10, ReplaySettles
<1>12. Evolves(m, r)
  BY <1>1, <1>5, <1>8, <1>11, EvolvesOn DEF Settled, Sound
<1> QED BY <1>11, <1>12 DEF r

LEMMA ReadySettles ==
    ASSUME NEW m, Settled(m), ~Started(m), NEW t \in Teams
    PROVE  Settled(ApplyReady(m, t)) /\ Evolves(m, ApplyReady(m, t))
<1> DEFINE w == [m EXCEPT !.ready = @ \cup {t}]
<1>1. m \in CryptoBattleState /\ m.phase = "waiting"
  BY DEF Settled, Sound
<1>2. Fresh(m, w) /\ w.phase = "waiting"
  BY <1>1 DEF Fresh, CryptoBattleState
<1> HIDE DEF w
<1>3. Settled(w) /\ Evolves(m, w) /\ ~Started(w)
  BY <1>2, FreshSettled
<1>4. Settled(ApplyStart(w)) /\ Evolves(w, ApplyStart(w))
  BY <1>3, StartSettles
<1>5. Evolves(m, ApplyStart(w))
  BY <1>1, <1>2, <1>3, <1>4, EvolvesOn DEF Fresh, Settled, Sound
<1>6. ApplyReady(m, t) \in {w, ApplyStart(w)}
  BY DEF ApplyReady, w
<1> QED BY <1>3, <1>4, <1>5, <1>6

-----------------------------------------------------------------------------
(* Operations: a row that was edited, settled and stored.                   *)

\* A started row before its cards are settled.
Fits(m) ==
    /\ Sound(m) /\ Tied(m) /\ Started(m) /\ Timely(m) /\ Alive(m)
    /\ m.now \in Nat /\ m.start <= m.now /\ Rested(m)
    /\ m.phase # "waiting" /\ (m.phase = "ended" <=> m.now >= End(m))
    /\ m.phase = "ended" => OpenOrders(m) = {}

LEMMA FitsSettles ==
    ASSUME NEW m, Fits(m)
    PROVE  Settled(SettleLightning(m)) /\ Evolves(m, SettleLightning(m))
<1> DEFINE r == SettleLightning(m)
<1>1. m \in CryptoBattleState /\ m.now \in Nat /\ Tied(m)
  BY DEF Fits, Sound
<1>2. /\ r \in CryptoBattleState /\ Held(r) /\ Still(r) /\ r = [m EXCEPT !.cards = r.cards]
      /\ m.phase = "ended" => \A t \in Teams : r.cards[t].st \notin {"available", "armed"}
  BY <1>1, SettleHolds
<1> HIDE DEF r
<1>3. /\ r.orders = m.orders /\ r.count = m.count /\ r.start = m.start /\ r.timing = m.timing
      /\ r.next = m.next /\ r.now = m.now /\ r.phase = m.phase /\ r.awarded = m.awarded
  <2> DEFINE cards == r.cards
  <2>1. r = [m EXCEPT !.cards = cards]
    BY <1>2
  <2> HIDE DEF cards
  <2> QED BY <1>1, <2>1 DEF CryptoBattleState
<1>4. OpenOrders(r) = OpenOrders(m) /\ End(r) = End(m) /\ BoundaryAt(r) = BoundaryAt(m)
  BY <1>3 DEF OpenOrders, End, BoundaryAt
<1>5. Sound(r)
  BY <1>2, <1>3, <1>4 DEF Fits, Sound, Numbered, Deadlines, Paired, Roomy, OpenCount
<1>6. Evolves(m, r)
  BY <1>1, <1>3, EvolvesSame
<1>7. Rested(r) /\ Started(r) /\ Timely(r) /\ Alive(r)
  BY <1>3, <1>4 DEF Fits, Rested, IsDue, Started, Timely, Alive, Now
<1> QED BY <1>2, <1>3, <1>4, <1>5, <1>6, <1>7 DEF Fits, Settled, r

\* Cards that are settled already, or not dealt yet, are left as they are or settle again.
LEMMA SettledAgain ==
    ASSUME NEW m, Settled(m)
    PROVE  Settled(SettleLightning(m)) /\ Evolves(m, SettleLightning(m))
<1>1. m \in CryptoBattleState
  BY DEF Settled, Sound
<1>2. CASE Started(m)
  BY <1>2, FitsSettles DEF Settled, Held, Tied, Named, OpenOrders, Fits
<1>3. CASE ~Started(m)
  <2>1. \A t \in Teams : m.cards[t].st # "armed"
    BY <1>3 DEF Settled, Held, OpenOrders
  <2>2. \A t \in Teams : SettledCard(m, t) = m.cards[t]
    BY <1>3, <2>1 DEF SettledCard, Stranded, Settled
  <2>3. [t \in Teams |-> SettledCard(m, t)] = m.cards
    BY <1>1, <2>2, RowFields
  <2>4. SettleLightning(m) = [m EXCEPT !.cards = m.cards]
    BY <2>3 DEF SettleLightning
  <2>5. SettleLightning(m) = m
    BY <1>1, <2>4 DEF CryptoBattleState
  <2> QED BY <1>1, <2>5, EvolvesSame
<1> QED BY <1>2, <1>3

-----------------------------------------------------------------------------
(* The invariant, and what every write does to it.                          *)

\* Nothing open was ever closed, and no number of a closed order is still to come.
InvOf(m, done) ==
    /\ Settled(m)
    /\ \A c \in done : c \in Teams \X Nat /\ c[2] < m.count[c[1]]
    /\ Ids(OpenOrders(m)) \cap done = {}

Inv == InvOf(match, closed)

LEMMA WriteKeeps ==
    ASSUME Inv, NEW m, Settled(m), Evolves(match, m), Write(m)
    PROVE  Inv'
<1> DEFINE gone == Ids(match.orders \cup m.orders) \ Ids(OpenOrders(m))
<1>1. match' = m /\ closed' = closed \cup gone
  BY DEF Write
<1>2. match \in CryptoBattleState /\ m \in CryptoBattleState
  BY DEF Inv, InvOf, Settled, Sound
<1>3. \A t \in Teams : match.count[t] \in Nat /\ m.count[t] \in Nat /\ match.count[t] <= m.count[t]
  BY <1>2, RowFields DEF Evolves
<1>4. ASSUME NEW c \in closed PROVE c \in Teams \X Nat /\ c[2] < m.count[c[1]]
  BY <1>3 DEF Inv, InvOf
<1>5. ASSUME NEW c \in gone PROVE c \in Teams \X Nat /\ c[2] < m.count[c[1]]
  <2>1. PICK o \in match.orders \cup m.orders : c = <<o.team, o.seq>>
    BY DEF Ids
  <2>2. o.team \in Teams /\ o.seq \in Nat
    BY <1>2, <2>1, OrderFields
  <2>3. o.seq < match.count[o.team] \/ o.seq < m.count[o.team]
    BY <2>1 DEF Inv, InvOf, Settled, Sound, Numbered
  <2>4. o.seq < m.count[o.team]
    BY <1>3, <2>2, <2>3
  <2> QED BY <2>1, <2>2, <2>4
<1>6. ASSUME NEW c \in Ids(OpenOrders(m)), c \in closed PROVE FALSE
  BY <1>6 DEF Ids, Inv, InvOf, Evolves
<1>7. Ids(OpenOrders(m)) \cap (closed \cup gone) = {}
  BY <1>6
<1>8. InvOf(m, closed \cup gone)
  BY <1>4, <1>5, <1>7 DEF InvOf
<1> QED BY <1>1, <1>8 DEF Inv

\* What an operation leaves alone in the row.
SameRow(m, n) ==
    /\ n.count = m.count /\ n.start = m.start /\ n.timing = m.timing /\ n.now = m.now
    /\ n.next = m.next /\ n.phase = m.phase /\ n.awarded = m.awarded

LEMMA StoreKeeps ==
    ASSUME Inv, Started(match), match.phase # "ended", NEW n, Sound(n), Evolves(match, n), Tied(n),
           Alive(n), SameRow(match, n), Store(n)
    PROVE  Inv'
<1>1. Settled(match) /\ match \in CryptoBattleState /\ n \in CryptoBattleState
  BY DEF Inv, InvOf, Settled, Sound
<1>2. Started(n) /\ End(n) = End(match) /\ BoundaryAt(n) = BoundaryAt(match)
  BY DEF SameRow, Started, End, BoundaryAt
<1>3. Rested(n)
  BY <1>1, <1>2 DEF SameRow, Settled, Rested, IsDue
<1>6. Timely(n)
  BY <1>1, <1>2 DEF SameRow, Settled, Timely, Now
<1>4. Fits(n)
  BY <1>1, <1>2, <1>3, <1>6 DEF SameRow, Settled, Fits
<1>5. Settled(SettleLightning(n)) /\ Evolves(n, SettleLightning(n))
  BY <1>4, FitsSettles
<1>7. Evolves(match, SettleLightning(n))
  BY <1>1, <1>5, EvolvesOn DEF Settled, Sound
<1> QED BY <1>5, <1>7, WriteKeeps DEF Store

\* An operation that edits orders and leaves the cards to be settled.
LEMMA EditKeeps ==
    ASSUME Inv, Started(match), match.phase # "ended", NEW n \in CryptoBattleState,
           NEW f, Revises(match, n, f), SameRow(match, n), n.cards = match.cards, Store(n)
    PROVE  Inv'
<1>1. Sound(match) /\ Held(match) /\ match \in CryptoBattleState
  BY DEF Inv, InvOf, Settled, Sound
<1>2. Sound(n) /\ Evolves(match, n)
  BY <1>1, Revised DEF SameRow
<1>3. Tied(n)
  BY <1>1, RevisedTied DEF SameRow
<1>4. Alive(n)
  <2>1. Alive(match) /\ Now(n) = Now(match)
    BY DEF Inv, InvOf, Settled, SameRow, Now
  <2>2. \A q \in OpenOrders(n) : \E o \in OpenOrders(match) : q.expires = o.expires
    BY DEF Revises, Twin, OpenOrders
  <2> QED BY <2>1, <2>2 DEF Alive
<1> QED BY <1>2, <1>3, <1>4, StoreKeeps

\* An operation on one order.  A duel closes with its twin or not at all.
LEMMA ReplaceKeeps ==
    ASSUME Inv, Started(match), match.phase # "ended", NEW o \in match.orders, NEW p \in Contract,
           Twin(o, p), IsOpen(o), o.task = "duel" => IsOpen(p),
           NEW n \in CryptoBattleState, n.orders = (match.orders \ {o}) \cup {p},
           SameRow(match, n), n.cards = match.cards, Store(n)
    PROVE  Inv'
<1> DEFINE f == [q \in match.orders |-> IF q = o THEN p ELSE q]
<1>1. match \in CryptoBattleState
  BY DEF Inv, InvOf, Settled, Sound
<1>2. \A q \in match.orders : q \in Contract
  BY <1>1, OrderFields
<1>3. f \in [match.orders -> Contract]
  BY <1>2
<1>4. n.orders = {f[q] : q \in match.orders}
  OBVIOUS
<1>5. ASSUME NEW q \in match.orders PROVE Twin(q, f[q]) /\ (IsOpen(f[q]) => IsOpen(q))
  BY DEF Twin
<1>6. ASSUME NEW a \in OpenOrders(match), NEW b \in OpenOrders(match), a.task = "duel", Twins(a, b)
      PROVE  IsOpen(f[b])
  BY <1>6 DEF Twins, OpenOrders
<1> HIDE DEF f
<1>7. Revises(match, n, f)
  BY <1>3, <1>4, <1>5, <1>6 DEF Revises
<1> QED BY <1>7, EditKeeps

LEMMA EarnType ==
    ASSUME NEW m \in CryptoBattleState, NEW t \in Teams, NEW points \in Int
    PROVE  LET n == Earn(m, t, points)
           IN  /\ n \in CryptoBattleState /\ SameRow(m, n) /\ n.cards = m.cards
               /\ n.orders = m.orders /\ n.disclosed = m.disclosed
<1> DEFINE score == [m.score EXCEPT ![t] = Floored(@ + points)]
           n == Earn(m, t, points)
<1>1. m.score \in [Teams -> Nat]
  BY RowFields
<1>2. Floored(m.score[t] + points) \in Nat
  BY <1>1, FlooredType
<1>3. score \in [Teams -> Nat]
  BY <1>1, <1>2
<1>4. n = [m EXCEPT !.score = score]
  BY DEF Earn, CryptoBattleState
<1> HIDE DEF score, n
<1>5. n \in CryptoBattleState /\ SameRow(m, n) /\ n.cards = m.cards /\ n.orders = m.orders
      /\ n.disclosed = m.disclosed
  BY <1>3, <1>4 DEF CryptoBattleState, SameRow
<1> QED BY <1>5 DEF n

LEMMA ReplaceType ==
    ASSUME NEW m \in CryptoBattleState, NEW o \in m.orders, NEW p \in Contract
    PROVE  LET n == Replace(m, o, p)
           IN  /\ n \in CryptoBattleState /\ SameRow(m, n) /\ n.cards = m.cards
               /\ n.orders = (m.orders \ {o}) \cup {p} /\ n.disclosed = m.disclosed
<1> DEFINE orders == (m.orders \ {o}) \cup {p}
           n == Replace(m, o, p)
<1>1. orders \in SUBSET Contract
  BY RowFields
<1>2. n = [m EXCEPT !.orders = orders]
  BY DEF Replace, CryptoBattleState
<1> HIDE DEF orders, n
<1>3. n \in CryptoBattleState /\ SameRow(m, n) /\ n.cards = m.cards /\ n.orders = orders
      /\ n.disclosed = m.disclosed
  BY <1>1, <1>2 DEF CryptoBattleState, SameRow
<1> QED BY <1>3 DEF n, orders

\* An answer, right or wrong, and what it earns or costs.
LEMMA AnswerKeeps ==
    ASSUME Inv, Started(match), match.phase # "ended", NEW o \in match.orders, NEW p \in Contract,
           Twin(o, p), IsOpen(o), o.task = "duel" => IsOpen(p), NEW points \in Int,
           Store(Earn(Replace(match, o, p), o.team, points))
    PROVE  Inv'
<1> DEFINE a == Replace(match, o, p)
           n == Earn(a, o.team, points)
<1>1. match \in CryptoBattleState /\ o.team \in Teams
  BY OrderFields DEF Inv, InvOf, Settled, Sound
<1>2. a \in CryptoBattleState /\ SameRow(match, a) /\ a.cards = match.cards
      /\ a.orders = (match.orders \ {o}) \cup {p}
  BY <1>1, ReplaceType
<1> HIDE DEF a
<1>3. n \in CryptoBattleState /\ SameRow(a, n) /\ n.cards = a.cards /\ n.orders = a.orders
  BY <1>1, <1>2, EarnType
<1>4. Store(n)
  BY DEF a
<1> HIDE DEF n
<1>5. SameRow(match, n)
  BY <1>2, <1>3 DEF SameRow
<1> QED BY <1>2, <1>3, <1>4, <1>5, ReplaceKeeps

LEMMA MarkKeeps ==
    ASSUME Inv, Started(match), match.phase # "ended", NEW o \in match.orders, NEW p \in Contract,
           Twin(o, p), IsOpen(o), o.task = "duel" => IsOpen(p), Store(Replace(match, o, p))
    PROVE  Inv'
<1> DEFINE n == Replace(match, o, p)
<1>1. match \in CryptoBattleState
  BY DEF Inv, InvOf, Settled, Sound
<1>2. n \in CryptoBattleState /\ SameRow(match, n) /\ n.cards = match.cards
      /\ n.orders = (match.orders \ {o}) \cup {p}
  BY <1>1, ReplaceType
<1>3. Store(n)
  OBVIOUS
<1> HIDE DEF n
<1> QED BY <1>2, <1>3, ReplaceKeeps

-----------------------------------------------------------------------------
(* Each operation keeps the invariant.                                      *)

LEMMA TaskMethods ==
    /\ Methods("duel") = {"duel"}
    /\ \A task \in Tasks : "duel" \in Methods(task) => task = "duel"
BY DEF Methods, Tasks

\* What an operation may assume.
LEMMA InvFields ==
    ASSUME Inv
    PROVE  /\ match \in CryptoBattleState /\ Sound(match) /\ Held(match) /\ Settled(match)
           /\ \A o \in match.orders : /\ o \in Contract /\ o.team \in Teams /\ o.task \in Tasks
                                      /\ Points(o) \in Nat /\ Bonus(o) \in Nat /\ Reward(o) \in Nat
<1>1. match \in CryptoBattleState /\ Sound(match) /\ Held(match) /\ Settled(match)
  BY DEF Inv, InvOf, Settled, Sound
<1>2. ASSUME NEW o \in match.orders
      PROVE  /\ o \in Contract /\ o.team \in Teams /\ o.task \in Tasks
             /\ Points(o) \in Nat /\ Bonus(o) \in Nat /\ Reward(o) \in Nat
  BY <1>1, OrderFields, RowFields DEF LightningCard, Bonus, Reward
<1> QED BY <1>1, <1>2

LEMMA LeakKeeps ==
    ASSUME Inv, NEW o \in match.orders, Leak(o)
    PROVE  Inv'
<1> DEFINE p == Complete(o, "leak")
           points == IF o.task = "disclose" THEN Points(o) ELSE LeakPoints
           a == Replace(match, o, p)
           paid == Earn(a, o.team, points)
           n == IF o.task = "disclose" THEN [paid EXCEPT !.disclosed[o.team] = TRUE] ELSE paid
<1>1. /\ match \in CryptoBattleState /\ o \in Contract /\ o.team \in Teams /\ points \in Int
      /\ o.task \in Tasks
  BY InvFields, AmountsAssumption
<1>2. Started(match) /\ match.phase # "ended" /\ IsOpen(o) /\ "leak" \in Methods(o.task) /\ Store(n)
  BY DEF Leak, Playing, Accepts
<1>3. o.task # "duel"
  BY <1>2, TaskMethods
<1>4. p \in Contract /\ Twin(o, p)
  BY <1>1 DEF Complete, Contract, Answers, Twin
<1> HIDE DEF p, points
<1>5. a \in CryptoBattleState /\ SameRow(match, a) /\ a.cards = match.cards
      /\ a.orders = (match.orders \ {o}) \cup {p}
  BY <1>1, <1>4, ReplaceType
<1> HIDE DEF a
<1>6. paid \in CryptoBattleState /\ SameRow(a, paid) /\ paid.cards = a.cards
      /\ paid.orders = a.orders
  BY <1>1, <1>5, EarnType
<1> HIDE DEF paid
<1>7. n \in CryptoBattleState /\ SameRow(paid, n) /\ n.cards = paid.cards /\ n.orders = paid.orders
  <2>1. CASE o.task = "disclose"
    <3> DEFINE disclosed == [paid.disclosed EXCEPT ![o.team] = TRUE]
    <3>1. disclosed \in [Teams -> BOOLEAN]
      BY <1>1, <1>6 DEF CryptoBattleState
    <3>2. n = [paid EXCEPT !.disclosed = disclosed]
      BY <1>6, <2>1 DEF CryptoBattleState
    <3> HIDE DEF disclosed, n
    <3> QED BY <1>6, <3>1, <3>2 DEF CryptoBattleState, SameRow
  <2>2. CASE o.task # "disclose"
    BY <1>6, <2>2 DEF SameRow
  <2> QED BY <2>1, <2>2
<1> HIDE DEF n
<1>8. SameRow(match, n) /\ n.cards = match.cards /\ n.orders = (match.orders \ {o}) \cup {p}
  BY <1>5, <1>6, <1>7 DEF SameRow
<1> QED BY <1>2, <1>3, <1>4, <1>7, <1>8, ReplaceKeeps

LEMMA SolveKeeps ==
    ASSUME Inv, NEW o \in match.orders, NEW method \in {"cipher", "calc", "evolve"},
           Solve(o, method)
    PROVE  Inv'
<1> DEFINE tried == o.tried \/ method = "evolve"
           p == [Complete(o, method) EXCEPT !.tried = tried]
<1>1. o \in Contract /\ o.task \in Tasks /\ Reward(o) \in Int
  BY InvFields
<1>2. Started(match) /\ match.phase # "ended" /\ IsOpen(o) /\ method \in Methods(o.task)
  BY DEF Solve, Playing, Accepts
<1>3. o.task # "duel"
  BY <1>2, TaskMethods
<1>4. Complete(o, method).tried = o.tried
  BY <1>1 DEF Complete, Contract
<1>5. Store(Earn(Replace(match, o, p), o.team, Reward(o)))
  BY <1>4 DEF Solve, Complete
<1>6. tried \in BOOLEAN
  OBVIOUS
<1> HIDE DEF tried
<1>7. p \in Contract /\ Twin(o, p)
  BY <1>1, <1>6 DEF Complete, Contract, Answers, Twin
<1> HIDE DEF p
<1> QED BY <1>1, <1>2, <1>3, <1>5, <1>7, AnswerKeeps

LEMMA MissKeeps ==
    ASSUME Inv, NEW o \in match.orders, MissCipher(o) \/ MissEvolve(o)
    PROVE  Inv'
<1>1. o \in Contract /\ -WrongProve \in Int
  BY InvFields, HintsAssumption
<1>2. Started(match) /\ match.phase # "ended" /\ IsOpen(o) /\ o.task # "duel"
  BY DEF MissCipher, MissEvolve, Playing
<1>3. CASE MissCipher(o)
  <2> DEFINE p == [o EXCEPT !.failed = TRUE]
  <2>1. p \in Contract /\ Twin(o, p)
    BY <1>1 DEF Contract, Twin
  <2>2. Store(Earn(Replace(match, o, p), o.team, -WrongProve))
    BY <1>3 DEF MissCipher
  <2> HIDE DEF p
  <2> QED BY <1>1, <1>2, <2>1, <2>2, AnswerKeeps
<1>4. CASE MissEvolve(o)
  <2> DEFINE p == [o EXCEPT !.tried = TRUE]
  <2>1. p \in Contract /\ Twin(o, p)
    BY <1>1 DEF Contract, Twin
  <2>2. Store(Earn(Replace(match, o, p), o.team, -WrongProve))
    BY <1>4 DEF MissEvolve
  <2> HIDE DEF p
  <2> QED BY <1>1, <1>2, <2>1, <2>2, AnswerKeeps
<1> QED BY <1>3, <1>4

LEMMA ProofKeeps ==
    ASSUME Inv, NEW o \in match.orders, ProofCommit(o) \/ ProofHit(o) \/ ProofMiss(o)
    PROVE  Inv'
<1>1. /\ o \in Contract /\ o.task \in Tasks /\ -WrongProve \in Int
      /\ Points(o) \in Nat /\ Bonus(o) \in Nat
  BY InvFields, HintsAssumption
<1>2. Started(match) /\ match.phase # "ended" /\ IsOpen(o) /\ "prove" \in Methods(o.task)
  BY DEF ProofCommit, ProofHit, ProofMiss, Playing, Accepts
<1>3. o.task # "duel"
  BY <1>2, TaskMethods
<1>4. CASE ProofCommit(o)
  <2> DEFINE p == [o EXCEPT !.tried = TRUE, !.step = "committed"]
  <2>1. p \in Contract /\ Twin(o, p)
    BY <1>1 DEF Contract, Twin
  <2>2. Store(Replace(match, o, p))
    BY <1>4 DEF ProofCommit
  <2> HIDE DEF p
  <2> QED BY <1>2, <1>3, <2>1, <2>2, MarkKeeps
<1>5. CASE ProofHit(o)
  <2> DEFINE p == [Complete(o, "prove") EXCEPT !.step = "proved"]
             points == Points(o) + Bonus(o)
  <2>0. points \in Int
    BY <1>1
  <2>1. p \in Contract /\ Twin(o, p)
    BY <1>1 DEF Complete, Contract, Answers, Twin
  <2>2. Store(Earn(Replace(match, o, p), o.team, points))
    BY <1>5 DEF ProofHit
  <2> HIDE DEF p, points
  <2> QED BY <1>2, <1>3, <2>0, <2>1, <2>2, AnswerKeeps
<1>6. CASE ProofMiss(o)
  <2> DEFINE missed == [o EXCEPT !.step = "missed"]
             p == IF Methods(o.task) = {"prove"} THEN Complete(missed, "prove") ELSE missed
  <2>1. missed \in Contract /\ Twin(o, missed)
    BY <1>1 DEF Contract, Twin
  <2>2. Complete(missed, "prove") \in Contract /\ Twin(o, Complete(missed, "prove"))
    <3> HIDE DEF missed
    <3> QED BY <2>1 DEF Complete, Contract, Answers, Twin
  <2>3. p \in Contract /\ Twin(o, p)
    BY <2>1, <2>2
  <2>4. Store(Earn(Replace(match, o, p), o.team, -WrongProve))
    BY <1>6 DEF ProofMiss
  <2> HIDE DEF p
  <2> QED BY <1>1, <1>2, <1>3, <2>3, <2>4, AnswerKeeps
<1> QED BY <1>4, <1>5, <1>6

LEMMA DuelStepKeeps ==
    ASSUME Inv, NEW o \in match.orders, Seal(o) \/ Open(o)
    PROVE  Inv'
<1>1. o \in Contract
  BY InvFields
<1>2. Started(match) /\ match.phase # "ended" /\ IsOpen(o)
  BY DEF Seal, Open, DuelOpen, Playing, Accepts
<1>3. ASSUME NEW step \in {"sealed", "opened"}, Store(Replace(match, o, [o EXCEPT !.step = step]))
      PROVE  Inv'
  <2> DEFINE p == [o EXCEPT !.step = step]
  <2>1. p \in Contract /\ Twin(o, p) /\ p.status = o.status
    BY <1>1 DEF Contract, Twin
  <2>2. IsOpen(p)
    BY <1>2, <2>1 DEF IsOpen
  <2>3. Store(Replace(match, o, p))
    BY <1>3
  <2> HIDE DEF p
  <2> QED BY <1>2, <2>1, <2>2, <2>3, MarkKeeps
<1> QED BY <1>3 DEF Seal, Open

LEMMA HintKeeps ==
    ASSUME Inv, NEW o \in match.orders, Hint(o)
    PROVE  Inv'
<1> DEFINE p == [o EXCEPT !.hints = @ + 1]
           price == HintPrice(o.team, o.hints + 1)
<1>1. o \in Contract
  BY InvFields
<1>2. Started(match) /\ match.phase # "ended" /\ IsOpen(o) /\ o.hints < Len(HintCosts)
  BY DEF Hint, Playing
<1>3. HintCosts \in Seq(Nat) /\ Len(HintCosts) \in Nat /\ o.hints \in 0..Len(HintCosts)
  BY <1>1, HintsAssumption DEF Contract
<1>4. o.hints + 1 \in 1..Len(HintCosts)
  BY <1>2, <1>3
<1>5. HintCosts[o.hints + 1] \in Nat
  BY <1>3, <1>4, ElementOfSeq
<1>6. -price \in Int
  BY <1>5 DEF HintPrice
<1>7. p \in Contract /\ Twin(o, p) /\ p.status = o.status
  BY <1>1, <1>4 DEF Contract, Twin
<1>8. IsOpen(p)
  BY <1>2, <1>7 DEF IsOpen
<1>9. Store(Earn(Replace(match, o, p), o.team, -price))
  BY DEF Hint
<1> HIDE DEF p, price
<1> QED BY <1>2, <1>6, <1>7, <1>8, <1>9, AnswerKeeps

\* The second opening closes both sides of the duel, and no other order.
LEMMA OpenBothKeeps ==
    ASSUME Inv, NEW o \in match.orders, NEW r \in Outcomes, OpenBoth(o, r[1], r[2])
    PROVE  Inv'
<1> DEFINE new(p) == IF p \in ClosedBy(o) THEN [Complete(p, "duel") EXCEPT !.step = "opened"] ELSE p
           f == [p \in match.orders |-> new(p)]
           orders == {f[p] : p \in match.orders}
           a == [match EXCEPT !.orders = orders]
           b == Earn(a, o.team, r[1])
           n == Earn(b, o.opp, r[2])
<1>1. /\ match \in CryptoBattleState /\ Sound(match) /\ o.team \in Teams /\ o.task \in Tasks
      /\ \A p \in match.orders : p \in Contract
  BY InvFields
<1>2. /\ Started(match) /\ match.phase # "ended" /\ IsOpen(o) /\ "duel" \in Methods(o.task)
      /\ \E p \in OpponentOrder(match, o) : IsOpen(p)
      /\ \A p \in OpponentOrder(match, o) : p.step = "opened"
  BY DEF OpenBoth, Playing, DuelOpen, Accepts
<1>3. o.task = "duel" /\ o \in OpenOrders(match)
  BY <1>1, <1>2, TaskMethods DEF OpenOrders
<1>4. PICK twin \in OpenOrders(match) : Twins(o, twin)
  BY <1>1, <1>3 DEF Sound, Paired
<1>5. twin \in match.orders /\ IsOpen(twin) /\ twin.team = o.opp /\ twin.seq = o.seq
      /\ twin.opp = o.team
  BY <1>4 DEF OpenOrders, Twins
<1>6. \A p \in OpponentOrder(match, o) : p = twin
  BY <1>1, <1>5 DEF OpponentOrder, Sound, Numbered
<1>7. o.opp \in Teams
  BY <1>1, <1>5, OrderFields
<1>8. r[1] \in Int /\ r[2] \in Int
  BY AmountsAssumption, HintsAssumption DEF Outcomes
<1>9. ASSUME NEW p \in match.orders
      PROVE  /\ new(p) \in Contract /\ Twin(p, new(p)) /\ (IsOpen(new(p)) => IsOpen(p))
             /\ p \in ClosedBy(o) \/ new(p) = p
  <2>1. p \in Contract
    BY <1>1
  <2>2. CASE p \in ClosedBy(o)
    <3>1. new(p) = [Complete(p, "duel") EXCEPT !.step = "opened"]
      BY <2>2
    <3> HIDE DEF new
    <3> QED BY <2>1, <2>2, <3>1 DEF Complete, Contract, Answers, Twin, IsOpen
  <2>3. CASE p \notin ClosedBy(o)
    BY <2>1, <2>3 DEF Twin
  <2> QED BY <2>2, <2>3
<1>10. \A p \in match.orders : p \in ClosedBy(o) => ~IsOpen(new(p))
  <2> SUFFICES ASSUME NEW p \in match.orders, p \in ClosedBy(o) PROVE ~IsOpen(new(p))
    OBVIOUS
  <2>1. new(p) = [Complete(p, "duel") EXCEPT !.step = "opened"] /\ p \in Contract
    BY <1>1
  <2> HIDE DEF new
  <2> QED BY <2>1 DEF Complete, Contract, IsOpen
<1>11. [match EXCEPT !.orders = {new(p) : p \in @}] = [match EXCEPT !.orders = {new(p) : p \in match.orders}]
  BY <1>1 DEF CryptoBattleState
<1>12. Store(Earn(Earn([match EXCEPT !.orders = {new(p) : p \in match.orders}], o.team, r[1]), o.opp, r[2]))
  BY <1>11 DEF OpenBoth
<1> HIDE DEF new
<1>13. {new(p) : p \in match.orders} = orders
  OBVIOUS
<1>14. f \in [match.orders -> Contract] /\ \A p \in match.orders : f[p] = new(p)
  BY <1>9
<1>15. orders \in SUBSET Contract
  BY <1>9
<1> HIDE DEF f, orders
<1>16. /\ a \in CryptoBattleState /\ SameRow(match, a) /\ a.cards = match.cards
       /\ a.orders = orders
  BY <1>1, <1>15 DEF CryptoBattleState, SameRow
<1>17. Store(n)
  BY <1>12, <1>13
<1> HIDE DEF a
<1>18. b \in CryptoBattleState /\ SameRow(a, b) /\ b.cards = a.cards /\ b.orders = a.orders
  BY <1>1, <1>8, <1>16, EarnType
<1> HIDE DEF b
<1>19. n \in CryptoBattleState /\ SameRow(b, n) /\ n.cards = b.cards /\ n.orders = b.orders
  BY <1>7, <1>8, <1>18, EarnType
<1> HIDE DEF n
<1>20. SameRow(match, n) /\ n.cards = match.cards /\ n.orders = orders
  BY <1>16, <1>18, <1>19 DEF SameRow
<1>21. ASSUME NEW x \in OpenOrders(match), NEW y \in OpenOrders(match), x.task = "duel",
              IsOpen(f[x]), Twins(x, y)
       PROVE  IsOpen(f[y])
  <2>1. x \in match.orders /\ y \in match.orders /\ IsOpen(y)
    BY DEF OpenOrders
  <2>2. x \notin ClosedBy(o)
    BY <1>10, <1>14, <1>21, <2>1
  <2>3. y # o
    BY <1>21, <2>1, <2>2 DEF Twins, ClosedBy, OpponentOrder
  <2>4. y # twin
    BY <1>1, <1>5, <1>21, <2>1, <2>2 DEF Twins, Sound, Numbered, ClosedBy
  <2>5. y \notin ClosedBy(o)
    BY <1>6, <2>3, <2>4 DEF ClosedBy
  <2> QED BY <1>9, <1>14, <2>1, <2>5
<1>22. Revises(match, n, f)
  BY <1>20, <1>9, <1>14, <1>21 DEF orders, Revises
<1> QED BY <1>2, <1>17, <1>19, <1>20, <1>22, EditKeeps

\* A card is declared on an open order, at twice its price and with its deadline.
LEMMA DeclareKeeps ==
    ASSUME Inv, NEW o \in match.orders, Declare(o)
    PROVE  Inv'
<1> DEFINE card == [st |-> "armed", seq |-> o.seq, points |-> 2 * Points(o),
                    expires |-> o.expires, result |-> "none"]
           cards == [match.cards EXCEPT ![o.team] = card]
           n == [match EXCEPT !.cards = cards]
<1>1. match \in CryptoBattleState /\ Sound(match) /\ Held(match) /\ match.cards \in [Teams -> LightningCard]
  BY InvFields, RowFields
<1>2. Started(match) /\ match.phase # "ended"
  BY DEF Declare, Playing
<1>3. o.team \in Teams /\ o.seq \in Nat /\ o.expires \in Nat /\ Points(o) \in Nat
  BY <1>1, OrderFields
<1>4. 2 * Points(o) \in Nat
  BY <1>3
<1>5. card \in LightningCard
  BY <1>3, <1>4 DEF LightningCard, Optional
<1>6. card.st = "armed" /\ Stake(card, o.team, o)
  BY DEF Stake
<1>7. Store(n)
  <2>1. n = [match EXCEPT !.cards[o.team] = card]
    BY <1>1 DEF CryptoBattleState
  <2> QED BY <2>1 DEF Declare
<1> HIDE DEF card
<1>8. cards \in [Teams -> LightningCard] /\ cards[o.team] = card
      /\ \A t \in Teams : t # o.team => cards[t] = match.cards[t]
  BY <1>1, <1>3, <1>5
<1> HIDE DEF cards
<1>9. n \in CryptoBattleState /\ SameRow(match, n) /\ n.cards = cards /\ n.orders = match.orders
  BY <1>1, <1>8 DEF CryptoBattleState, SameRow
<1> HIDE DEF n
<1>10. OpenOrders(n) = OpenOrders(match) /\ End(n) = End(match)
  BY <1>9 DEF OpenOrders, SameRow, End
<1>11. Sound(n)
  BY <1>1, <1>9, <1>10 DEF Sound, SameRow, Numbered, Deadlines, Paired, Roomy, OpenCount
<1>12. Evolves(match, n)
  BY <1>1, <1>9, EvolvesSame DEF SameRow
<1>14. Named(n)
  BY <1>3, <1>6, <1>8, AmountsAssumption, <1>1, <1>9 DEF Stake, Held, Named
<1>15. Alive(n)
  BY <1>9, <1>10 DEF Inv, InvOf, Settled, SameRow, Alive, Now, Started
<1>13. Tied(n)
  BY <1>9, <1>14, <1>6, <1>8, <1>1 DEF Tied, Held, OpenOrders
<1> QED BY <1>2, <1>7, <1>9, <1>11, <1>12, <1>13, <1>15, StoreKeeps

\* What is voided is no duel.
LEMMA RotateKeeps ==
    ASSUME Inv, NEW t \in Teams, Rotate(t)
    PROVE  Inv'
<1> DEFINE new(o) == IF o \in Voided(t)
                     THEN [o EXCEPT !.status = "expired", !.how = "rotate"] ELSE o
           f == [o \in match.orders |-> new(o)]
           orders == {f[o] : o \in match.orders}
           gen == [match.gen EXCEPT ![t] = @ + 1]
           rotated == [match.rotated EXCEPT ![t] = match.now]
           disclosed == [match.disclosed EXCEPT ![t] = FALSE]
           a == [match EXCEPT !.gen = gen, !.rotated = rotated, !.disclosed = disclosed,
                              !.orders = orders]
           penalty == RotationPenalty(t)
           n == Earn(a, t, -penalty)
<1>1. /\ match \in CryptoBattleState /\ Sound(match) /\ Settled(match)
      /\ \A o \in match.orders : o \in Contract
  BY InvFields
<1>2. Started(match) /\ match.phase # "ended" /\ match.now \in Nat
  BY <1>1 DEF Rotate, Playing, Settled
<1>3. /\ match.gen \in [Teams -> Nat \ {0}] /\ match.rotated \in [Teams -> Optional(Nat)]
      /\ match.disclosed \in [Teams -> BOOLEAN]
  BY <1>1 DEF CryptoBattleState
<1>4. -penalty \in Int
  <2> DEFINE count == Cardinality(Voided(t))
  <2>1. Voided(t) \in SUBSET match.orders
    BY DEF Voided, OpenOrders
  <2>2. count \in Nat
    BY <1>1, <2>1, FS_Subset, FS_CardinalityType DEF Sound
  <2>3. penalty = Greatest(IF match.disclosed[t] THEN ExpiredOrder ELSE 0, ExpiredOrder * count)
    BY DEF RotationPenalty
  <2> HIDE DEF count, penalty
  <2>4. ExpiredOrder * count \in Int /\ ExpiredOrder \in Int
    BY <2>2, AmountsAssumption
  <2>5. penalty \in Int
    BY <2>3, <2>4 DEF Greatest
  <2> QED BY <2>5
<1>5. ASSUME NEW o \in match.orders
      PROVE  /\ new(o) \in Contract /\ Twin(o, new(o)) /\ (IsOpen(new(o)) => IsOpen(o))
             /\ o.task = "duel" => new(o) = o
  <2>1. o \in Contract
    BY <1>1
  <2>2. CASE o \in Voided(t)
    <3>1. new(o) = [o EXCEPT !.status = "expired", !.how = "rotate"] /\ o.task # "duel"
      BY <2>2 DEF Voided
    <3> HIDE DEF new
    <3> QED BY <2>1, <3>1 DEF Contract, Twin, IsOpen
  <2>3. CASE o \notin Voided(t)
    BY <2>1, <2>3 DEF Twin
  <2> QED BY <2>2, <2>3
<1>6. /\ gen \in [Teams -> Nat \ {0}] /\ rotated \in [Teams -> Optional(Nat)]
      /\ disclosed \in [Teams -> BOOLEAN]
  BY <1>2, <1>3 DEF Optional
<1>7. Store(Earn([match EXCEPT !.gen = gen, !.rotated = rotated, !.disclosed = disclosed,
                               !.orders = {new(o) : o \in match.orders}], t, -penalty))
  BY <1>1 DEF Rotate, CryptoBattleState
<1> HIDE DEF new, gen, rotated, disclosed, penalty
<1>8. {new(o) : o \in match.orders} = orders
  OBVIOUS
<1>9. f \in [match.orders -> Contract] /\ \A o \in match.orders : f[o] = new(o)
  BY <1>5
<1>10. orders \in SUBSET Contract
  BY <1>5
<1> HIDE DEF f, orders
<1>11. a \in CryptoBattleState /\ SameRow(match, a) /\ a.cards = match.cards /\ a.orders = orders
  BY <1>1, <1>6, <1>10 DEF CryptoBattleState, SameRow
<1>12. Store(n)
  BY <1>7, <1>8
<1> HIDE DEF a
<1>13. n \in CryptoBattleState /\ SameRow(a, n) /\ n.cards = a.cards /\ n.orders = a.orders
  BY <1>4, <1>11, EarnType
<1> HIDE DEF n
<1>14. SameRow(match, n) /\ n.cards = match.cards /\ n.orders = orders
  BY <1>11, <1>13 DEF SameRow
<1>15. ASSUME NEW x \in OpenOrders(match), NEW y \in OpenOrders(match), Twins(x, y)
       PROVE  IsOpen(f[y])
  BY <1>5, <1>9, <1>15 DEF Twins, OpenOrders
<1>16. Revises(match, n, f)
  BY <1>14, <1>5, <1>9, <1>15 DEF orders, Revises
<1> QED BY <1>2, <1>12, <1>13, <1>14, <1>16, EditKeeps

LEMMA StartKeeps ==
    ASSUME Inv, Start \/ \E t \in Teams : Ready(t)
    PROVE  Inv'
<1>1. match \in CryptoBattleState /\ Settled(match) /\ ~Started(match)
  BY InvFields DEF Ready, Start, Waits
<1>2. ASSUME NEW m, Settled(m), Evolves(match, m), Store(m) PROVE Inv'
  BY <1>2, SettledAgain, <1>1, EvolvesOn, WriteKeeps DEF Settled, Sound, Store
<1>3. ASSUME NEW t \in Teams, Ready(t) PROVE Inv'
  BY <1>1, ReadySettles, <1>2, <1>3 DEF Ready
<1>4. CASE Start
  BY <1>1, StartSettles, <1>2, <1>4 DEF Start
<1> QED BY <1>3, <1>4

LEMMA TicksKeep ==
    ASSUME Inv, Ticks
    PROVE  Inv'
<1>1. match \in CryptoBattleState /\ Settled(match)
  BY InvFields
<1>2. Clock \in Nat
  BY <1>1, RowFields DEF Clock
<1>3. PICK at \in Clock..Least(Clock + MaxSkip, Horizon), reported \in Reports \cup {None} :
         TickAt(at, reported)
  BY DEF Ticks
<1>4. at \in Nat /\ reported \in Int \cup {None}
  BY <1>2, HorizonAssumption, <1>3 DEF Least
<1>6. reported # None => reported >= at \/ reported <= 0
  BY <1>3 DEF TickAt
<1>5. Settled(Tick(match, at, reported)) /\ Evolves(match, Tick(match, at, reported))
  BY <1>1, <1>4, <1>6, TickSettles
<1> QED BY <1>3, <1>5, WriteKeeps DEF TickAt

LEMMA InitHolds ==
    ASSUME Init
    PROVE  Inv
<1>1. PICK seed \in DOMAIN Seeds : match = InitialMatch(seed)
  BY DEF Init
<1>2. /\ match.orders = {} /\ match.start = None /\ match.phase = "waiting"
      /\ \A t \in Teams : match.count[t] = 0 /\ match.cards[t].st = "none"
      /\ ~match.awarded
  BY <1>1 DEF InitialMatch, NoCard
<1>3. NoCard \in LightningCard
  BY DEF NoCard, LightningCard, Optional
<1>4. match \in CryptoBattleState
  BY <1>1, <1>3, AmountsAssumption DEF InitialMatch, CryptoBattleState, Phases, Optional
<1>5. ~Started(match) /\ OpenOrders(match) = {}
  BY <1>2 DEF Started, OpenOrders
<1>8. Roomy(match)
  BY <1>5, FS_EmptySet, PaceAssumption DEF Roomy, OpenCount
<1>6. Sound(match) /\ Held(match)
  BY <1>2, <1>4, <1>5, <1>8, FS_EmptySet DEF Sound, Numbered, Deadlines, Paired, Held, Named
<1>7. Settled(match)
  BY <1>2, <1>5, <1>6 DEF Settled
<1> QED BY <1>5, <1>7 DEF Init, Inv, InvOf, Ids

-----------------------------------------------------------------------------
(* The theorems.                                                            *)

LEMMA StepKeeps ==
    ASSUME Inv, [Next]_vars
    PROVE  Inv'
<1>1. CASE UNCHANGED vars
  BY <1>1 DEF vars, Inv
<1>2. CASE Ticks
  BY <1>2, TicksKeep
<1>3. ASSUME NEW o \in match.orders, Hint(o) PROVE Inv'
  BY <1>3, HintKeeps
<1>4. CASE Moves
  <2>1. CASE Start \/ \E t \in Teams : Ready(t)
    BY <2>1, StartKeeps
  <2>2. ASSUME NEW t \in Teams, Rotate(t) PROVE Inv'
    BY <2>2, RotateKeeps
  <2>3. ASSUME NEW o \in match.orders, Leak(o) PROVE Inv'
    BY <2>3, LeakKeeps
  <2>4. ASSUME NEW o \in match.orders, Encrypt(o) \/ Calculate(o) \/ Evolve(o) PROVE Inv'
    BY <2>4, SolveKeeps DEF Encrypt, Calculate, Evolve
  <2>5. ASSUME NEW o \in match.orders, MissCipher(o) \/ MissEvolve(o) PROVE Inv'
    BY <2>5, MissKeeps
  <2>6. ASSUME NEW o \in match.orders, ProofCommit(o) \/ ProofHit(o) \/ ProofMiss(o) PROVE Inv'
    BY <2>6, ProofKeeps
  <2>7. ASSUME NEW o \in match.orders, Seal(o) \/ Open(o) PROVE Inv'
    BY <2>7, DuelStepKeeps
  <2>8. ASSUME NEW o \in match.orders, NEW r \in Outcomes, OpenBoth(o, r[1], r[2]) PROVE Inv'
    BY <2>8, OpenBothKeeps
  <2>9. ASSUME NEW o \in match.orders, Declare(o) PROVE Inv'
    BY <2>9, DeclareKeeps
  <2> QED BY <1>4, <2>1, <2>2, <2>3, <2>4, <2>5, <2>6, <2>7, <2>8, <2>9 DEF Moves
<1> QED BY <1>1, <1>2, <1>3, <1>4 DEF Next

LEMMA InvIsSound ==
    ASSUME Inv
    PROVE  OrdersSound
<1>1. Sound(match) /\ Held(match) /\ Settled(match)
  BY InvFields
<1>2. CardFollowsOrder
  BY <1>1 DEF CardFollowsOrder, Held, OpenOrders, OrderOf, Stake
<1>3. OrderLivesOnce
  BY DEF Inv, InvOf, OrderLivesOnce
<1>4. DuelsPaired
  BY <1>1 DEF Sound, Paired, DuelsPaired, OpponentOrder, OpenOrders, Twins
<1>5. EndSettles
  BY <1>1 DEF Settled, EndSettles
<1>6. DeadlineExact
  BY <1>1 DEF Sound, Deadlines, DeadlineExact
<1> QED BY <1>2, <1>3, <1>4, <1>5, <1>6 DEF OrdersSound

\* However often, however rarely and with whatever reports of the end the clock is looked at,
\* an order is answered once, a declared card and the other side of a duel stand and fall
\* with their order, every open deadline is the one of the present end, and the bell leaves
\* nothing undecided (reducer.ts tickAtTime, completeOrder, match-length.ts, lightning.ts).
THEOREM BeltIsSound == Spec => []OrdersSound
<1>1. Init => Inv
  BY InitHolds
<1>2. Inv /\ [Next]_vars => Inv'
  BY StepKeeps
<1>3. Inv => OrdersSound
  BY InvIsSound
<1> QED BY <1>1, <1>2, <1>3, PTL DEF Spec

\* The stored row keeps its type: no score below zero, no order numbered beyond the counter of
\* its team, no more open orders than the belt holds, and no card in play without its order's
\* number, whatever is issued, pruned and answered in between (reducer.ts issueSlot).
THEOREM BeltIsTyped == Spec => []TypeOK
<1>1. Init => Inv
  BY InitHolds
<1>2. Inv /\ [Next]_vars => Inv'
  BY StepKeeps
<1>3. Inv => TypeOK
  BY InvFields DEF TypeOK, Sound, Numbered, Roomy, Held, Named
<1> QED BY <1>1, <1>2, <1>3, PTL DEF Spec

\* The bonus hints and the cards are handed out once the boundary fixed at START is reached, in a
\* match that goes on beyond it, and never taken back by a later report of the end
\* (booster.ts, lightning.ts, reducer.ts tickEvent, match-length.ts).
THEOREM EndgameIsOnTime == Spec => []EndgameOnTime
<1>1. Init => Inv
  BY InitHolds
<1>2. Inv /\ [Next]_vars => Inv'
  BY StepKeeps
<1>3. Inv => EndgameOnTime
  <2> SUFFICES ASSUME Inv PROVE EndgameOnTime
    OBVIOUS
  <2>1. match \in CryptoBattleState /\ Settled(match)
    BY InvFields
  <2>2. match.awarded => Started(match)
    BY <2>1 DEF Settled
  <2>3. CASE Started(match)
    BY <2>1, <2>3, SettledPoised, RowFields DEF Settled, EndgameOnTime, Rested, Timely, Least
  <2>4. CASE ~Started(match)
    BY <2>2, <2>4 DEF EndgameOnTime
  <2> QED BY <2>3, <2>4
<1> QED BY <1>1, <1>2, <1>3, PTL DEF Spec

-----------------------------------------------------------------------------
(* After the bell.                                                          *)

\* Before the first deadline of an open order nothing lapses.
LEMMA NoneExpires ==
    ASSUME NEW m \in CryptoBattleState, NEW x \in Nat, \A o \in OpenOrders(m) : x < o.expires
    PROVE  ExpireRps(m, x) = m /\ ExpireOrders(m, x) = m
<1>0. [m EXCEPT !.score = m.score, !.orders = m.orders] = m
  BY DEF CryptoBattleState
<1>1. m \in CryptoBattleState /\ \A o \in OpenOrders(m) : o.expires \in Nat
  BY OrderFields DEF OpenOrders
<1>2. LapsedDuels(m, x) = {} /\ {o \in OpenOrders(m) : o.expires <= x} = {}
  BY <1>1 DEF LapsedDuels
<1>3. ExpireRps(m, x) = m
  <2> DEFINE score == [t \in Teams |-> AfterDuels(m, {}, t)]
  <2>1. ASSUME NEW t \in Teams PROVE AfterDuels(m, {}, t) = m.score[t]
    <3>1. PICK g : Pays(g, m, {}, t) /\ AfterDuels(m, {}, t) = g[m.count[t]]
      BY <1>1, AfterDuelsType
    <3> DEFINE T == {k \in Nat : g[k] = m.score[t]}
    <3>2. 0 \in T
      BY <3>1 DEF Pays
    <3>3. ASSUME NEW k \in T PROVE k + 1 \in T
      <4>1. g[k + 1] = DuelStep(m, {}, t, k, g[k])
        BY <3>1 DEF Pays
      <4>2. g[k + 1] = g[k]
        BY <4>1 DEF DuelStep
      <4> QED BY <4>2
    <3>4. T \in SUBSET Nat
      OBVIOUS
    <3> HIDE DEF T
    <3>5. T = Nat
      BY <3>2, <3>3, <3>4, NatSteps
    <3>6. m.count[t] \in T
      BY <1>1, <3>5, RowFields
    <3> QED BY <3>1, <3>6 DEF T
  <2>2. score = m.score
    BY <1>1, RowFields, <2>1
  <2>3. ExpireRps(m, x) = [m EXCEPT !.score = score, !.orders = {o : o \in m.orders}]
    BY <1>2 DEF ExpireRps
  <2> HIDE DEF score
  <2>4. {o : o \in m.orders} = m.orders
    OBVIOUS
  <2> QED BY <1>0, <2>2, <2>3, <2>4
<1>4. ExpireOrders(m, x) = m
  <2>1. Charged(m, {}) = m.score
    <3>1. m.score \in [Teams -> Nat]
      BY <1>1, RowFields
    <3>2. ASSUME NEW t \in Teams
          PROVE  Floored(m.score[t] - ExpiredOrder * Cardinality({o \in {} : o.team = t})) = m.score[t]
      BY FS_EmptySet, <3>1, AmountsAssumption DEF Floored
    <3> QED BY <3>1, <3>2 DEF Charged
  <2>2. ExpireOrders(m, x) = [m EXCEPT !.score = Charged(m, {}), !.orders = {o : o \in m.orders}]
    BY <1>2 DEF ExpireOrders
  <2>3. {o : o \in m.orders} = m.orders
    OBVIOUS
  <2> QED BY <1>0, <2>1, <2>2, <2>3
<1> QED BY <1>3, <1>4

LEMMA EndedTicks ==
    ASSUME NEW m, Settled(m), m.phase = "ended", NEW at \in Nat, m.now <= at
    PROVE  LET r == TickEvent(m, at)
           IN  /\ r.phase = "ended" /\ r.score = m.score /\ r.timing = m.timing
               /\ r.cards = m.cards
<1> DEFINE a == TickAtTime(m, at)
           turn == at >= BoundaryAt(m) /\ BoundaryAt(m) < End(m)
           r == TickEvent(m, at)
<1>1. /\ m \in CryptoBattleState /\ Started(m) /\ m.now \in Nat /\ m.now >= End(m)
      /\ OpenOrders(m) = {} /\ Rested(m)
      /\ \A t \in Teams : m.cards[t].st \notin {"available", "armed"}
  BY DEF Settled, Sound
<1>2. /\ m.start \in Nat /\ m.timing.length \in Nat /\ End(m) = m.start + m.timing.length
      /\ BoundaryAt(m) \in Nat /\ m.next \in Nat
  BY <1>1, RowFields DEF End
<1>3. ~IsDue(m, at)
  BY <1>1, <1>2 DEF Rested, IsDue
<1>4. IssueDue(m, at) = m
  BY <1>3 DEF IssueDue
<1>5. ExpireRps(m, at) = m /\ ExpireOrders(m, at) = m
  BY <1>1, NoneExpires
<1>6. a = [Prune(m, at) EXCEPT !.phase = PhaseAt(m, at - m.start), !.now = at]
  BY <1>1, <1>4, <1>5 DEF TickAtTime
<1>7. PhaseAt(m, at - m.start) = "ended"
  BY <1>1, <1>2 DEF PhaseAt
<1>8. /\ a.phase = "ended" /\ a.score = m.score /\ a.timing = m.timing /\ a.cards = m.cards
      /\ a.awarded = m.awarded /\ a.now = at
  BY <1>1, <1>6, <1>7 DEF Prune, CryptoBattleState
<1>9. r = SettleLightning(IF turn THEN Award(a) ELSE a)
  BY <1>1 DEF TickEvent
<1>10. turn => m.awarded
  BY <1>1, <1>2 DEF Rested
<1>11. r = SettleLightning(a)
  BY <1>8, <1>9, <1>10 DEF Award
<1>12. \A t \in Teams : SettledCard(a, t) = m.cards[t]
  BY <1>1, <1>8 DEF SettledCard, Stranded
<1>13. [t \in Teams |-> SettledCard(a, t)] = m.cards
  BY <1>1, <1>12, RowFields
<1>14. r = [a EXCEPT !.cards = m.cards]
  BY <1>11, <1>13 DEF SettleLightning
<1> HIDE DEF r
<1>15. r.phase = a.phase /\ r.score = a.score /\ r.timing = a.timing /\ r.cards = m.cards
  <2>1. a = [[m EXCEPT !.orders = Prune(m, at).orders] EXCEPT !.phase = "ended", !.now = at]
    BY <1>1, <1>6, <1>7 DEF Prune, CryptoBattleState
  <2> HIDE DEF a
  <2> QED BY <1>1, <1>14, <2>1 DEF CryptoBattleState
<1> QED BY <1>8, <1>15 DEF r

\* With nothing open and nothing to come, the replay is one tick.
LEMMA EndedReplays ==
    ASSUME NEW m, Settled(m), m.phase = "ended", NEW at \in Nat, m.now <= at
    PROVE  Replay(m, at) = TickEvent(m, at)
<1>1. /\ m \in CryptoBattleState /\ Started(m) /\ m.now \in Nat /\ m.now >= End(m)
      /\ OpenOrders(m) = {} /\ Rested(m)
  BY DEF Settled, Sound
<1>2. Now(m) = m.now /\ BoundaryAt(m) \in Nat /\ m.next \in Nat /\ End(m) \in Nat
  BY <1>1, RowFields, AmountsAssumption DEF Now
<1>3. NextInstant(m, at) = at
  <2> DEFINE arrivals == IF m.next >= Now(m) /\ m.next < End(m) THEN {m.next} ELSE {}
             deadlines == {e \in {o.expires : o \in OpenOrders(m)} : e > Now(m)}
             boundary == IF ~m.awarded /\ BoundaryAt(m) >= Now(m) /\ BoundaryAt(m) < End(m)
                         THEN {BoundaryAt(m)} ELSE {}
             S == {at} \cup arrivals \cup deadlines \cup boundary
  <2>1. arrivals = {} /\ boundary = {}
    BY <1>1, <1>2
  <2>2. deadlines = {}
    BY <1>1
  <2>3. NextInstant(m, at) = Min(S)
    BY DEF NextInstant
  <2> HIDE DEF arrivals, deadlines, boundary
  <2>4. S = {at}
    BY <2>1, <2>2
  <2>5. Min({at}) = at
    BY Smallest
  <2> QED BY <2>3, <2>4, <2>5
<1> DEFINE step(r) == IF NextInstant(r, at) = at THEN r ELSE TickEvent(r, NextInstant(r, at))
           Is(g) == g = [k \in Nat |-> IF k = 0 THEN m ELSE step(g[k - 1])]
           after == CHOOSE g : Is(g)
           same == [k \in Nat |-> m]
<1>4. Replayed(m, at) = after[at - Now(m)]
  BY DEF Replayed
<1>5. step(m) = m
  BY <1>3
<1> HIDE DEF step
<1>6. \A k \in Nat : k # 0 => step(same[k - 1]) = m
  BY <1>5
<1>7. same = [k \in Nat |-> IF k = 0 THEN m ELSE step(same[k - 1])]
  BY <1>6
<1>8. Is(same)
  BY <1>7
<1>9. Is(after)
  BY <1>8
<1> HIDE DEF after, same
<1> DEFINE T == {k \in Nat : after[k] = m}
<1>10. 0 \in T
  BY <1>9
<1>11. ASSUME NEW k \in T PROVE k + 1 \in T
  BY <1>9, <1>5
<1>12. T \in SUBSET Nat
  OBVIOUS
<1> HIDE DEF T
<1>13. T = Nat
  BY <1>10, <1>11, <1>12, NatSteps
<1>14. at - Now(m) \in Nat
  BY <1>1, <1>2
<1>15. Replayed(m, at) = m
  BY <1>4, <1>13, <1>14 DEF T
<1> QED BY <1>15 DEF Replay

\* A report that comes after the bell is not even recorded.
LEMMA EndedTick ==
    ASSUME NEW m, Settled(m), m.phase = "ended", NEW at \in Nat, NEW reported
    PROVE  LET r == Tick(m, at, reported)
           IN  /\ r.phase = "ended" /\ r.score = m.score /\ r.timing = m.timing
               /\ r.cards = m.cards
<1>1. Started(m) /\ m.now \in Nat
  BY DEF Settled
<1>2. CASE m.now # None /\ at < m.now
  BY <1>2 DEF Tick
<1>3. CASE ~(m.now # None /\ at < m.now)
  BY <1>1, <1>3, AmountsAssumption, EndedReplays, EndedTicks DEF WithMatchDuration, Follows,
     Tick, Advance
<1> QED BY <1>2, <1>3

LEMMA EndedStep ==
    ASSUME Inv, [Next]_vars
    PROVE  [EndStays]_vars
<1> SUFFICES ASSUME Next, match.phase = "ended" PROVE EndStays
  BY DEF EndStays
<1>1. match \in CryptoBattleState /\ Settled(match) /\ Started(match)
  BY InvFields DEF Settled
<1>2. CASE Ticks
  <2>1. Clock \in Nat
    BY <1>1, RowFields DEF Clock
  <2>2. PICK at \in Clock..Least(Clock + MaxSkip, Horizon), reported \in Reports \cup {None} :
           TickAt(at, reported)
    BY <1>2 DEF Ticks
  <2>3. at \in Nat
    BY <2>1, HorizonAssumption, <2>2 DEF Least
  <2>4. match' = Tick(match, at, reported)
    BY <2>2 DEF TickAt, Write
  <2> QED BY <1>1, <2>3, <2>4, EndedTick DEF EndStays
<1>3. ~Moves
  BY <1>1 DEF Moves, Ready, Start, Waits, Leak, Encrypt, Calculate, Evolve, Solve, MissCipher,
     MissEvolve, ProofCommit, ProofHit, ProofMiss, Seal, Open, OpenBoth, Declare, Rotate, Playing
<1>4. \A o \in match.orders : ~Hint(o)
  BY DEF Hint, Playing
<1> QED BY <1>2, <1>3, <1>4 DEF Next

\* The result is final: whatever is reported, asked or looked at after the bell, phase,
\* scores, timing and cards stay as they are (match-length.ts, reducer.ts tickAtTime).
THEOREM EndIsFinal == Spec => [][EndStays]_vars
<1>1. Init => Inv
  BY InitHolds
<1>2. Inv /\ [Next]_vars => Inv'
  BY StepKeeps
<1>3. Inv /\ [Next]_vars => [EndStays]_vars
  BY EndedStep
<1> QED BY <1>1, <1>2, <1>3, PTL DEF Spec, EndStays

-----------------------------------------------------------------------------
(* Two rows that differ in their end, and in what was pruned.               *)

\* An open order under another end.
Moved(o, e) == IF IsOpen(o) THEN [o EXCEPT !.expires = Least(o.issued + TtlOf(o), e)] ELSE o

Abreast(m, r) ==
    /\ r.seed = m.seed /\ r.start = m.start /\ r.next = m.next /\ r.count = m.count
    /\ r.duels = m.duels /\ r.score = m.score /\ r.gen = m.gen
    /\ r.timing.toPressure = m.timing.toPressure /\ r.timing.toEndgame = m.timing.toEndgame

\* The orders of r are those of m under r's end, but for closed ones issued before c.
Mirrors(m, r, c) ==
    /\ \A q \in r.orders : \E o \in m.orders : q = Moved(o, End(r))
    /\ \A o \in m.orders : Moved(o, End(r)) \in r.orders \/ (~IsOpen(o) /\ o.issued < c)
Like(m, r, c) == Abreast(m, r) /\ Mirrors(m, r, c)

\* Up to x, the two ends are alike.
Parting(m, r, x) == End(m) = End(r) \/ (x < End(m) /\ x < End(r))

LEMMA MovedFields ==
    ASSUME NEW o \in Contract, NEW e \in Nat
    PROVE  LET q == Moved(o, e)
           IN  /\ q \in Contract /\ q.team = o.team /\ q.seq = o.seq /\ q.rush = o.rush
               /\ q.opp = o.opp /\ q.task = o.task /\ q.issued = o.issued /\ q.status = o.status
               /\ q.how = o.how /\ q.step = o.step /\ q.failed = o.failed
               /\ (IsOpen(q) <=> IsOpen(o)) /\ TtlOf(q) = TtlOf(o) /\ Points(q) = Points(o)
               /\ IsOpen(o) => q.expires = Least(o.issued + TtlOf(o), e)
               /\ ~IsOpen(o) => q = o
               /\ o.expires = Least(o.issued + TtlOf(o), e) => q = o
<1> DEFINE x == Least(o.issued + TtlOf(o), e)
           q == Moved(o, e)
<1>1. x \in Nat
  BY PaceAssumption DEF Contract, TtlOf, Least
<1>2. q = IF IsOpen(o) THEN [o EXCEPT !.expires = x] ELSE o
  BY DEF Moved
<1> HIDE DEF x, q
<1>3. CASE IsOpen(o)
  BY <1>2, <1>3, <1>1 DEF Contract, x, q, IsOpen, TtlOf, Points
<1>4. CASE ~IsOpen(o)
  BY <1>2, <1>4 DEF q
<1> QED BY <1>3, <1>4

\* Under its own end no order moves.
LEMMA MovedSelf ==
    ASSUME NEW m, Sound(m), Started(m), NEW o \in m.orders
    PROVE  Moved(o, End(m)) = o
BY OrderFields, RowFields, MovedFields DEF Sound, Deadlines, OpenOrders

LEMMA LikeOpen ==
    ASSUME NEW m, NEW r, NEW c, Sound(m), Sound(r), Started(m), Like(m, r, c)
    PROVE  /\ Started(r) /\ End(r) \in Nat /\ End(m) \in Nat
           /\ \A o \in m.orders : o \in Contract /\ Moved(o, End(r)) \in Contract
           /\ \A o \in OpenOrders(m) : Moved(o, End(r)) \in OpenOrders(r)
           /\ \A q \in OpenOrders(r) : \E o \in OpenOrders(m) : q = Moved(o, End(r))
<1>1. m \in CryptoBattleState /\ r \in CryptoBattleState /\ Started(r)
  BY DEF Sound, Like, Abreast, Started
<1>2. End(r) \in Nat /\ End(m) \in Nat
  BY <1>1, RowFields
<1>3. \A o \in m.orders : o \in Contract /\ Moved(o, End(r)) \in Contract
                          /\ (IsOpen(Moved(o, End(r))) <=> IsOpen(o))
  BY <1>1, <1>2, OrderFields, MovedFields
<1>4. ASSUME NEW o \in OpenOrders(m) PROVE Moved(o, End(r)) \in OpenOrders(r)
  BY <1>3 DEF OpenOrders, Like, Mirrors
<1>5. ASSUME NEW q \in OpenOrders(r) PROVE \E o \in OpenOrders(m) : q = Moved(o, End(r))
  BY <1>3 DEF OpenOrders, Like, Mirrors
<1> QED BY <1>1, <1>2, <1>3, <1>4, <1>5

\* What lapses at x is the same on both sides, to the field.
LEMMA LikeLapsed ==
    ASSUME NEW m, NEW r, NEW c, Sound(m), Sound(r), Started(m), Like(m, r, c), NEW x \in Nat,
           Parting(m, r, x)
    PROVE  /\ {o \in OpenOrders(r) : o.expires <= x} = {o \in OpenOrders(m) : o.expires <= x}
           /\ \A o \in OpenOrders(m) : o.expires <= x => Moved(o, End(r)) = o
<1>1. /\ Started(r) /\ End(r) \in Nat /\ End(m) \in Nat
      /\ \A o \in m.orders : o \in Contract
      /\ \A o \in OpenOrders(m) : Moved(o, End(r)) \in OpenOrders(r)
      /\ \A q \in OpenOrders(r) : \E o \in OpenOrders(m) : q = Moved(o, End(r))
  BY LikeOpen
<1>2. ASSUME NEW o \in OpenOrders(m)
      PROVE  /\ o \in m.orders /\ o \in Contract /\ o.issued \in Nat /\ TtlOf(o) \in Nat
             /\ o.expires = Least(o.issued + TtlOf(o), End(m))
             /\ Moved(o, End(r)).expires = Least(o.issued + TtlOf(o), End(r))
  <2>1. o \in m.orders /\ IsOpen(o) /\ m \in CryptoBattleState
    BY DEF OpenOrders, Sound
  <2>2. o \in Contract /\ o.issued \in Nat /\ TtlOf(o) \in Nat
    BY <2>1, OrderFields
  <2>3. Moved(o, End(r)).expires = Least(o.issued + TtlOf(o), End(r))
    BY <1>1, <2>1, <2>2, MovedFields
  <2> QED BY <2>1, <2>2, <2>3 DEF Sound, Deadlines
<1>3. ASSUME NEW o \in OpenOrders(m)
      PROVE  /\ o.expires <= x => Moved(o, End(r)) = o
             /\ Moved(o, End(r)).expires <= x => Moved(o, End(r)) = o
  <2> DEFINE l == o.issued + TtlOf(o)
  <2>1. /\ l \in Nat /\ o.expires = Least(l, End(m)) /\ Moved(o, End(r)).expires = Least(l, End(r))
        /\ o \in m.orders
    BY <1>2
  <2>2. o.expires = Least(l, End(r)) => Moved(o, End(r)) = o
    BY <1>1, <1>2, MovedFields
  <2> HIDE DEF l
  <2>3. CASE End(m) = End(r)
    BY <2>1, <2>2, <2>3
  <2>4. CASE x < End(m) /\ x < End(r)
    BY <1>1, <2>1, <2>4, <2>2 DEF Least
  <2> QED BY <2>3, <2>4 DEF Parting
<1>4. ASSUME NEW q \in OpenOrders(r), q.expires <= x PROVE q \in OpenOrders(m)
  BY <1>1, <1>3, <1>4
<1>5. ASSUME NEW o \in OpenOrders(m), o.expires <= x PROVE o \in OpenOrders(r)
  BY <1>1, <1>3, <1>5
<1> QED BY <1>3, <1>4, <1>5

\* The orders of D become what h says, and the score is another.
Rewriting(S, D, h) == {IF o \in D THEN h[o] ELSE o : o \in S}
Rewritten(m, score, D, h) == [m EXCEPT !.score = score, !.orders = Rewriting(m.orders, D, h)]

\* Rows in which the same orders D were closed in the same way.
LEMMA LikeRevised ==
    ASSUME NEW m, NEW r, NEW c, Sound(m), Sound(r), Started(m), Like(m, r, c),
           NEW D, D \subseteq OpenOrders(m), D \subseteq OpenOrders(r),
           \A o \in D : Moved(o, End(r)) = o,
           NEW h, \A o \in D : h[o] \in Contract /\ ~IsOpen(h[o]),
           NEW n, NEW s, n.orders = Rewriting(m.orders, D, h),
           s.orders = Rewriting(r.orders, D, h), Abreast(n, s), End(s) = End(r)
    PROVE  Like(n, s, c)
<1>1. /\ \A q \in r.orders : \E o \in m.orders : q = Moved(o, End(r))
      /\ \A o \in m.orders : Moved(o, End(r)) \in r.orders \/ (~IsOpen(o) /\ o.issued < c)
  BY DEF Like, Mirrors
<1>2. /\ End(r) \in Nat
      /\ \A o \in m.orders : o \in Contract /\ Moved(o, End(r)) \in Contract
                             /\ Moved(o, End(r)).team = o.team /\ Moved(o, End(r)).seq = o.seq
  BY LikeOpen, MovedFields
<1>3. D \subseteq m.orders /\ D \subseteq r.orders /\ \A o \in D : IsOpen(o)
  BY DEF OpenOrders
<1>4. \A o \in D : Moved(h[o], End(r)) = h[o]
  BY <1>2, MovedFields
<1>5. ASSUME NEW o \in m.orders, Moved(o, End(r)) \in D PROVE o \in D
  BY <1>2, <1>3, <1>5 DEF Sound, Numbered
<1>8. /\ n.orders = {IF o \in D THEN h[o] ELSE o : o \in m.orders}
      /\ s.orders = {IF o \in D THEN h[o] ELSE o : o \in r.orders}
  BY DEF Rewriting
<1>6. ASSUME NEW q \in s.orders PROVE \E o \in n.orders : q = Moved(o, End(r))
  <2>1. PICK p \in r.orders : q = IF p \in D THEN h[p] ELSE p
    BY <1>8
  <2>2. CASE p \in D
    BY <1>3, <1>8, <2>1, <2>2, <1>4
  <2>3. CASE p \notin D
    BY <1>1, <2>3, <1>8, <2>1
  <2> QED BY <2>2, <2>3
<1>7. ASSUME NEW p \in n.orders
      PROVE  Moved(p, End(r)) \in s.orders \/ (~IsOpen(p) /\ p.issued < c)
  <2>1. PICK o \in m.orders : p = IF o \in D THEN h[o] ELSE o
    BY <1>8
  <2>2. CASE o \in D
    BY <1>3, <1>8, <2>1, <2>2, <1>4
  <2>3. CASE o \notin D
    BY <1>5, <2>1, <2>3, <1>8, <1>1
  <2> QED BY <2>2, <2>3
<1> QED BY <1>6, <1>7 DEF Like, Mirrors

\* Whether a lapsed duel was answered is read off its twin, which is open on both sides.
LEMMA LikeAllIn ==
    ASSUME NEW m, NEW r, NEW c, Sound(m), Sound(r), Started(m), Like(m, r, c),
           NEW o \in OpenOrders(m), o \in OpenOrders(r), o.task = "duel"
    PROVE  AllIn(m, o) <=> AllIn(r, o)
<1>1. PICK p \in OpenOrders(m) : Twins(o, p)
  BY DEF Sound, Paired
<1>2. PICK q \in OpenOrders(r) : Twins(o, q)
  BY DEF Sound, Paired
<1>3. OpponentOrder(m, o) = {p}
  BY <1>1 DEF OpponentOrder, Twins, Sound, Numbered, OpenOrders
<1>4. OpponentOrder(r, o) = {q}
  BY <1>2 DEF OpponentOrder, Twins, Sound, Numbered, OpenOrders
<1>5. q.step = p.step
  <2>1. PICK d \in OpenOrders(m) : q = Moved(d, End(r))
    BY LikeOpen
  <2>2. d \in Contract /\ End(r) \in Nat /\ d \in m.orders /\ p \in m.orders
    BY LikeOpen DEF OpenOrders
  <2>3. d.team = q.team /\ d.seq = q.seq /\ q.step = d.step
    BY <2>1, <2>2, MovedFields
  <2>4. d = p
    BY <1>1, <1>2, <2>2, <2>3 DEF Twins, Sound, Numbered
  <2> QED BY <2>3, <2>4
<1> QED BY <1>3, <1>4, <1>5 DEF AllIn

LEMMA LikeDuels ==
    ASSUME NEW m \in CryptoBattleState, NEW r \in CryptoBattleState, NEW D, NEW t \in Teams,
           r.score = m.score, r.count = m.count, \A o \in D : AllIn(m, o) <=> AllIn(r, o)
    PROVE  AfterDuels(r, D, t) = AfterDuels(m, D, t)
<1>1. PICK f : Pays(f, m, D, t) /\ AfterDuels(m, D, t) = f[m.count[t]]
  BY AfterDuelsType
<1>2. PICK g : Pays(g, r, D, t) /\ AfterDuels(r, D, t) = g[r.count[t]]
  BY AfterDuelsType
<1>3. ASSUME NEW k, NEW v PROVE DuelStep(r, D, t, k, v) = DuelStep(m, D, t, k, v)
  <2> DEFINE mine == {o \in D : o.team = t /\ o.seq = k}
  <2>1. (\E o \in mine : AllIn(m, o)) <=> (\E o \in mine : AllIn(r, o))
    OBVIOUS
  <2>2. /\ DuelStep(m, D, t, k, v) = IF mine = {} THEN v
             ELSE Floored(v + IF \E o \in mine : AllIn(m, o) THEN DuelWin ELSE -ExpiredOrder)
        /\ DuelStep(r, D, t, k, v) = IF mine = {} THEN v
             ELSE Floored(v + IF \E o \in mine : AllIn(r, o) THEN DuelWin ELSE -ExpiredOrder)
    BY DEF DuelStep
  <2> HIDE DEF mine
  <2> QED BY <2>1, <2>2
<1>4. \A k \in Nat : f[k] = g[k]
  <2> DEFINE T == {k \in Nat : f[k] = g[k]}
  <2>1. 0 \in T
    BY <1>1, <1>2 DEF Pays
  <2>2. ASSUME NEW k \in T PROVE k + 1 \in T
    BY <1>1, <1>2, <1>3 DEF Pays
  <2>3. T \in SUBSET Nat
    OBVIOUS
  <2> HIDE DEF T
  <2>4. T = Nat
    BY <2>1, <2>2, <2>3, NatSteps
  <2> QED BY <2>4 DEF T
<1>5. m.count[t] \in Nat
  BY RowFields
<1> QED BY <1>1, <1>2, <1>4, <1>5

\* A row with other scores and orders.
LEMMA RevisedFields ==
    ASSUME NEW m \in CryptoBattleState, NEW score, NEW D, NEW h,
           NEW n, n = Rewritten(m, score, D, h)
    PROVE  /\ n.score = score /\ n.orders = Rewriting(m.orders, D, h) /\ n.seed = m.seed /\ n.start = m.start
           /\ n.next = m.next /\ n.count = m.count /\ n.duels = m.duels /\ n.gen = m.gen
           /\ n.timing = m.timing
BY DEF CryptoBattleState, Rewritten

LEMMA LikeRps ==
    ASSUME NEW m, NEW r, NEW c, Sound(m), Sound(r), Started(m), Like(m, r, c), NEW x \in Nat,
           Parting(m, r, x)
    PROVE  Like(ExpireRps(m, x), ExpireRps(r, x), c)
<1> DEFINE D == LapsedDuels(m, x)
           h == [o \in D |-> IF AllIn(m, o) THEN [o EXCEPT !.status = "completed", !.how = "duel"]
                             ELSE [o EXCEPT !.status = "expired", !.how = "deadline"]]
           n == ExpireRps(m, x)
           s == ExpireRps(r, x)
           scoreM == [t \in Teams |-> AfterDuels(m, D, t)]
           scoreR == [t \in Teams |-> AfterDuels(r, D, t)]
           ordersM == Rewriting(m.orders, D, h)
           ordersR == Rewriting(r.orders, D, h)
<1>1. m \in CryptoBattleState /\ r \in CryptoBattleState
  BY DEF Sound
<1>2. LapsedDuels(r, x) = D
  BY LikeLapsed DEF LapsedDuels
<1>3. D \subseteq OpenOrders(m) /\ D \subseteq OpenOrders(r) /\ \A o \in D : o.task = "duel"
  BY <1>2 DEF LapsedDuels
<1>4. \A o \in D : Moved(o, End(r)) = o
  BY LikeLapsed DEF LapsedDuels
<1>5. \A o \in D : AllIn(m, o) <=> AllIn(r, o)
  BY <1>3, LikeAllIn
<1>6. n = [m EXCEPT !.score = scoreM, !.orders = ordersM]
  <2>1. ordersM = {IF o \notin D THEN o
                   ELSE IF AllIn(m, o) THEN [o EXCEPT !.status = "completed", !.how = "duel"]
                   ELSE [o EXCEPT !.status = "expired", !.how = "deadline"] : o \in m.orders}
    BY DEF Rewriting
  <2> HIDE DEF ordersM, h
  <2> QED BY <2>1 DEF ExpireRps
<1>7. s = [r EXCEPT !.score = scoreR, !.orders = ordersR]
  <2>1. \A o \in r.orders :
           (IF o \in D THEN h[o] ELSE o)
             = IF o \notin D THEN o
               ELSE IF AllIn(r, o) THEN [o EXCEPT !.status = "completed", !.how = "duel"]
               ELSE [o EXCEPT !.status = "expired", !.how = "deadline"]
    <3> HIDE DEF D
    <3>1. \A o \in D : h[o] = IF AllIn(m, o) THEN [o EXCEPT !.status = "completed", !.how = "duel"]
                              ELSE [o EXCEPT !.status = "expired", !.how = "deadline"]
      OBVIOUS
    <3> HIDE DEF h
    <3> QED BY <1>5, <3>1
  <2>2. ordersR = {IF o \notin D THEN o
                   ELSE IF AllIn(r, o) THEN [o EXCEPT !.status = "completed", !.how = "duel"]
                   ELSE [o EXCEPT !.status = "expired", !.how = "deadline"] : o \in r.orders}
    BY <2>1 DEF Rewriting
  <2>3. s = [r EXCEPT !.score = scoreR,
                      !.orders = {IF o \notin D THEN o
                   ELSE IF AllIn(r, o) THEN [o EXCEPT !.status = "completed", !.how = "duel"]
                   ELSE [o EXCEPT !.status = "expired", !.how = "deadline"] : o \in r.orders}]
    BY <1>2 DEF ExpireRps
  <2> HIDE DEF ordersR, h, D
  <2> QED BY <2>2, <2>3
<1>8. scoreM = scoreR
  <2>1. r.score = m.score /\ r.count = m.count
    BY DEF Like, Abreast
  <2>2. \A t \in Teams : AfterDuels(r, D, t) = AfterDuels(m, D, t)
    <3> HIDE DEF D
    <3> QED BY <1>1, <1>5, <2>1, LikeDuels
  <2> QED BY <2>2
<1>9. ASSUME NEW o \in D PROVE h[o] \in Contract /\ ~IsOpen(h[o])
  <2>1. o \in Contract
    BY <1>1, <1>3, OrderFields DEF OpenOrders
  <2>2. \/ h[o] = [o EXCEPT !.status = "completed", !.how = "duel"]
        \/ h[o] = [o EXCEPT !.status = "expired", !.how = "deadline"]
    OBVIOUS
  <2>3. /\ [o EXCEPT !.status = "completed", !.how = "duel"] \in Contract
        /\ ~IsOpen([o EXCEPT !.status = "completed", !.how = "duel"])
    BY <2>1 DEF Contract, IsOpen, Answers
  <2>4. /\ [o EXCEPT !.status = "expired", !.how = "deadline"] \in Contract
        /\ ~IsOpen([o EXCEPT !.status = "expired", !.how = "deadline"])
    BY <2>1 DEF Contract, IsOpen
  <2> HIDE DEF D, h
  <2> QED BY <2>2, <2>3, <2>4
<1>16. n = Rewritten(m, scoreM, D, h) /\ s = Rewritten(r, scoreR, D, h)
  <2> HIDE DEF D, h, n, s, scoreM, scoreR
  <2> QED BY <1>6, <1>7 DEF Rewritten
<1> HIDE DEF D, h, n, s, scoreM, scoreR, ordersM, ordersR
<1>10. /\ n.orders = ordersM /\ n.score = scoreM
       /\ n.seed = m.seed /\ n.start = m.start /\ n.next = m.next /\ n.count = m.count
       /\ n.duels = m.duels /\ n.gen = m.gen /\ n.timing = m.timing
  BY <1>1, <1>16, RevisedFields DEF ordersM
<1>13. /\ s.orders = ordersR /\ s.score = scoreR
       /\ s.seed = r.seed /\ s.start = r.start /\ s.next = r.next /\ s.count = r.count
       /\ s.duels = r.duels /\ s.gen = r.gen /\ s.timing = r.timing
  BY <1>1, <1>16, RevisedFields DEF ordersR
<1>11. Abreast(n, s) /\ End(s) = End(r)
  BY <1>8, <1>10, <1>13 DEF Like, Abreast, End
<1>14. \A o \in D : h[o] \in Contract /\ ~IsOpen(h[o])
  BY <1>9
<1>15. n.orders = ordersM /\ s.orders = ordersR
  BY <1>10, <1>13
<1>12. Like(n, s, c)
  BY <1>3, <1>4, <1>11, <1>14, <1>15, LikeRevised DEF ordersM, ordersR
<1> QED BY <1>12 DEF n, s

LEMMA LikeOrders ==
    ASSUME NEW m, NEW r, NEW c, Sound(m), Sound(r), Started(m), Like(m, r, c), NEW x \in Nat,
           Parting(m, r, x)
    PROVE  Like(ExpireOrders(m, x), ExpireOrders(r, x), c)
<1> DEFINE D == {o \in OpenOrders(m) : o.expires <= x}
           h == [o \in D |-> [o EXCEPT !.status = "expired", !.how = "deadline"]]
           n == ExpireOrders(m, x)
           s == ExpireOrders(r, x)
           score == Charged(m, D)
           ordersM == Rewriting(m.orders, D, h)
           ordersR == Rewriting(r.orders, D, h)
<1>1. m \in CryptoBattleState /\ r \in CryptoBattleState
  BY DEF Sound
<1>2. {o \in OpenOrders(r) : o.expires <= x} = D
  BY LikeLapsed
<1>3. D \subseteq OpenOrders(m) /\ D \subseteq OpenOrders(r)
  BY <1>2
<1>4. \A o \in D : Moved(o, End(r)) = o
  BY LikeLapsed
<1>5. Charged(r, D) = score
  BY DEF Like, Abreast, Charged
<1>6. n = [m EXCEPT !.score = score, !.orders = ordersM]
  <2>1. ordersM = {IF o \in D THEN [o EXCEPT !.status = "expired", !.how = "deadline"] ELSE o
                     : o \in m.orders}
    BY DEF Rewriting
  <2> HIDE DEF ordersM, h
  <2> QED BY <2>1 DEF ExpireOrders
<1>7. s = [r EXCEPT !.score = score, !.orders = ordersR]
  <2>1. ordersR = {IF o \in D THEN [o EXCEPT !.status = "expired", !.how = "deadline"] ELSE o
                     : o \in r.orders}
    BY DEF Rewriting
  <2>2. s = [r EXCEPT !.score = Charged(r, D),
                      !.orders = {IF o \in D THEN [o EXCEPT !.status = "expired", !.how = "deadline"]
                                  ELSE o : o \in r.orders}]
    BY <1>2 DEF ExpireOrders
  <2> HIDE DEF ordersR, h, D, score
  <2> QED BY <1>5, <2>1, <2>2
<1>9. ASSUME NEW o \in D PROVE h[o] \in Contract /\ ~IsOpen(h[o])
  <2>1. o \in Contract
    BY <1>1, <1>3, OrderFields DEF OpenOrders
  <2>2. h[o] = [o EXCEPT !.status = "expired", !.how = "deadline"]
    OBVIOUS
  <2> HIDE DEF D, h
  <2> QED BY <2>1, <2>2 DEF Contract, IsOpen
<1>16. n = Rewritten(m, score, D, h) /\ s = Rewritten(r, score, D, h)
  <2> HIDE DEF D, h, n, s, score
  <2> QED BY <1>6, <1>7 DEF Rewritten
<1> HIDE DEF D, h, n, s, score, ordersM, ordersR
<1>10. /\ n.orders = ordersM /\ n.score = score
       /\ n.seed = m.seed /\ n.start = m.start /\ n.next = m.next /\ n.count = m.count
       /\ n.duels = m.duels /\ n.gen = m.gen /\ n.timing = m.timing
  BY <1>1, <1>16, RevisedFields DEF ordersM
<1>13. /\ s.orders = ordersR /\ s.score = score
       /\ s.seed = r.seed /\ s.start = r.start /\ s.next = r.next /\ s.count = r.count
       /\ s.duels = r.duels /\ s.gen = r.gen /\ s.timing = r.timing
  BY <1>1, <1>16, RevisedFields DEF ordersR
<1>11. Abreast(n, s) /\ End(s) = End(r)
  BY <1>10, <1>13 DEF Like, Abreast, End
<1>14. \A o \in D : h[o] \in Contract /\ ~IsOpen(h[o])
  BY <1>9
<1>15. n.orders = ordersM /\ s.orders = ordersR
  BY <1>10, <1>13
<1>12. Like(n, s, c)
  BY <1>3, <1>4, <1>11, <1>14, <1>15, LikeRevised DEF ordersM, ordersR
<1> QED BY <1>12 DEF n, s

\* As many orders are open on both sides.
LEMMA LikeCount ==
    ASSUME NEW m, NEW r, NEW c, Sound(m), Sound(r), Started(m), Like(m, r, c), NEW t \in Teams
    PROVE  OpenCount(r, t) = OpenCount(m, t)
<1> DEFINE S == {o \in OpenOrders(m) : o.team = t}
           T == {o \in OpenOrders(r) : o.team = t}
           f == [o \in S |-> Moved(o, End(r))]
<1>1. /\ End(r) \in Nat /\ \A o \in m.orders : o \in Contract
      /\ \A o \in OpenOrders(m) : Moved(o, End(r)) \in OpenOrders(r)
      /\ \A q \in OpenOrders(r) : \E o \in OpenOrders(m) : q = Moved(o, End(r))
  BY LikeOpen
<1>2. \A o \in OpenOrders(m) :
         /\ o \in m.orders /\ Moved(o, End(r)).team = o.team /\ Moved(o, End(r)).seq = o.seq
  BY <1>1, MovedFields DEF OpenOrders
<1>3. f \in [S -> T]
  BY <1>1, <1>2
<1>4. ASSUME NEW o \in S, NEW p \in S, f[o] = f[p] PROVE o = p
  BY <1>2, <1>4 DEF Sound, Numbered
<1>5. \A q \in T : \E o \in S : f[o] = q
  BY <1>1, <1>2
<1>6. IsFiniteSet(S)
  BY FS_Subset DEF OpenOrders, Sound
<1>7. Cardinality(S) = OpenCount(m, t) /\ Cardinality(T) = OpenCount(r, t)
  BY DEF OpenCount
<1> HIDE DEF S, T, f
<1>8. f \in Bijection(S, T)
  BY <1>3, <1>4, <1>5 DEF Bijection, Injection, Surjection, IsInjective
<1>9. ExistsBijection(S, T)
  BY <1>8 DEF ExistsBijection
<1> QED BY <1>6, <1>7, <1>9, FS_Bijection

\* An order that arrives on one side is that of the other under its own end.
LEMMA LikeNewOrder ==
    ASSUME NEW m \in CryptoBattleState, NEW r \in CryptoBattleState, Started(m), Started(r),
           Abreast(m, r), NEW t \in Teams, NEW a \in Nat, NEW opp \in Teams \cup {None}
    PROVE  NewOrder(r, t, a, opp) = Moved(NewOrder(m, t, a, opp), End(r))
<1> DEFINE o == NewOrder(m, t, a, opp)
           q == NewOrder(r, t, a, opp)
           tasks == Seeds[m.seed].task
           index == m.count[t] - m.duels[t]
           rush == opp = None /\ index # 0 /\ <<t, index>> \in Seeds[m.seed].rush
           task == IF opp # None THEN "duel"
                   ELSE IF index = 0 THEN "reveal" ELSE tasks[((index - 1) % Len(tasks)) + 1]
           ttl == IF rush THEN RushTtl ELSE Ttl
           new(e) == [team |-> t, seq |-> m.count[t], rush |-> rush, opp |-> opp, task |-> task,
                      issued |-> a, expires |-> Least(a + ttl, e), status |-> "open",
                      how |-> "none", step |-> "fresh", tried |-> FALSE, failed |-> FALSE,
                      hints |-> 0, gen |-> m.gen[t]]
<1>1. o = new(End(m))
  BY DEF NewOrder, NextSeq
<1>2. q = new(End(r))
  BY DEF NewOrder, NextSeq, Abreast
<1> HIDE DEF o, q, task, rush, ttl
<1>3. IsOpen(o) /\ o.issued = a /\ TtlOf(o) = ttl
  BY <1>1 DEF IsOpen, TtlOf, ttl
<1>4. Moved(o, End(r)) = [o EXCEPT !.expires = Least(a + ttl, End(r))]
  BY <1>3 DEF Moved
<1> DEFINE e == Least(a + ttl, End(m))
           d == Least(a + ttl, End(r))
<1>5. o = [team |-> t, seq |-> m.count[t], rush |-> rush, opp |-> opp, task |-> task,
                      issued |-> a, expires |-> e, status |-> "open",
                      how |-> "none", step |-> "fresh", tried |-> FALSE, failed |-> FALSE,
                      hints |-> 0, gen |-> m.gen[t]]
  BY <1>1
<1>6. q = [team |-> t, seq |-> m.count[t], rush |-> rush, opp |-> opp, task |-> task,
                      issued |-> a, expires |-> d, status |-> "open",
                      how |-> "none", step |-> "fresh", tried |-> FALSE, failed |-> FALSE,
                      hints |-> 0, gen |-> m.gen[t]]
  BY <1>2
<1>7. Moved(o, End(r)) = [o EXCEPT !.expires = d]
  BY <1>4
<1> HIDE DEF e, d, new
<1>9. o \in Contract /\ q \in Contract
  BY NewOrderType DEF o, q
<1>10. /\ q.team = o.team /\ q.seq = o.seq /\ q.rush = o.rush /\ q.opp = o.opp
       /\ q.task = o.task /\ q.issued = o.issued /\ q.status = o.status /\ q.how = o.how
       /\ q.step = o.step /\ q.tried = o.tried /\ q.failed = o.failed /\ q.hints = o.hints
       /\ q.gen = o.gen /\ q.expires = d
  BY <1>5, <1>6
<1>8. [o EXCEPT !.expires = d] = q
  BY <1>9, <1>10 DEF Contract
<1> QED BY <1>7, <1>8 DEF o, q

LEMMA SlotFields ==
    ASSUME NEW m \in CryptoBattleState, NEW a, NEW opening
    PROVE  LET n == IssueSlot(m, a, opening)
               given == {t \in Teams : Delivers(m, t, DuelOpponent(m, t, opening))}
           IN  /\ n.orders = m.orders \cup
                     {NewOrder(m, t, a, DuelOpponent(m, t, opening)) : t \in given}
               /\ n.count = [t \in Teams |-> m.count[t] + 1]
               /\ n.duels = [t \in Teams |-> m.duels[t]
                                + IF DuelOpponent(m, t, opening) # None THEN 1 ELSE 0]
               /\ n.seed = m.seed /\ n.start = m.start /\ n.next = m.next /\ n.score = m.score
               /\ n.gen = m.gen /\ n.timing = m.timing
<1> DEFINE n == IssueSlot(m, a, opening)
           opp == [t \in Teams |-> DuelOpponent(m, t, opening)]
           orders == {NewOrder(m, t, a, opp[t]) : t \in {u \in Teams : Delivers(m, u, opp[u])}}
           given == {t \in Teams : Delivers(m, t, DuelOpponent(m, t, opening))}
<1>1. n = [m EXCEPT !.orders = m.orders \cup orders,
                    !.count = [t \in Teams |-> m.count[t] + 1],
                    !.duels = [t \in Teams |-> m.duels[t] + IF opp[t] # None THEN 1 ELSE 0]]
  BY DEF IssueSlot, CryptoBattleState
<1>2. orders = {NewOrder(m, t, a, DuelOpponent(m, t, opening)) : t \in given}
  OBVIOUS
<1>3. [t \in Teams |-> m.duels[t] + IF opp[t] # None THEN 1 ELSE 0]
        = [t \in Teams |-> m.duels[t] + IF DuelOpponent(m, t, opening) # None THEN 1 ELSE 0]
  OBVIOUS
<1> HIDE DEF n, orders, opp
<1>4. /\ n.orders = m.orders \cup orders /\ n.count = [t \in Teams |-> m.count[t] + 1]
      /\ n.duels = [t \in Teams |-> m.duels[t] + IF opp[t] # None THEN 1 ELSE 0]
      /\ n.seed = m.seed /\ n.start = m.start /\ n.next = m.next /\ n.score = m.score
      /\ n.gen = m.gen /\ n.timing = m.timing
  BY <1>1 DEF CryptoBattleState
<1> QED BY <1>2, <1>3, <1>4 DEF n

LEMMA LikeSlot ==
    ASSUME NEW m, NEW r, NEW c, Sound(m), Sound(r), Started(m), Like(m, r, c), NEW a \in Nat,
           NEW opening \in BOOLEAN
    PROVE  Like(IssueSlot(m, a, opening), IssueSlot(r, a, opening), c)
<1> DEFINE n == IssueSlot(m, a, opening)
           s == IssueSlot(r, a, opening)
           opp(t) == DuelOpponent(m, t, opening)
           given == {t \in Teams : Delivers(m, t, opp(t))}
<1>1. m \in CryptoBattleState /\ r \in CryptoBattleState /\ Started(r) /\ Abreast(m, r)
  BY LikeOpen DEF Sound, Like
<1>2. \A t \in Teams : DuelOpponent(r, t, opening) = opp(t)
  BY <1>1 DEF Abreast, DuelOpponent
<1>3. ASSUME NEW t \in Teams PROVE opp(t) \in Teams \cup {None}
  <2> DEFINE round == (m.count[t] \div DuelEvery) - 1
  <2>1. round \in Int
    BY <1>1, RowFields, PaceAssumption
  <2>2. opp(t) = IF ~opening /\ m.count[t] % DuelEvery = 0 THEN OpponentIn(round, t) ELSE None
    BY DEF DuelOpponent
  <2> HIDE DEF round
  <2> QED BY <2>1, <2>2, OpponentMutual
<1>4. \A t \in Teams : HasRoom(r, t) <=> HasRoom(m, t)
  BY LikeCount DEF HasRoom
<1>5. {t \in Teams : Delivers(r, t, DuelOpponent(r, t, opening))} = given
  BY <1>2, <1>3, <1>4 DEF Delivers
<1>6. \A t \in Teams : NewOrder(r, t, a, opp(t)) = Moved(NewOrder(m, t, a, opp(t)), End(r))
  BY <1>1, <1>3, LikeNewOrder
<1>7. /\ n.orders = m.orders \cup {NewOrder(m, t, a, opp(t)) : t \in given}
      /\ n.count = [t \in Teams |-> m.count[t] + 1]
      /\ n.duels = [t \in Teams |-> m.duels[t] + IF opp(t) # None THEN 1 ELSE 0]
      /\ n.seed = m.seed /\ n.start = m.start /\ n.next = m.next /\ n.score = m.score
      /\ n.gen = m.gen /\ n.timing = m.timing
  BY <1>1, SlotFields
<1>8. /\ s.orders = r.orders \cup {NewOrder(r, t, a, DuelOpponent(r, t, opening)) :
                          t \in {u \in Teams : Delivers(r, u, DuelOpponent(r, u, opening))}}
      /\ s.count = [t \in Teams |-> r.count[t] + 1]
      /\ s.duels = [t \in Teams |-> r.duels[t]
                       + IF DuelOpponent(r, t, opening) # None THEN 1 ELSE 0]
      /\ s.seed = r.seed /\ s.start = r.start /\ s.next = r.next /\ s.score = r.score
      /\ s.gen = r.gen /\ s.timing = r.timing
  BY <1>1, SlotFields
<1> HIDE DEF n, s, opp
<1>9. s.orders = r.orders \cup {NewOrder(r, t, a, opp(t)) : t \in given}
  <2> HIDE DEF given
  <2>1. s.orders = r.orders \cup {NewOrder(r, t, a, DuelOpponent(r, t, opening)) : t \in given}
    BY <1>5, <1>8
  <2>2. given \in SUBSET Teams
    BY DEF given
  <2> QED BY <1>2, <2>1, <2>2
<1>10. given \in SUBSET Teams
  OBVIOUS
<1> HIDE DEF given
<1>11. s.duels = [t \in Teams |-> r.duels[t] + IF opp(t) # None THEN 1 ELSE 0]
  BY <1>2, <1>8
<1>12. Abreast(n, s) /\ End(s) = End(r)
  BY <1>1, <1>7, <1>8, <1>11 DEF Abreast, End
<1>13. ASSUME NEW q \in s.orders PROVE \E o \in n.orders : q = Moved(o, End(s))
  <2>1. CASE q \in r.orders
    BY <1>7, <1>12, <2>1 DEF Like, Mirrors
  <2>2. CASE q \notin r.orders
    BY <1>9, <2>2, <1>7, <1>6, <1>10, <1>12
  <2> QED BY <2>1, <2>2
<1>14. ASSUME NEW o \in n.orders
       PROVE  Moved(o, End(s)) \in s.orders \/ (~IsOpen(o) /\ o.issued < c)
  <2>1. CASE o \in m.orders
    BY <1>9, <1>12, <2>1 DEF Like, Mirrors
  <2>2. CASE o \notin m.orders
    BY <1>7, <2>2, <1>9, <1>6, <1>10, <1>12
  <2> QED BY <2>1, <2>2
<1> QED BY <1>12, <1>13, <1>14 DEF Like, Mirrors, n, s

LEMMA LikeSlots ==
    ASSUME NEW m, NEW r, NEW c, Sound(m), Sound(r), Started(m), Like(m, r, c), NEW a \in Nat,
           NEW opening \in BOOLEAN, NEW slots \in Nat
    PROVE  Like(IssueSlots(m, a, opening, slots), IssueSlots(r, a, opening, slots), c)
<1>1. Started(r)
  BY LikeOpen
<1>2. PICK f : Slots(f, m, a, opening) /\ IssueSlots(m, a, opening, slots) = f[slots]
  BY SlotsArrive
<1>3. PICK g : Slots(g, r, a, opening) /\ IssueSlots(r, a, opening, slots) = g[slots]
  BY <1>1, SlotsArrive
<1>4. \A k \in Nat : Sound(f[k]) /\ Started(f[k]) /\ Sound(g[k])
  BY <1>2, <1>3 DEF Slots, Arrives, Untouched, Started
<1> DEFINE T == {k \in Nat : Like(f[k], g[k], c)}
<1>5. 0 \in T
  BY <1>2, <1>3 DEF Slots
<1>6. ASSUME NEW k \in T PROVE k + 1 \in T
  BY <1>4, LikeSlot, <1>2, <1>3 DEF Slots
<1>7. T \in SUBSET Nat
  OBVIOUS
<1> HIDE DEF T
<1>8. T = Nat
  BY <1>5, <1>6, <1>7, NatSteps
<1>9. Like(f[slots], g[slots], c)
  BY <1>8 DEF T
<1> QED BY <1>2, <1>3, <1>9

\* A row whose next batch is at n.
Postponed(m, n) == [m EXCEPT !.next = n]
LEMMA PostponedFields ==
    ASSUME NEW m \in CryptoBattleState, NEW n
    PROVE  LET r == Postponed(m, n)
           IN  /\ r.next = n /\ r.orders = m.orders /\ r.seed = m.seed /\ r.start = m.start
               /\ r.count = m.count /\ r.duels = m.duels /\ r.score = m.score /\ r.gen = m.gen
               /\ r.timing = m.timing
BY DEF CryptoBattleState, Postponed

LEMMA LikeNext ==
    ASSUME NEW m, NEW r, NEW c, Sound(m), Sound(r), Started(m), Like(m, r, c)
    PROVE  Like(IssueNext(m), IssueNext(r), c)
<1> DEFINE opening == IsOpening(m)
           slots == IF opening THEN 1 ELSE PerIssue
           n == IssueSlots(m, m.next, opening, slots)
           s == IssueSlots(r, m.next, opening, slots)
<1>1. m \in CryptoBattleState /\ r \in CryptoBattleState /\ Started(r) /\ Abreast(m, r)
  BY LikeOpen DEF Sound, Like
<1>2. m.next \in Nat /\ opening \in BOOLEAN /\ slots \in Nat
  BY <1>1, RowFields, PaceAssumption DEF IsOpening
<1>3. IsOpening(r) = opening /\ r.next = m.next
  BY <1>1 DEF Abreast, IsOpening
<1>4. Gap(r, opening) = Gap(m, opening)
  BY <1>1 DEF Abreast, Gap
<1>5. IssueNext(m) = [n EXCEPT !.next = @ + Gap(m, opening)]
  BY DEF IssueNext
<1>6. IssueNext(r) = [s EXCEPT !.next = @ + Gap(m, opening)]
  <2>1. IssueNext(r) = [IssueSlots(r, r.next, IsOpening(r),
                          IF IsOpening(r) THEN 1 ELSE PerIssue)
                          EXCEPT !.next = @ + Gap(r, IsOpening(r))]
    BY DEF IssueNext
  <2> HIDE DEF opening
  <2> QED BY <1>3, <1>4, <2>1
<1> HIDE DEF opening, slots
<1>7. Like(n, s, c)
  BY <1>2, LikeSlots
<1>8. n \in CryptoBattleState /\ s \in CryptoBattleState
  BY <1>1, <1>2, SlotsArrive DEF Arrives, Sound
<1>9. n.next = s.next
  BY <1>7 DEF Like, Abreast
<1> HIDE DEF n, s
<1> DEFINE k == n.next + Gap(m, opening)
<1>10. IssueNext(m) = Postponed(n, k) /\ IssueNext(r) = Postponed(s, k)
  BY <1>5, <1>6, <1>8, <1>9 DEF CryptoBattleState, Postponed
<1> HIDE DEF k
<1>11. LET p == Postponed(n, k)
       IN  /\ p.next = k /\ p.orders = n.orders /\ p.seed = n.seed /\ p.start = n.start
           /\ p.count = n.count /\ p.duels = n.duels /\ p.score = n.score /\ p.gen = n.gen
           /\ p.timing = n.timing
  BY <1>8, PostponedFields
<1>12. LET q == Postponed(s, k)
       IN  /\ q.next = k /\ q.orders = s.orders /\ q.seed = s.seed /\ q.start = s.start
           /\ q.count = s.count /\ q.duels = s.duels /\ q.score = s.score /\ q.gen = s.gen
           /\ q.timing = s.timing
  BY <1>8, PostponedFields
<1>13. Like(Postponed(n, k), Postponed(s, k), c)
  BY <1>7, <1>11, <1>12 DEF Like, Abreast, Mirrors, End
<1> QED BY <1>10, <1>13

LEMMA LikeDue ==
    ASSUME NEW m, NEW r, NEW c, Sound(m), Sound(r), Started(m), Like(m, r, c), NEW x \in Nat,
           Parting(m, r, x)
    PROVE  Like(IssueDue(m, x), IssueDue(r, x), c)
<1>1. Started(r) /\ m.next = r.next
  BY LikeOpen DEF Like, Abreast
<1>2. IsDue(m, x) <=> IsDue(r, x)
  BY <1>1, RowFields DEF Sound, IsDue, Parting
<1>3. CASE ~IsDue(m, x)
  BY <1>2, <1>3 DEF IssueDue
<1>4. CASE IsDue(m, x)
  <2>1. PICK f : Batches(f, m, x) /\ IssueDue(m, x) = f[x - m.next + 1]
    BY <1>4, DueArrives
  <2>2. PICK g : Batches(g, r, x) /\ IssueDue(r, x) = g[x - r.next + 1]
    BY <1>1, <1>2, <1>4, DueArrives
  <2>3. ASSUME NEW k \in Nat
        PROVE  /\ Sound(f[k]) /\ Started(f[k]) /\ Sound(g[k]) /\ End(f[k]) = End(m)
               /\ End(g[k]) = End(r) /\ f[k].next \in Nat
               /\ (Like(f[k], g[k], c) => (IsDue(f[k], x) <=> IsDue(g[k], x)))
    <3>1. Arrives(m, f[k], m.next) /\ Arrives(r, g[k], r.next)
      BY <2>1, <2>2 DEF Batches
    <3>2. /\ Sound(f[k]) /\ Started(f[k]) /\ Sound(g[k]) /\ End(f[k]) = End(m)
          /\ End(g[k]) = End(r)
      BY <3>1 DEF Arrives, Untouched, Started, End
    <3>3. f[k].next \in Nat /\ End(m) \in Nat /\ End(r) \in Nat
      BY <1>1, <3>2, RowFields DEF Sound
    <3>4. Like(f[k], g[k], c) => (IsDue(f[k], x) <=> IsDue(g[k], x))
      BY <3>2, <3>3 DEF Like, Abreast, IsDue, Parting
    <3> QED BY <3>2, <3>3, <3>4
  <2> DEFINE T == {k \in Nat : Like(f[k], g[k], c)}
  <2>4. 0 \in T
    BY <2>1, <2>2 DEF Batches
  <2>5. ASSUME NEW k \in T PROVE k + 1 \in T
    <3>1. k \in Nat /\ k + 1 \in Nat /\ Like(f[k], g[k], c)
      OBVIOUS
    <3>2. /\ f[k + 1] = IF IsDue(f[k], x) THEN IssueNext(f[k]) ELSE f[k]
          /\ g[k + 1] = IF IsDue(g[k], x) THEN IssueNext(g[k]) ELSE g[k]
      BY <2>1, <2>2, <3>1 DEF Batches
    <3>3. Like(IssueNext(f[k]), IssueNext(g[k]), c)
      BY <2>3, <3>1, LikeNext
    <3>4. Like(f[k + 1], g[k + 1], c)
      BY <2>3, <3>1, <3>2, <3>3
    <3> QED BY <3>1, <3>4
  <2>6. T \in SUBSET Nat
    OBVIOUS
  <2> HIDE DEF T
  <2>7. T = Nat
    BY <2>4, <2>5, <2>6, NatSteps
  <2>8. x - m.next + 1 \in Nat
    BY RowFields, <1>4 DEF Sound, IsDue
  <2>9. Like(f[x - m.next + 1], g[x - m.next + 1], c)
    BY <2>7, <2>8 DEF T
  <2> QED BY <1>1, <2>1, <2>2, <2>9
<1> QED BY <1>3, <1>4

\* Once both are pruned, nothing is missing on either side.
LEMMA LikePrune ==
    ASSUME NEW m, NEW r, NEW c \in Int, Sound(m), Sound(r), Started(m), Like(m, r, c),
           NEW x \in Nat, c <= x - Interval * Retained
    PROVE  Like(Prune(m, x), Prune(r, x), 0)
<1> DEFINE b == x - Interval * Retained
           n == Prune(m, x)
           s == Prune(r, x)
           kept == {o \in m.orders : IsOpen(o) \/ o.issued >= b}
           keptR == {o \in r.orders : IsOpen(o) \/ o.issued >= b}
<1>1. m \in CryptoBattleState /\ r \in CryptoBattleState /\ b \in Int /\ c <= b
  BY PaceAssumption DEF Sound
<1>2. n = [m EXCEPT !.orders = kept] /\ s = [r EXCEPT !.orders = keptR]
  BY <1>1 DEF Prune, CryptoBattleState
<1>3. /\ End(r) \in Nat
      /\ \A o \in m.orders : /\ o \in Contract /\ o.issued \in Nat
                             /\ (IsOpen(Moved(o, End(r))) <=> IsOpen(o))
                             /\ Moved(o, End(r)).issued = o.issued
  BY <1>1, LikeOpen, OrderFields, MovedFields
<1> HIDE DEF kept, keptR, n, s, b
<1>4. /\ n.orders = kept /\ n.seed = m.seed /\ n.start = m.start /\ n.next = m.next
      /\ n.count = m.count /\ n.duels = m.duels /\ n.score = m.score /\ n.gen = m.gen
      /\ n.timing = m.timing
  BY <1>1, <1>2 DEF CryptoBattleState
<1>5. /\ s.orders = keptR /\ s.seed = r.seed /\ s.start = r.start /\ s.next = r.next
      /\ s.count = r.count /\ s.duels = r.duels /\ s.score = r.score /\ s.gen = r.gen
      /\ s.timing = r.timing
  BY <1>1, <1>2 DEF CryptoBattleState
<1>6. Abreast(n, s) /\ End(s) = End(r)
  BY <1>4, <1>5 DEF Like, Abreast, End
<1>7. \A q \in keptR : \E o \in kept : q = Moved(o, End(r))
  BY <1>3 DEF keptR, Like, Mirrors, kept
<1>8. \A o \in kept : Moved(o, End(r)) \in keptR
  BY <1>1, <1>3 DEF kept, Like, Mirrors, keptR
<1> QED BY <1>4, <1>5, <1>6, <1>7, <1>8 DEF Like, Mirrors, n, s

\* One tick takes both rows to the same orders, but for their end.
LEMMA LikeTick ==
    ASSUME NEW m, NEW r, NEW c \in Int, Sound(m), Sound(r), Started(m), Held(m), Held(r),
           Like(m, r, c), NEW x \in Nat, Parting(m, r, x), c <= x - Interval * Retained
    PROVE  LET n == TickAtTime(m, x)
               s == TickAtTime(r, x)
           IN  Like(n, s, 0) /\ s.phase = n.phase /\ n.now = x /\ s.now = x
<1> DEFINE a1 == ExpireRps(m, x)
           b1 == ExpireOrders(a1, x)
           c1 == IssueDue(b1, x)
           d1 == Prune(c1, x)
           a2 == ExpireRps(r, x)
           b2 == ExpireOrders(a2, x)
           c2 == IssueDue(b2, x)
           d2 == Prune(c2, x)
           n == TickAtTime(m, x)
           s == TickAtTime(r, x)
<1>0. /\ m \in CryptoBattleState /\ HeldUntil(m, x) /\ r \in CryptoBattleState /\ HeldUntil(r, x)
      /\ Started(r) /\ Abreast(m, r)
  BY LikeOpen DEF Sound, Held, HeldUntil, Like
<1>1. Carries(m, a1, x) /\ Carries(r, a2, x)
  BY <1>0, RpsCarries
<1>2. Sound(a1) /\ Started(a1) /\ HeldUntil(a1, x) /\ End(a1) = End(m)
  BY <1>1 DEF Carries, Untouched, Started, End
<1>3. Sound(a2) /\ Started(a2) /\ HeldUntil(a2, x) /\ End(a2) = End(r)
  BY <1>0, <1>1 DEF Carries, Untouched, Started, End
<1>4. Carries(a1, b1, x) /\ Carries(a2, b2, x)
  BY <1>2, <1>3, OrdersCarry
<1>5. Sound(b1) /\ Started(b1) /\ HeldUntil(b1, x) /\ End(b1) = End(m)
  BY <1>2, <1>4 DEF Carries, Untouched, Started, End
<1>6. Sound(b2) /\ Started(b2) /\ HeldUntil(b2, x) /\ End(b2) = End(r)
  BY <1>3, <1>4 DEF Carries, Untouched, Started, End
<1>7. Arrives(b1, c1, b1.next) /\ Arrives(b2, c2, b2.next)
  BY <1>5, <1>6, DueArrives
<1>8. Sound(c1) /\ Started(c1) /\ Sound(c2)
  BY <1>5, <1>7 DEF Arrives, Untouched, Started
<1>9. Parting(a1, a2, x) /\ Parting(b1, b2, x)
  BY <1>2, <1>3, <1>5, <1>6 DEF Parting
<1>10. Like(a1, a2, c)
  BY LikeRps
<1>11. Like(b1, b2, c)
  BY <1>2, <1>3, <1>9, <1>10, LikeOrders
<1>12. Like(c1, c2, c)
  BY <1>5, <1>6, <1>9, <1>11, LikeDue
<1>13. Like(d1, d2, 0)
  BY <1>8, <1>12, LikePrune
<1>14. PhaseAt(r, x - r.start) = PhaseAt(m, x - m.start)
  BY <1>0, RowFields DEF Abreast, Parting, End, PhaseAt
<1>15. /\ n = [d1 EXCEPT !.phase = PhaseAt(m, x - m.start), !.now = x]
       /\ s = [d2 EXCEPT !.phase = PhaseAt(r, x - r.start), !.now = x]
  BY <1>0 DEF TickAtTime
<1>16. Sound(d1) /\ Sound(d2)
  <2>1. HeldUntil(c1, x) /\ HeldUntil(c2, x)
    BY <1>7, <1>5, <1>6 DEF Arrives, OpenOrders, HeldUntil, Named
  <2> QED BY <1>8, <2>1, PruneCarries DEF Carries
<1> HIDE DEF a1, a2, b1, b2, c1, c2, d1, d2, n, s
<1> DEFINE p == PhaseAt(m, x - m.start)
           q == PhaseAt(r, x - r.start)
<1>20. p = q
  BY <1>14
<1>21. n = [d1 EXCEPT !.phase = p, !.now = x] /\ s = [d2 EXCEPT !.phase = q, !.now = x]
  BY <1>15
<1> HIDE DEF p, q
<1>17. /\ n.phase = p /\ n.now = x /\ n.orders = d1.orders
       /\ n.seed = d1.seed /\ n.start = d1.start /\ n.next = d1.next /\ n.count = d1.count
       /\ n.duels = d1.duels /\ n.score = d1.score /\ n.gen = d1.gen /\ n.timing = d1.timing
  BY <1>16, <1>21 DEF Sound, CryptoBattleState
<1>18. /\ s.phase = q /\ s.now = x /\ s.orders = d2.orders
       /\ s.seed = d2.seed /\ s.start = d2.start /\ s.next = d2.next /\ s.count = d2.count
       /\ s.duels = d2.duels /\ s.score = d2.score /\ s.gen = d2.gen /\ s.timing = d2.timing
  BY <1>16, <1>21 DEF Sound, CryptoBattleState
<1>19. Like(n, s, 0)
  BY <1>13, <1>17, <1>18 DEF Like, Abreast, Mirrors, End
<1> QED BY <1>17, <1>18, <1>19, <1>20 DEF n, s

-----------------------------------------------------------------------------
(* Cards under another end.                                                 *)

\* An armed card has the deadline of its order; no other card has one that counts.
CardMoves(card, other) ==
    other = card \/ (card.st = "armed" /\ other = [card EXCEPT !.expires = other.expires])

\* Once the match is over, a card that was never declared is as good as one put away.
CardsLike(m, r, over) ==
    \A t \in Teams :
        \/ CardMoves(m.cards[t], r.cards[t])
        \/ over /\ m.cards[t].st = "available" /\ r.cards[t] = [m.cards[t] EXCEPT !.st = "unused"]

\* A card with its order open and time left stays as it is.
LEMMA Unsettled ==
    ASSUME NEW n, Sound(n), NEW t \in Teams, n.now \in Nat, n.phase # "ended",
           NEW o \in OpenOrders(n), Stake(n.cards[t], t, o), ~(n.cards[t].expires <= n.now)
    PROVE  Verdict(n, t) = "none"
<1>1. n \in CryptoBattleState /\ n.cards[t].expires \in Nat
  BY RowFields DEF Sound, LightningCard
<1>2. OrderOf(n, t, n.cards[t].seq) = {o}
  BY DEF OrderOf, Stake, OpenOrders, Sound, Numbered
<1>3. o.status = "open"
  BY DEF OpenOrders, IsOpen
<1>4. ~(n.now >= n.cards[t].expires)
  BY <1>1
<1> QED BY <1>2, <1>3, <1>4 DEF Verdict

\* What a verdict looks at is the same on both sides.
LEMMA LikeVerdict ==
    ASSUME NEW n, NEW s, Sound(n), Sound(s), Started(n), Like(n, s, 0), NEW t \in Teams, NEW k
    PROVE  LET mine == OrderOf(n, t, k)
               theirs == OrderOf(s, t, k)
           IN  /\ (\E o \in mine : o.failed \/ ProofMissed(o))
                     <=> (\E o \in theirs : o.failed \/ ProofMissed(o))
               /\ (n.cards[t] = s.cards[t] /\ n.cards[t].seq = k /\ n.now = s.now
                     /\ n.phase = s.phase => Verdict(s, t) = Verdict(n, t))
<1> DEFINE mine == OrderOf(n, t, k)
           theirs == OrderOf(s, t, k)
           As(o, q) == q.status = o.status /\ q.how = o.how /\ q.step = o.step /\ q.failed = o.failed
<1>1. ASSUME NEW o \in n.orders
      PROVE  LET q == Moved(o, End(s))
             IN  q \in s.orders /\ q.team = o.team /\ q.seq = o.seq /\ As(o, q)
  <2>1. n \in CryptoBattleState /\ End(s) \in Nat
    BY LikeOpen DEF Sound
  <2>2. o \in Contract /\ o.issued \in Nat
    BY <2>1, OrderFields
  <2>3. Moved(o, End(s)) \in s.orders
    BY <2>2 DEF Like, Mirrors
  <2> QED BY <2>1, <2>2, <2>3, MovedFields
<1>2. \A q \in s.orders : \E o \in n.orders : q = Moved(o, End(s))
  BY DEF Like, Mirrors
<1>3. \A o \in mine : \E q \in theirs : As(o, q)
  BY <1>1 DEF OrderOf
<1>4. \A q \in theirs : \E o \in mine : As(o, q)
  BY <1>1, <1>2 DEF OrderOf
<1>5. (\E o \in mine : o.failed \/ ProofMissed(o)) <=> (\E o \in theirs : o.failed \/ ProofMissed(o))
  <2> HIDE DEF mine, theirs
  <2> QED BY <1>3, <1>4 DEF ProofMissed
<1>6. ASSUME n.cards[t] = s.cards[t], n.cards[t].seq = k, n.now = s.now, n.phase = s.phase
      PROVE  Verdict(s, t) = Verdict(n, t)
  <2> DEFINE done == {o \in mine : o.status = "completed"}
             lapsed == {o \in mine : o.status = "expired"}
             doneS == {o \in theirs : o.status = "completed"}
             lapsedS == {o \in theirs : o.status = "expired"}
  <2>1. /\ (\E o \in done : ProofMissed(o)) <=> (\E o \in doneS : ProofMissed(o))
        /\ (\E o \in done : o.how = "leak") <=> (\E o \in doneS : o.how = "leak")
        /\ done # {} <=> doneS # {}
        /\ (\E o \in lapsed : o.how = "rotate") <=> (\E o \in lapsedS : o.how = "rotate")
        /\ lapsed # {} <=> lapsedS # {}
    <3> HIDE DEF mine, theirs
    <3>1. (\E o \in done : ProofMissed(o)) <=> (\E o \in doneS : ProofMissed(o))
      BY <1>3, <1>4 DEF ProofMissed
    <3>2. (\E o \in done : o.how = "leak") <=> (\E o \in doneS : o.how = "leak")
      BY <1>3, <1>4
    <3>3. done # {} <=> doneS # {}
      BY <1>3, <1>4
    <3>4. (\E o \in lapsed : o.how = "rotate") <=> (\E o \in lapsedS : o.how = "rotate")
      BY <1>3, <1>4
    <3>5. lapsed # {} <=> lapsedS # {}
      BY <1>3, <1>4
    <3> QED BY <3>1, <3>2, <3>3, <3>4, <3>5
  <2>2. Verdict(n, t) = IF \E o \in done : ProofMissed(o) THEN "miss"
        ELSE IF \E o \in done : o.how = "leak" THEN "leak"
        ELSE IF done # {} THEN "hit"
        ELSE IF \E o \in lapsed : o.how = "rotate" THEN "rotate"
        ELSE IF lapsed # {} \/ n.now >= n.cards[t].expires THEN "deadline"
        ELSE IF n.phase = "ended" THEN "ended" ELSE "none"
    BY <1>6 DEF Verdict
  <2>3. Verdict(s, t) = IF \E o \in doneS : ProofMissed(o) THEN "miss"
        ELSE IF \E o \in doneS : o.how = "leak" THEN "leak"
        ELSE IF doneS # {} THEN "hit"
        ELSE IF \E o \in lapsedS : o.how = "rotate" THEN "rotate"
        ELSE IF lapsedS # {} \/ n.now >= n.cards[t].expires THEN "deadline"
        ELSE IF n.phase = "ended" THEN "ended" ELSE "none"
    BY <1>6 DEF Verdict
  <2> HIDE DEF done, lapsed, doneS, lapsedS
  <2> QED BY <2>1, <2>2, <2>3
<1> QED BY <1>5, <1>6

\* Settling keeps the cards apart by no more than the ends of their orders.
LEMMA SettleLike ==
    ASSUME NEW n, NEW s, Sound(n), Sound(s), Started(n), n.now \in Nat, s.now = n.now,
           s.phase = n.phase, Like(n, s, 0), NEW over \in BOOLEAN, CardsLike(n, s, over),
           over => n.phase = "ended", HeldUntil(n, n.now), HeldUntil(s, n.now),
           n.phase = "ended" => n.now >= End(n),
           \A t \in Teams : n.cards[t].st = "armed"
                /\ (n.cards[t].expires <= n.now \/ s.cards[t].expires <= n.now)
                   => s.cards[t] = n.cards[t]
    PROVE  \A t \in Teams : CardMoves(SettledCard(n, t), SettledCard(s, t))
<1> SUFFICES ASSUME NEW t \in Teams PROVE CardMoves(SettledCard(n, t), SettledCard(s, t))
  OBVIOUS
<1> DEFINE c == n.cards[t]
           d == s.cards[t]
           mine == \E o \in OrderOf(n, t, c.seq) : o.failed \/ ProofMissed(o)
           theirs == \E o \in OrderOf(s, t, d.seq) : o.failed \/ ProofMissed(o)
           keptC == IF mine THEN [c EXCEPT !.points = 0] ELSE c
           keptD == IF theirs THEN [d EXCEPT !.points = 0] ELSE d
<1>1. /\ n \in CryptoBattleState /\ s \in CryptoBattleState
      /\ c \in LightningCard /\ d \in LightningCard /\ c.expires \in Nat /\ d.expires \in Nat
  <2>1. n \in CryptoBattleState /\ s \in CryptoBattleState
    BY DEF Sound
  <2>2. c \in LightningCard /\ d \in LightningCard
    BY <2>1, RowFields
  <2> HIDE DEF c, d
  <2> QED BY <2>1, <2>2 DEF LightningCard
<1>2. SettledCard(n, t) = IF Stranded(n, c) THEN [c EXCEPT !.st = "unused"]
                          ELSE IF c.st # "armed" THEN c
                          ELSE IF Verdict(n, t) = "none" THEN keptC
                          ELSE [keptC EXCEPT !.st = "spent", !.result = Verdict(n, t)]
  BY DEF SettledCard
<1>3. SettledCard(s, t) = IF Stranded(s, d) THEN [d EXCEPT !.st = "unused"]
                          ELSE IF d.st # "armed" THEN d
                          ELSE IF Verdict(s, t) = "none" THEN keptD
                          ELSE [keptD EXCEPT !.st = "spent", !.result = Verdict(s, t)]
  BY DEF SettledCard
<1>4. /\ CardMoves(c, d) \/ (over /\ c.st = "available" /\ d = [c EXCEPT !.st = "unused"])
      /\ (c.st = "armed" /\ (c.expires <= n.now \/ d.expires <= n.now) => d = c)
  BY DEF CardsLike
<1>5. d.seq = c.seq => (theirs <=> mine)
  BY LikeVerdict
<1>6. d = c => Verdict(s, t) = Verdict(n, t)
  BY LikeVerdict
<1>7. ASSUME NEW m, m \in {n, s}, m.cards[t].st = "armed", ~(m.cards[t].expires <= n.now)
      PROVE  \E o \in OpenOrders(m) : Stake(m.cards[t], t, o)
  BY <1>7 DEF HeldUntil
<1> HIDE DEF mine, theirs
<1>8. CASE over /\ c.st = "available" /\ d = [c EXCEPT !.st = "unused"]
  <2>1. Stranded(n, c)
    BY <1>8 DEF Stranded
  <2>2. d.st = "unused"
    <3> HIDE DEF c, d
    <3> QED BY <1>1, <1>8 DEF LightningCard
  <2>3. ~Stranded(s, d)
    BY <2>2 DEF Stranded
  <2>4. SettledCard(s, t) = SettledCard(n, t)
    <3> HIDE DEF c, d, keptC, keptD
    <3> QED BY <1>2, <1>3, <1>8, <2>1, <2>2, <2>3
  <2> QED BY <2>4 DEF CardMoves
<1>9. CASE d = c
  <2>1. keptD = keptC
    BY <1>5, <1>9
  <2>2. Stranded(s, d) <=> Stranded(n, c)
    BY <1>9 DEF Stranded
  <2>3. SettledCard(s, t) = SettledCard(n, t)
    <3> HIDE DEF c, d, keptC, keptD
    <3> QED BY <1>2, <1>3, <1>6, <1>9, <2>1, <2>2
  <2> QED BY <2>3 DEF CardMoves
<1>10. CASE c.st = "armed" /\ d # c /\ d = [c EXCEPT !.expires = d.expires]
  <2>1. d.st = "armed" /\ d.seq = c.seq
    <3> HIDE DEF c, d
    <3> QED BY <1>1, <1>10 DEF LightningCard
  <2>2. ~(c.expires <= n.now) /\ ~(d.expires <= n.now)
    BY <1>4, <1>10
  <2>3. PICK o \in OpenOrders(n) : Stake(c, t, o)
    BY <1>7, <1>10, <2>2
  <2>4. PICK q \in OpenOrders(s) : Stake(d, t, q)
    BY <1>7, <2>1, <2>2
  <2>5. n.phase # "ended"
    <3>1. o.expires = Least(o.issued + TtlOf(o), End(n)) /\ o.expires = c.expires
      BY <2>3 DEF Sound, Deadlines, Stake
    <3>2. End(n) \in Nat /\ o.issued \in Nat /\ TtlOf(o) \in Nat
      BY <1>1, RowFields, OrderFields DEF OpenOrders
    <3> QED BY <1>1, <2>2, <3>1, <3>2 DEF Least
  <2>6. Verdict(n, t) = "none"
    BY <2>2, <2>3, <2>5, Unsettled
  <2>7. Verdict(s, t) = "none"
    BY <2>2, <2>4, <2>5, Unsettled
  <2>8. ~Stranded(n, c) /\ ~Stranded(s, d)
    BY <1>10, <2>1 DEF Stranded
  <2>9. SettledCard(n, t) = keptC /\ SettledCard(s, t) = keptD /\ (theirs <=> mine)
    <3> HIDE DEF c, d, keptC, keptD
    <3> QED BY <1>2, <1>3, <1>5, <1>10, <2>1, <2>6, <2>7, <2>8
  <2>10. keptC.st = "armed" /\ keptD = [keptC EXCEPT !.expires = keptD.expires]
    <3> HIDE DEF c, d
    <3> QED BY <1>1, <1>10, <2>9 DEF LightningCard
  <2> QED BY <2>9, <2>10 DEF CardMoves
<1> QED BY <1>4, <1>8, <1>9, <1>10 DEF CardMoves

-----------------------------------------------------------------------------
(* A tick of two rows.                                                      *)

Beside(m, r) ==
    /\ r.ready = m.ready /\ r.awarded = m.awarded /\ r.boosted = m.boosted
    /\ r.rotated = m.rotated /\ r.disclosed = m.disclosed

\* A row under another end: nothing was pruned on either side only.
Image(m, w) ==
    /\ Like(m, w, 0) /\ Beside(m, w) /\ w.phase = m.phase /\ w.now = m.now
    /\ \A t \in Teams : CardMoves(m.cards[t], w.cards[t])

\* A card that runs out at x has the same deadline on both sides.
LEMMA SameStakes ==
    ASSUME NEW m, NEW r, NEW c, Sound(m), Sound(r), Started(m), Held(m), Held(r), Like(m, r, c),
           NEW x \in Nat, Parting(m, r, x), NEW over \in BOOLEAN, CardsLike(m, r, over),
           NEW t \in Teams, m.cards[t].st = "armed",
           m.cards[t].expires <= x \/ r.cards[t].expires <= x
    PROVE  r.cards[t] = m.cards[t]
<1> DEFINE a == m.cards[t]
           b == r.cards[t]
<1>1. a \in LightningCard /\ b \in LightningCard
  BY RowFields DEF Sound
<1>2. b = a \/ b = [a EXCEPT !.expires = b.expires]
  BY DEF CardsLike, CardMoves
<1>3. b.st = "armed" /\ b.seq = a.seq
  <2>1. a.st = "armed"
    OBVIOUS
  <2> HIDE DEF a, b
  <2> QED BY <1>1, <1>2, <2>1 DEF LightningCard
<1>4. PICK o \in OpenOrders(m) : Stake(a, t, o)
  BY DEF Held
<1>5. PICK q \in OpenOrders(r) : Stake(b, t, q)
  BY <1>3 DEF Held
<1>6. {p \in OpenOrders(r) : p.expires <= x} = {p \in OpenOrders(m) : p.expires <= x}
  BY LikeLapsed
<1>7. q = o
  <2>1. q.team = o.team /\ q.seq = o.seq
    BY <1>3, <1>4, <1>5 DEF Stake
  <2>2. CASE a.expires <= x
    BY <1>4, <1>6, <2>2, <1>5, <2>1 DEF Stake, Sound, Numbered, OpenOrders
  <2>3. CASE b.expires <= x
    BY <1>5, <1>6, <2>3, <1>4, <2>1 DEF Stake, Sound, Numbered, OpenOrders
  <2> QED BY <2>2, <2>3
<1>8. b.expires = a.expires
  BY <1>4, <1>5, <1>7 DEF Stake
<1> HIDE DEF a, b
<1>9. b = a
  BY <1>1, <1>2, <1>8 DEF LightningCard
<1> QED BY <1>9 DEF a, b

\* No card of either side runs out by x under another deadline.
SameBy(m, r, x) ==
    \A t \in Teams : m.cards[t].st = "armed"
        /\ (m.cards[t].expires <= x \/ r.cards[t].expires <= x) => r.cards[t] = m.cards[t]

\* What neither the clock nor the distribution of the endgame changes.
Lasting(m, r) ==
    /\ r.seed = m.seed /\ r.ready = m.ready /\ r.start = m.start /\ r.timing = m.timing
    /\ r.reported = m.reported /\ r.rejected = m.rejected /\ r.gen = m.gen
    /\ r.rotated = m.rotated /\ r.disclosed = m.disclosed

Dealt(m) == [t \in Teams |-> IF t \in BottomTeams(m)
                             THEN [NoCard EXCEPT !.st = "available"] ELSE NoCard]

LEMMA AwardFields ==
    ASSUME NEW m, Sound(m), ~m.awarded
    PROVE  LET r == Award(m)
           IN  /\ Lasting(m, r) /\ r.orders = m.orders /\ r.count = m.count /\ r.duels = m.duels
               /\ r.score = m.score /\ r.next = m.next /\ r.now = m.now /\ r.phase = m.phase
               /\ r.awarded /\ r.boosted = LowestTeams(m) /\ r.cards = Dealt(m) /\ Sound(r)
               /\ \A t \in Teams : r.cards[t].st \notin {"armed", "spent"}
<1> DEFINE r == Award(m)
           boosted == LowestTeams(m)
           cards == Dealt(m)
<1>1. r = [m EXCEPT !.awarded = TRUE, !.boosted = boosted, !.cards = cards]
  BY DEF Award, Dealt
<1>2. m \in CryptoBattleState
  BY DEF Sound
<1>3. boosted \in SUBSET Teams
  BY DEF LowestTeams
<1>4. /\ NoCard \in LightningCard /\ NoCard.st = "none"
      /\ [NoCard EXCEPT !.st = "available"] \in LightningCard
      /\ [NoCard EXCEPT !.st = "available"].st = "available"
  BY DEF NoCard, LightningCard, Optional
<1>5. cards \in [Teams -> LightningCard] /\ \A t \in Teams : cards[t].st \notin {"armed", "spent"}
  BY <1>4 DEF Dealt
<1> HIDE DEF cards, boosted, r
<1>6. r \in CryptoBattleState
  BY <1>1, <1>2, <1>3, <1>5 DEF CryptoBattleState
<1>7. /\ Lasting(m, r) /\ r.orders = m.orders /\ r.count = m.count /\ r.duels = m.duels
      /\ r.score = m.score /\ r.next = m.next /\ r.now = m.now /\ r.phase = m.phase
      /\ r.awarded /\ r.boosted = boosted /\ r.cards = cards
  BY <1>1, <1>2 DEF CryptoBattleState, Lasting
<1>8. Sound(r)
  BY <1>6, <1>7 DEF Lasting, Sound, Numbered, Deadlines, Paired, Roomy, OpenCount, OpenOrders, End
<1> QED BY <1>5, <1>7, <1>8 DEF r, boosted, cards

LEMMA AwardLike ==
    ASSUME NEW n, NEW s, Sound(n), Sound(s), Like(n, s, 0), Beside(n, s), s.phase = n.phase,
           s.now = n.now, NEW x \in Nat, HeldUntil(n, x), HeldUntil(s, x),
           NEW over \in BOOLEAN, CardsLike(n, s, over), SameBy(n, s, x)
    PROVE  LET a == Award(n)
               b == Award(s)
           IN  /\ Sound(a) /\ Sound(b) /\ Like(a, b, 0) /\ Beside(a, b) /\ Lasting(n, a)
               /\ Lasting(s, b)
               /\ a.phase = n.phase /\ b.phase = n.phase /\ a.now = n.now /\ b.now = n.now
               /\ HeldUntil(a, x) /\ HeldUntil(b, x) /\ CardsLike(a, b, over) /\ SameBy(a, b, x)
<1> DEFINE a == Award(n)
           b == Award(s)
<1>1. s.awarded = n.awarded /\ s.score = n.score
  BY DEF Beside, Like, Abreast
<1>2. CASE n.awarded
  BY <1>1, <1>2 DEF Award, Lasting
<1>3. CASE ~n.awarded
  <2>1. /\ Lasting(n, a) /\ a.orders = n.orders /\ a.count = n.count /\ a.duels = n.duels
        /\ a.score = n.score /\ a.next = n.next /\ a.now = n.now /\ a.phase = n.phase
        /\ a.awarded /\ a.boosted = LowestTeams(n) /\ a.cards = Dealt(n) /\ Sound(a)
        /\ \A t \in Teams : a.cards[t].st \notin {"armed", "spent"}
    BY <1>3, AwardFields
  <2>2. /\ Lasting(s, b) /\ b.orders = s.orders /\ b.count = s.count /\ b.duels = s.duels
        /\ b.score = s.score /\ b.next = s.next /\ b.now = s.now /\ b.phase = s.phase
        /\ b.awarded /\ b.boosted = LowestTeams(s) /\ b.cards = Dealt(s) /\ Sound(b)
        /\ \A t \in Teams : b.cards[t].st \notin {"armed", "spent"}
    BY <1>1, <1>3, AwardFields
  <2>3. LowestTeams(s) = LowestTeams(n) /\ Dealt(s) = Dealt(n)
    BY <1>1 DEF LowestTeams, BottomTeams, Dealt
  <2> HIDE DEF a, b
  <2>4. Like(a, b, 0)
    BY <2>1, <2>2 DEF Like, Abreast, Mirrors, End, Lasting
  <2>5. a.awarded \in BOOLEAN /\ b.awarded \in BOOLEAN
    BY <2>1, <2>2, RowFields DEF Sound
  <2>6. Beside(a, b)
    BY <2>1, <2>2, <2>3, <2>5 DEF Beside, Lasting
  <2>7. HeldUntil(a, x) /\ HeldUntil(b, x) /\ CardsLike(a, b, over) /\ SameBy(a, b, x)
    BY <2>1, <2>2, <2>3 DEF HeldUntil, Named, CardsLike, CardMoves, SameBy
  <2> QED BY <2>1, <2>2, <2>4, <2>6, <2>7 DEF a, b
<1> QED BY <1>2, <1>3

\* Settling the cards changes nothing else.
LEMMA SettleFields ==
    ASSUME NEW m \in CryptoBattleState
    PROVE  LET r == SettleLightning(m)
           IN  /\ Lasting(m, r) /\ r.orders = m.orders /\ r.count = m.count /\ r.duels = m.duels
               /\ r.score = m.score /\ r.next = m.next /\ r.now = m.now /\ r.phase = m.phase
               /\ r.awarded = m.awarded /\ r.boosted = m.boosted
               /\ \A t \in Teams : r.cards[t] = SettledCard(m, t)
<1> DEFINE cards == [t \in Teams |-> SettledCard(m, t)]
           r == SettleLightning(m)
<1>1. r = [m EXCEPT !.cards = cards] /\ \A t \in Teams : cards[t] = SettledCard(m, t)
  BY DEF SettleLightning
<1> HIDE DEF cards, r
<1>2. /\ Lasting(m, r) /\ r.orders = m.orders /\ r.count = m.count /\ r.duels = m.duels
      /\ r.score = m.score /\ r.next = m.next /\ r.now = m.now /\ r.phase = m.phase
      /\ r.awarded = m.awarded /\ r.boosted = m.boosted /\ r.cards = cards
  BY <1>1 DEF CryptoBattleState, Lasting
<1> QED BY <1>1, <1>2 DEF r

\* Whether x reaches the boundary of a match that goes on beyond it.
Turns(m, x) == x >= BoundaryAt(m) /\ BoundaryAt(m) < End(m)
Turned(m, n, x) == IF Turns(m, x) THEN Award(n) ELSE n

\* What a tick leaves alone, whatever it finds.
LEMMA TickLasts ==
    ASSUME NEW m, Sound(m), Started(m), Held(m), NEW x \in Nat
    PROVE  Lasting(m, TickEvent(m, x))
<1> DEFINE n == TickAtTime(m, x)
           a == Turned(m, n, x)
           r == TickEvent(m, x)
<1>1. r = SettleLightning(a)
  BY DEF TickEvent, Turned, Turns
<1>2. Sound(n) /\ Untouched(m, n)
  BY TickCarries DEF Carries
<1> HIDE DEF n, r
<1>3. n.awarded \in BOOLEAN
  BY <1>2, RowFields DEF Sound
<1>4. Lasting(n, a) /\ Sound(a)
  BY <1>2, AwardFields DEF Turned, Award, Lasting
<1> HIDE DEF a
<1>5. Lasting(a, r)
  BY <1>1, <1>4, SettleFields DEF Sound
<1> QED BY <1>2, <1>4, <1>5 DEF Lasting, Untouched, r

\* A tick of two rows that are alike leaves the second an image of the first.
LEMMA TickLike ==
    ASSUME NEW m, NEW r, NEW c \in Int, Sound(m), Sound(r), Started(m), Held(m), Held(r),
           Like(m, r, c), Beside(m, r), NEW x \in Nat, Parting(m, r, x),
           c <= x - Interval * Retained, NEW over \in BOOLEAN, CardsLike(m, r, over),
           over => x >= End(m)
    PROVE  Image(TickEvent(m, x), TickEvent(r, x))
<1> DEFINE n == TickAtTime(m, x)
           s == TickAtTime(r, x)
           a == Turned(m, n, x)
           b == Turned(r, s, x)
           y == TickEvent(m, x)
           z == TickEvent(r, x)
<1>1. Like(n, s, 0) /\ s.phase = n.phase /\ n.now = x /\ s.now = x
  BY LikeTick
<1>2. /\ Started(r) /\ End(m) \in Nat /\ m.start \in Nat
      /\ r.start = m.start /\ r.timing.toEndgame = m.timing.toEndgame
      /\ m.timing.length \in Nat
  BY LikeOpen, RowFields DEF Like, Abreast, Sound
<1>3. Carries(m, n, x) /\ n.phase = PhaseAt(m, x - m.start)
  BY TickCarries
<1>4. Carries(r, s, x)
  BY <1>2, TickCarries
<1>5. Sound(n) /\ Sound(s) /\ HeldUntil(n, x) /\ HeldUntil(s, x) /\ Untouched(m, n) /\ Untouched(r, s)
  BY <1>3, <1>4 DEF Carries
<1>6. Beside(n, s) /\ CardsLike(n, s, over)
  BY <1>5 DEF Untouched, Beside, CardsLike
<1>7. SameBy(n, s, x)
  BY <1>5, SameStakes DEF Untouched, SameBy
<1>8. Turns(r, x) <=> Turns(m, x)
  BY <1>2, RowFields, LikeOpen DEF BoundaryAt, Sound, Turns, Parting
<1>9. n.phase = "ended" <=> x >= End(n)
  BY <1>5, <1>2, <1>3 DEF Untouched, End, PhaseAt
<1>10. over => n.phase = "ended"
  BY <1>5, <1>9 DEF Untouched, End
<1>11. y = SettleLightning(a) /\ z = SettleLightning(b)
  BY <1>2 DEF TickEvent, Turned, Turns
<1> HIDE DEF n, s, y, z
<1>12. /\ Sound(a) /\ Sound(b) /\ Like(a, b, 0) /\ Beside(a, b) /\ Lasting(n, a) /\ Lasting(s, b)
       /\ a.phase = n.phase /\ b.phase = n.phase /\ a.now = n.now /\ b.now = n.now
       /\ HeldUntil(a, x) /\ HeldUntil(b, x) /\ CardsLike(a, b, over) /\ SameBy(a, b, x)
  <2>1. CASE Turns(m, x)
    <3>1. a = Award(n) /\ b = Award(s)
      BY <1>8, <2>1 DEF Turned
    <3> HIDE DEF a, b
    <3> QED BY <1>1, <1>5, <1>6, <1>7, <3>1, AwardLike
  <2>2. CASE ~Turns(m, x)
    BY <1>1, <1>5, <1>6, <1>7, <1>8, <2>2 DEF Turned, Lasting
  <2> QED BY <2>1, <2>2
<1>13. Started(a) /\ End(a) = End(n)
  BY <1>5, <1>12 DEF Lasting, Started, End, Untouched
<1> HIDE DEF a, b
<1>14. \A t \in Teams : CardMoves(SettledCard(a, t), SettledCard(b, t))
  BY <1>1, <1>9, <1>10, <1>12, <1>13, SettleLike DEF SameBy
<1>15. a \in CryptoBattleState /\ b \in CryptoBattleState
  BY <1>12 DEF Sound
<1>16. /\ Lasting(a, y) /\ y.orders = a.orders /\ y.count = a.count /\ y.duels = a.duels
       /\ y.score = a.score /\ y.next = a.next /\ y.now = a.now /\ y.phase = a.phase
       /\ y.awarded = a.awarded /\ y.boosted = a.boosted
       /\ \A t \in Teams : y.cards[t] = SettledCard(a, t)
  BY <1>11, <1>15, SettleFields
<1>17. /\ Lasting(b, z) /\ z.orders = b.orders /\ z.count = b.count /\ z.duels = b.duels
       /\ z.score = b.score /\ z.next = b.next /\ z.now = b.now /\ z.phase = b.phase
       /\ z.awarded = b.awarded /\ z.boosted = b.boosted
       /\ \A t \in Teams : z.cards[t] = SettledCard(b, t)
  BY <1>11, <1>15, SettleFields
<1>18. Like(y, z, 0)
  BY <1>12, <1>16, <1>17 DEF Like, Abreast, Mirrors, End, Lasting
<1>19. Beside(y, z)
  BY <1>12, <1>16, <1>17 DEF Beside, Lasting
<1> QED BY <1>12, <1>14, <1>16, <1>17, <1>18, <1>19 DEF Image, y, z

LEMMA ImageSelf ==
    ASSUME NEW m, Sound(m), Started(m)
    PROVE  Image(m, m)
BY MovedSelf DEF Image, Like, Abreast, Mirrors, Beside, CardMoves

\* Where nothing was pruned, nothing was pruned before any instant.
LEMMA LikeAny ==
    ASSUME NEW m, NEW r, Sound(m), Like(m, r, 0), NEW c \in Int
    PROVE  Like(m, r, c)
BY OrderFields DEF Sound, Like, Mirrors

\* A row has one image under an end.
LEMMA ImageUnique ==
    ASSUME NEW m, NEW v, NEW w, Sound(m), Started(m), Sound(v), Sound(w), Held(v), Held(w),
           Image(m, v), Image(m, w), w.timing = v.timing, w.reported = v.reported,
           w.rejected = v.rejected
    PROVE  w = v
<1>1. w.start = v.start /\ End(w) = End(v)
  BY DEF Image, Like, Abreast, End
<1>2. \A o \in m.orders : ~(o.issued < 0)
  BY OrderFields DEF Sound
<1>3. v.orders = {Moved(o, End(v)) : o \in m.orders}
  BY <1>2 DEF Image, Like, Mirrors
<1>4. w.orders = {Moved(o, End(w)) : o \in m.orders}
  BY <1>2 DEF Image, Like, Mirrors
<1>5. w.orders = v.orders
  BY <1>1, <1>3, <1>4
<1>6. v \in CryptoBattleState /\ w \in CryptoBattleState
  BY DEF Sound
<1>7. ASSUME NEW t \in Teams PROVE w.cards[t] = v.cards[t]
  <2> DEFINE c == m.cards[t]
             a == v.cards[t]
             b == w.cards[t]
  <2>1. a \in LightningCard /\ b \in LightningCard /\ c \in LightningCard
    BY <1>6, RowFields DEF Sound
  <2>2. /\ a = c \/ (c.st = "armed" /\ a = [c EXCEPT !.expires = a.expires])
        /\ b = c \/ (c.st = "armed" /\ b = [c EXCEPT !.expires = b.expires])
    BY DEF Image, CardMoves
  <2>3. CASE c.st # "armed"
    BY <2>2, <2>3
  <2>4. CASE c.st = "armed"
    <3>1. a.st = "armed" /\ b.st = "armed" /\ a.seq = b.seq
      <4> HIDE DEF a, b, c
      <4> QED BY <2>1, <2>2, <2>4 DEF LightningCard
    <3>2. PICK o \in OpenOrders(v) : Stake(a, t, o)
      BY <3>1 DEF Held
    <3>3. PICK q \in OpenOrders(w) : Stake(b, t, q)
      BY <3>1 DEF Held
    <3>4. o = q
      BY <1>5, <3>1, <3>2, <3>3 DEF Stake, Sound, Numbered, OpenOrders
    <3>5. a.expires = b.expires
      BY <3>2, <3>3, <3>4 DEF Stake
    <3> HIDE DEF a, b, c
    <3>6. b = a
      BY <2>1, <2>2, <2>4, <3>5 DEF LightningCard
    <3> QED BY <3>6 DEF a, b
  <2> QED BY <2>3, <2>4
<1>8. w.cards = v.cards
  BY <1>6, RowFields, <1>7
<1>9. /\ w.seed = v.seed /\ w.start = v.start /\ w.next = v.next /\ w.count = v.count
      /\ w.duels = v.duels /\ w.score = v.score /\ w.gen = v.gen
      /\ w.ready = v.ready /\ w.awarded = v.awarded /\ w.boosted = v.boosted
      /\ w.rotated = v.rotated /\ w.disclosed = v.disclosed /\ w.phase = v.phase /\ w.now = v.now
  BY DEF Image, Like, Abreast, Beside
<1> QED BY <1>5, <1>6, <1>8, <1>9 DEF CryptoBattleState

-----------------------------------------------------------------------------
(* A tick that finds nothing to do.                                         *)

\* The smallest member depends on no member that is larger than one of them.
LEMMA SameSmallest ==
    ASSUME NEW S \in SUBSET Nat, NEW T \in SUBSET Nat, NEW x \in S, x \in T,
           \A y \in S : y <= x => y \in T, \A y \in T : y <= x => y \in S
    PROVE  Min(S) = Min(T)
<1>1. Min(S) \in S /\ \A y \in S : Min(S) <= y
  BY Smallest
<1>2. Min(T) \in T /\ \A y \in T : Min(T) <= y
  BY Smallest
<1>3. Min(S) \in T /\ Min(T) \in S
  BY <1>1, <1>2
<1>4. Min(S) <= Min(T) /\ Min(T) <= Min(S) /\ Min(S) \in Nat /\ Min(T) \in Nat
  BY <1>1, <1>2, <1>3
<1> QED BY <1>4

\* A row in which everything that was due is done.
Calm(m) == Poised(m) /\ Rested(m) /\ Alive(m) /\ Still(m)

Quiet(m, x) ==
    /\ ~IsDue(m, x) /\ (m.awarded \/ ~Turns(m, x))
    /\ \A o \in OpenOrders(m) : x < o.expires

\* Then only what was closed long ago and cards that were never declared change.
LEMMA QuietTick ==
    ASSUME NEW m, Sound(m), Started(m), Held(m), Still(m), NEW x \in Nat, Quiet(m, x)
    PROVE  LET r == TickEvent(m, x)
           IN  /\ r.orders = {o \in m.orders : IsOpen(o) \/ o.issued >= x - Interval * Retained}
               /\ r.count = m.count /\ r.duels = m.duels /\ r.score = m.score /\ r.next = m.next
               /\ r.awarded = m.awarded /\ r.boosted = m.boosted
               /\ r.now = x /\ r.phase = PhaseAt(m, x - m.start)
               /\ CardsLike(m, r, x >= End(m))
<1> DEFINE kept == {o \in m.orders : IsOpen(o) \/ o.issued >= x - Interval * Retained}
           p == PhaseAt(m, x - m.start)
           n == TickAtTime(m, x)
           r == TickEvent(m, x)
<1>1. m \in CryptoBattleState /\ End(m) \in Nat /\ m.start \in Nat /\ m.timing.length \in Nat
  BY RowFields DEF Sound
<1>2. IssueDue(m, x) = m
  BY DueArrives DEF Quiet
<1>3. n = [Prune(m, x) EXCEPT !.phase = p, !.now = x]
  BY <1>1, <1>2, NoneExpires DEF TickAtTime, Quiet
<1>4. Prune(m, x) = [m EXCEPT !.orders = kept]
  BY DEF Prune
<1>5. Carries(m, n, x) /\ n.phase = p
  BY TickCarries
<1>6. r = SettleLightning(Turned(m, n, x))
  BY DEF TickEvent, Turned, Turns
<1> HIDE DEF n, kept, r
<1>7. /\ n.orders = kept /\ n.count = m.count /\ n.duels = m.duels /\ n.score = m.score
      /\ n.next = m.next /\ n.awarded = m.awarded /\ n.boosted = m.boosted /\ n.now = x
      /\ n.cards = m.cards
  <2> HIDE DEF p
  <2> QED BY <1>1, <1>3, <1>4 DEF CryptoBattleState
<1>8. Turned(m, n, x) = n
  BY <1>7 DEF Quiet, Turned, Award
<1>9. Sound(n) /\ n \in CryptoBattleState
  BY <1>5 DEF Carries, Sound
<1>10. /\ r.orders = n.orders /\ r.count = n.count /\ r.duels = n.duels
       /\ r.score = n.score /\ r.next = n.next /\ r.now = n.now /\ r.phase = n.phase
       /\ r.awarded = n.awarded /\ r.boosted = n.boosted
       /\ \A t \in Teams : r.cards[t] = SettledCard(n, t)
  BY <1>6, <1>8, <1>9, SettleFields
<1>11. n.phase = "ended" <=> x >= End(m)
  BY <1>1, <1>5 DEF End, PhaseAt
<1>12. ASSUME NEW t \in Teams
       PROVE  \/ SettledCard(n, t) = m.cards[t]
              \/ /\ x >= End(m) /\ m.cards[t].st = "available"
                 /\ SettledCard(n, t) = [m.cards[t] EXCEPT !.st = "unused"]
  <2> DEFINE c == m.cards[t]
             before == \E o \in OrderOf(m, t, c.seq) : o.failed \/ ProofMissed(o)
             after == \E o \in OrderOf(n, t, c.seq) : o.failed \/ ProofMissed(o)
             keptM == IF before THEN [c EXCEPT !.points = 0] ELSE c
             keptN == IF after THEN [c EXCEPT !.points = 0] ELSE c
  <2>1. n.cards[t] = c /\ SettledCard(m, t) = c
    BY <1>7 DEF Still
  <2>2. SettledCard(m, t) = IF Stranded(m, c) THEN [c EXCEPT !.st = "unused"]
                            ELSE IF c.st # "armed" THEN c
                            ELSE IF Verdict(m, t) = "none" THEN keptM
                            ELSE [keptM EXCEPT !.st = "spent", !.result = Verdict(m, t)]
    BY DEF SettledCard
  <2>3. SettledCard(n, t) = IF Stranded(n, c) THEN [c EXCEPT !.st = "unused"]
                            ELSE IF c.st # "armed" THEN c
                            ELSE IF Verdict(n, t) = "none" THEN keptN
                            ELSE [keptN EXCEPT !.st = "spent", !.result = Verdict(n, t)]
    BY <2>1 DEF SettledCard
  <2>4. c \in LightningCard
    BY <1>1, RowFields
  <2>5. CASE c.st = "available"
    BY <1>11, <2>3, <2>5 DEF Stranded
  <2>6. CASE c.st \notin {"available", "armed"}
    BY <2>3, <2>6 DEF Stranded
  <2>7. CASE c.st = "armed"
    <3>1. PICK o \in OpenOrders(m) : Stake(c, t, o)
      BY <2>7 DEF Held
    <3>2. o \in m.orders /\ IsOpen(o) /\ x < o.expires /\ o.expires = c.expires
      BY <3>1 DEF Quiet, Stake, OpenOrders
    <3>3. o \in OpenOrders(n)
      BY <1>7, <3>2 DEF OpenOrders, kept
    <3>4. OrderOf(m, t, c.seq) = {o}
      BY <3>1, <3>2 DEF OrderOf, Stake, Sound, Numbered
    <3>5. OrderOf(n, t, c.seq) = {o}
      BY <3>1, <3>3, <1>9 DEF OrderOf, Stake, Sound, Numbered, OpenOrders
    <3>6. x < End(m) /\ c.expires \in Nat
      <4>1. o.issued \in Nat /\ o.expires \in Nat /\ TtlOf(o) \in Nat
        BY <1>1, <3>2, OrderFields
      <4>2. o.expires = Least(o.issued + TtlOf(o), End(m))
        BY <1>1 DEF Sound, Deadlines
      <4> QED BY <1>1, <3>2, <4>1, <4>2 DEF Least
    <3>7. n.phase # "ended"
      BY <1>1, <1>11, <3>6
    <3>8. Verdict(n, t) = "none"
      <4>1. ~(c.expires <= n.now) /\ n.now \in Nat
        BY <1>7, <3>2, <3>6
      <4> QED BY <1>9, <2>1, <3>1, <3>3, <3>7, <4>1, Unsettled
    <3>9. Verdict(m, t) = "none"
      <4> SUFFICES ASSUME Verdict(m, t) # "none" PROVE FALSE
        OBVIOUS
      <4>1. c = [keptM EXCEPT !.st = "spent", !.result = Verdict(m, t)]
        BY <2>1, <2>2, <2>7 DEF Stranded
      <4>2. keptM \in LightningCard
        <5> HIDE DEF c, before
        <5> QED BY <2>4 DEF LightningCard
      <4> HIDE DEF c, keptM
      <4>3. c.st = "spent"
        BY <4>1, <4>2 DEF LightningCard
      <4> QED BY <2>7, <4>3
    <3>10. keptN = keptM
      BY <3>4, <3>5
    <3>11. ~Stranded(n, c) /\ ~Stranded(m, c)
      BY <2>7 DEF Stranded
    <3> HIDE DEF keptN, keptM, c
    <3> QED BY <2>1, <2>2, <2>3, <2>7, <3>8, <3>9, <3>10, <3>11 DEF c
  <2> QED BY <2>5, <2>6, <2>7
<1>13. CardsLike(m, r, x >= End(m))
  BY <1>10, <1>12 DEF CardsLike, CardMoves
<1> QED BY <1>5, <1>7, <1>10, <1>13 DEF r, kept, p

\* A tick drops what was closed long ago.
Recent(m, x) == \A o \in m.orders : IsOpen(o) \/ o.issued >= x - Interval * Retained

LEMMA TickPrunes ==
    ASSUME NEW m, Sound(m), Started(m), Held(m), NEW x \in Nat
    PROVE  Recent(TickEvent(m, x), x)
<1> DEFINE a == ExpireRps(m, x)
           b == ExpireOrders(a, x)
           c == IssueDue(b, x)
           d == Prune(c, x)
           n == TickAtTime(m, x)
           r == TickEvent(m, x)
           p == PhaseAt(m, x - m.start)
<1>1. HeldUntil(m, x)
  BY DEF Held, HeldUntil
<1>2. Carries(m, a, x)
  BY <1>1, RpsCarries
<1>3. Sound(a) /\ Started(a) /\ HeldUntil(a, x)
  BY <1>2 DEF Carries, Untouched, Started
<1>4. Carries(a, b, x)
  BY <1>3, OrdersCarry
<1>5. Sound(b) /\ Started(b)
  BY <1>3, <1>4 DEF Carries, Untouched, Started
<1>6. c \in CryptoBattleState
  BY <1>5, DueArrives DEF Arrives, Sound
<1>7. d.orders = {o \in c.orders : IsOpen(o) \/ o.issued >= x - Interval * Retained}
      /\ d \in CryptoBattleState
  BY <1>6 DEF Prune, CryptoBattleState
<1>8. n = [d EXCEPT !.phase = p, !.now = x]
  BY DEF TickAtTime
<1>9. Sound(n)
  BY TickCarries DEF Carries
<1>10. r = SettleLightning(Turned(m, n, x))
  BY DEF TickEvent, Turned, Turns
<1> HIDE DEF a, b, c, d, n, r, p
<1>11. n.orders = d.orders
  BY <1>7, <1>8 DEF CryptoBattleState
<1>12. n.awarded \in BOOLEAN
  BY <1>9, RowFields DEF Sound
<1>13. Turned(m, n, x).orders = n.orders /\ Sound(Turned(m, n, x))
  BY <1>9, AwardFields DEF Turned, Award
<1>14. r.orders = n.orders
  BY <1>10, <1>13, SettleFields DEF Sound
<1> QED BY <1>7, <1>11, <1>14 DEF Recent, r

\* Ticks that find nothing to do may be left out.
LEMMA QuietLike ==
    ASSUME NEW m, Sound(m), Started(m), Held(m), Still(m), NEW x \in Nat, Quiet(m, x)
    PROVE  LET r == TickEvent(m, x)
           IN  /\ Like(m, r, x - Interval * Retained) /\ Beside(m, r) /\ Lasting(m, r)
               /\ r.next = m.next /\ OpenOrders(r) = OpenOrders(m)
               /\ CardsLike(m, r, x >= End(m))
<1> DEFINE r == TickEvent(m, x)
<1>1. /\ r.orders = {o \in m.orders : IsOpen(o) \/ o.issued >= x - Interval * Retained}
      /\ r.count = m.count /\ r.duels = m.duels /\ r.score = m.score /\ r.next = m.next
      /\ r.awarded = m.awarded /\ r.boosted = m.boosted
      /\ CardsLike(m, r, x >= End(m))
  BY QuietTick
<1>2. Lasting(m, r)
  BY TickLasts
<1> HIDE DEF r
<1>3. End(r) = End(m)
  BY <1>2 DEF Lasting, End
<1>4. \A o \in m.orders : Moved(o, End(m)) = o /\ o.issued \in Nat
  BY MovedSelf, OrderFields DEF Sound
<1>5. x - Interval * Retained \in Int
  BY PaceAssumption
<1>6. Mirrors(m, r, x - Interval * Retained)
  BY <1>1, <1>3, <1>4, <1>5 DEF Mirrors
<1>7. Abreast(m, r) /\ Beside(m, r)
  BY <1>1, <1>2 DEF Abreast, Beside, Lasting
<1>8. OpenOrders(r) = OpenOrders(m)
  BY <1>1 DEF OpenOrders
<1> QED BY <1>1, <1>2, <1>6, <1>7, <1>8 DEF Like, r

LEMMA QuietAbsorbed ==
    ASSUME NEW m, Sound(m), Started(m), Held(m), Still(m), NEW x \in Nat, Quiet(m, x),
           NEW y \in Nat, x <= y
    PROVE  TickEvent(TickEvent(m, x), y) = TickEvent(m, y)
<1> DEFINE r == TickEvent(m, x)
           v == TickEvent(m, y)
           w == TickEvent(r, y)
           c == x - Interval * Retained
           over == x >= End(m)
<1>1. Like(m, r, c) /\ Beside(m, r) /\ Lasting(m, r) /\ CardsLike(m, r, over)
  BY QuietLike
<1>2. Sound(r) /\ Held(r)
  BY TickTicks DEF Ticked
<1> HIDE DEF r
<1>3. Started(r) /\ End(r) = End(m) /\ End(m) \in Nat
  BY <1>1, RowFields DEF Lasting, Started, End, Sound
<1>4. Parting(m, r, y)
  BY <1>3 DEF Parting
<1>5. c \in Int /\ c <= y - Interval * Retained /\ over \in BOOLEAN /\ (over => y >= End(m))
  BY <1>3, PaceAssumption
<1> HIDE DEF c, over
<1>6. Image(v, w)
  BY <1>1, <1>2, <1>4, <1>5, TickLike
<1>7. Lasting(m, v) /\ Ticked(m, v, y)
  BY TickLasts, TickTicks
<1>8. Lasting(r, w) /\ Ticked(r, w, y)
  BY <1>2, <1>3, TickLasts, TickTicks
<1> HIDE DEF v, w
<1>9. Sound(v) /\ Held(v) /\ Sound(w) /\ Held(w) /\ Started(v)
  BY <1>7, <1>8 DEF Ticked, Lasting, Started
<1>10. Image(v, v)
  BY <1>9, ImageSelf
<1>11. w.timing = v.timing /\ w.reported = v.reported /\ w.rejected = v.rejected
  BY <1>1, <1>7, <1>8 DEF Lasting
<1>12. w = v
  BY <1>6, <1>9, <1>10, <1>11, ImageUnique
<1> QED BY <1>12 DEF v, w, r

\* A second tick at the same instant changes nothing.
LEMMA TickTwice ==
    ASSUME NEW m, Poised(m), NEW x \in Nat, Now(m) <= x, ~IsDue(m, x) \/ x <= m.next
    PROVE  TickEvent(TickEvent(m, x), x) = TickEvent(m, x)
<1> DEFINE r == TickEvent(m, x)
           s == TickEvent(r, x)
<1>1. Poised(r) /\ Rested(r) /\ Ticked(m, r, x) /\ Now(r) = x /\ Alive(r)
  BY TickPoised
<1>2. Recent(r, x)
  BY TickPrunes DEF Poised
<1> HIDE DEF r
<1>3. Sound(r) /\ Held(r) /\ Started(r) /\ Still(r) /\ r.now = x /\ r \in CryptoBattleState
  BY <1>1 DEF Ticked, Poised, Sound
<1>4. Quiet(r, x)
  BY <1>1, <1>3 DEF Quiet, Rested, Alive, Turns
<1>5. /\ s.orders = {o \in r.orders : IsOpen(o) \/ o.issued >= x - Interval * Retained}
      /\ s.count = r.count /\ s.duels = r.duels /\ s.score = r.score /\ s.next = r.next
      /\ s.awarded = r.awarded /\ s.boosted = r.boosted
      /\ s.now = x /\ s.phase = PhaseAt(r, x - r.start) /\ CardsLike(r, s, x >= End(r))
  BY <1>3, <1>4, QuietTick
<1>6. Lasting(r, s) /\ Sound(s) /\ Held(s)
  BY <1>3, TickLasts, TickTicks DEF Ticked
<1> HIDE DEF s
<1>7. s.orders = r.orders
  BY <1>2, <1>5 DEF Recent
<1>8. s.phase = r.phase
  BY <1>1, <1>5 DEF Ticked, PhaseAt
<1>9. \A t \in Teams : CardMoves(r.cards[t], s.cards[t])
  <2>1. r.phase = "ended" <=> x >= End(r)
    BY <1>3, <1>5, <1>8, RowFields DEF PhaseAt, End
  <2>2. x >= End(r) => \A t \in Teams : r.cards[t].st # "available"
    BY <1>1, <2>1 DEF Ticked
  <2> QED BY <1>5, <2>2 DEF CardsLike
<1>10. End(s) = End(r) /\ \A o \in r.orders : Moved(o, End(r)) = o
  BY <1>3, <1>6, MovedSelf DEF Lasting, End
<1>11. Image(r, s)
  BY <1>3, <1>5, <1>6, <1>7, <1>8, <1>9, <1>10 DEF Image, Like, Abreast, Mirrors, Beside, Lasting
<1>12. Image(r, r)
  BY <1>3, ImageSelf
<1>13. s = r
  BY <1>3, <1>6, <1>11, <1>12, ImageUnique DEF Lasting
<1> QED BY <1>13 DEF r, s

-----------------------------------------------------------------------------
(* Looking at the clock on the way.                                         *)

\* The instants at which something happens that was not done yet.
Instants(m) ==
    (IF m.next >= Now(m) /\ m.next < End(m) THEN {m.next} ELSE {})
        \cup {o.expires : o \in {p \in OpenOrders(m) : p.expires > Now(m)}}
        \cup (IF ~m.awarded /\ BoundaryAt(m) >= Now(m) /\ BoundaryAt(m) < End(m)
              THEN {BoundaryAt(m)} ELSE {})

LEMMA NextOfInstants ==
    ASSUME NEW m \in CryptoBattleState, Started(m), NEW at \in Nat
    PROVE  /\ Instants(m) \in SUBSET Nat /\ {at} \cup Instants(m) \in SUBSET Nat
           /\ NextInstant(m, at) = Min({at} \cup Instants(m))
<1>1. m.next \in Nat /\ BoundaryAt(m) \in Nat /\ \A o \in OpenOrders(m) : o.expires \in Nat
  BY RowFields, OrderFields DEF OpenOrders
<1>2. Instants(m) \in SUBSET Nat
  BY <1>1 DEF Instants
<1>3. {x \in {o.expires : o \in OpenOrders(m)} : x > Now(m)}
        = {o.expires : o \in {p \in OpenOrders(m) : p.expires > Now(m)}}
  OBVIOUS
<1> DEFINE A == IF m.next >= Now(m) /\ m.next < End(m) THEN {m.next} ELSE {}
           B == {x \in {o.expires : o \in OpenOrders(m)} : x > Now(m)}
           C == IF ~m.awarded /\ BoundaryAt(m) >= Now(m) /\ BoundaryAt(m) < End(m)
                THEN {BoundaryAt(m)} ELSE {}
<1>4. NextInstant(m, at) = Min({at} \cup A \cup B \cup C)
  BY DEF NextInstant
<1>5. {at} \cup A \cup B \cup C = {at} \cup Instants(m)
  <2>1. Instants(m) = A \cup B \cup C
    BY <1>3 DEF Instants
  <2> HIDE DEF A, B, C
  <2> QED BY <2>1
<1> HIDE DEF A, B, C
<1> QED BY <1>2, <1>4, <1>5

\* What is next up to one instant is next up to a later one.
LEMMA NextUpTo ==
    ASSUME NEW m \in CryptoBattleState, Started(m), NEW early \in Nat, NEW at \in Nat, early <= at
    PROVE  LET x == NextInstant(m, early)
               y == NextInstant(m, at)
           IN  /\ x \in Nat /\ y \in Nat /\ x <= early /\ y <= at
               /\ x < early => y = x
               /\ x = early => early <= y
               /\ \A e \in Instants(m) : y <= e /\ e \in Nat
               /\ y = at \/ y \in Instants(m)
<1> DEFINE E == Instants(m)
           S == {early} \cup E
           T == {at} \cup E
           x == Min(S)
           y == Min(T)
<1>1. E \in SUBSET Nat /\ S \in SUBSET Nat /\ NextInstant(m, early) = x
  BY NextOfInstants
<1>2. T \in SUBSET Nat /\ NextInstant(m, at) = y
  BY NextOfInstants
<1>3. x \in S /\ \A e \in S : x <= e
  <2>1. early \in S
    OBVIOUS
  <2> HIDE DEF S
  <2> QED BY <1>1, <2>1, Smallest
<1>4. y \in T /\ \A e \in T : y <= e
  <2>1. at \in T
    OBVIOUS
  <2> HIDE DEF T
  <2> QED BY <1>2, <2>1, Smallest
<1> HIDE DEF E, x, y
<1>5. x \in Nat /\ y \in Nat /\ x <= early /\ y <= at
  BY <1>1, <1>2, <1>3, <1>4
<1>6. x < early => y = x
  BY <1>3, <1>5, <1>4
<1>7. x = early => early <= y
  BY <1>1, <1>3, <1>4, <1>5
<1>8. \A e \in E : y <= e /\ e \in Nat
  BY <1>1, <1>4
<1>9. y = at \/ y \in E
  BY <1>4
<1> QED BY <1>1, <1>2, <1>5, <1>6, <1>7, <1>8, <1>9 DEF E

LEMMA CalmTicks ==
    ASSUME NEW m, Poised(m), NEW at \in Nat, Now(m) <= at
    PROVE  LET x == NextInstant(m, at)
               r == TickEvent(m, x)
           IN  /\ x \in Nat /\ Now(m) <= x /\ x <= at /\ (~IsDue(m, x) \/ x <= m.next)
               /\ Calm(r) /\ Now(r) = x /\ Ticked(m, r, x) /\ Lasting(m, r)
<1> DEFINE x == NextInstant(m, at)
           r == TickEvent(m, x)
<1>1. /\ x \in Nat /\ Now(m) <= x /\ x <= at
      /\ (Now(m) <= m.next /\ m.next < End(m) => x <= m.next)
  BY InstantAhead DEF Poised
<1>2. Now(m) \in Nat /\ m.next \in Nat
  BY NowType, RowFields DEF Poised, Sound
<1>3. ~IsDue(m, x) \/ x <= m.next
  BY <1>1, <1>2 DEF IsDue, Poised
<1> HIDE DEF x
<1>4. Poised(r) /\ Rested(r) /\ Ticked(m, r, x) /\ Now(r) = x /\ Alive(r)
  BY <1>1, <1>3, TickPoised
<1>5. Lasting(m, r)
  BY <1>1, TickLasts DEF Poised
<1> QED BY <1>1, <1>3, <1>4, <1>5 DEF Calm, Ticked, x

\* Before the first of these instants there is nothing to do.
LEMMA CalmIsQuiet ==
    ASSUME NEW m, Calm(m), NEW x \in Nat, Now(m) <= x, \A e \in Instants(m) : x < e
    PROVE  Quiet(m, x)
<1>1. /\ m \in CryptoBattleState /\ m.now = Now(m) /\ Now(m) \in Nat /\ m.next \in Nat
      /\ BoundaryAt(m) \in Nat /\ End(m) \in Nat /\ m.awarded \in BOOLEAN
  BY NowType, RowFields, AmountsAssumption DEF Calm, Poised, Sound, Rested, Now
<1>2. ~IsDue(m, x)
  BY <1>1 DEF IsDue, Calm, Poised, Instants
<1>3. m.awarded \/ ~Turns(m, x)
  BY <1>1 DEF Turns, Calm, Rested, Instants
<1>4. ASSUME NEW o \in OpenOrders(m) PROVE x < o.expires
  BY <1>1, OrderFields DEF Calm, Alive, OpenOrders, Instants
<1> QED BY <1>2, <1>3, <1>4 DEF Quiet

\* and a tick there changes nothing of what comes next.
LEMMA QuietInstants ==
    ASSUME NEW m, Calm(m), NEW x \in Nat, Now(m) <= x, \A e \in Instants(m) : x < e
    PROVE  Instants(TickEvent(m, x)) = Instants(m)
<1> DEFINE r == TickEvent(m, x)
<1>1. Quiet(m, x)
  BY CalmIsQuiet
<1>2. Sound(m) /\ Started(m) /\ Held(m) /\ Still(m) /\ Alive(m) /\ m \in CryptoBattleState
  BY DEF Calm, Poised, Sound
<1>3. /\ Lasting(m, r) /\ Beside(m, r) /\ r.next = m.next /\ OpenOrders(r) = OpenOrders(m)
  BY <1>1, <1>2, QuietLike
<1>4. Now(r) = x
  BY <1>2, TickPoised DEF Calm
<1> HIDE DEF r
<1>5. /\ End(r) = End(m) /\ BoundaryAt(r) = BoundaryAt(m) /\ r.awarded = m.awarded
  BY <1>3 DEF Lasting, Beside, End, BoundaryAt
<1>6. /\ Now(m) \in Nat /\ m.next \in Nat /\ BoundaryAt(m) \in Nat /\ End(m) \in Nat
      /\ \A o \in OpenOrders(m) : o.expires \in Nat
  BY <1>2, NowType, RowFields, OrderFields DEF OpenOrders
<1>7. m.next >= x /\ m.next < End(m) <=> m.next >= Now(m) /\ m.next < End(m)
  BY <1>6 DEF Instants
<1>8. \A o \in OpenOrders(m) : o.expires > x <=> o.expires > Now(m)
  BY <1>6 DEF Instants
<1>9. ~m.awarded /\ BoundaryAt(m) >= x /\ BoundaryAt(m) < End(m)
        <=> ~m.awarded /\ BoundaryAt(m) >= Now(m) /\ BoundaryAt(m) < End(m)
  BY <1>6 DEF Instants
<1>10. {p \in OpenOrders(r) : p.expires > x} = {p \in OpenOrders(m) : p.expires > Now(m)}
  BY <1>3, <1>8
<1>11. Instants(r) = Instants(m)
  BY <1>3, <1>4, <1>5, <1>7, <1>9, <1>10 DEF Instants
<1> QED BY <1>11 DEF r

\* A replay that stops on the way leads to the same row.
LEMMA ReplayStops ==
    ASSUME NEW m, Calm(m), NEW early \in Nat, NEW at \in Nat, Now(m) <= early, early <= at,
           NextInstant(m, early) = early
    PROVE  Replay(Replay(m, early), at) = Replay(m, at)
<1> DEFINE r == TickEvent(m, early)
           y == NextInstant(m, at)
           z == NextInstant(r, at)
<1>1. Poised(m) /\ Sound(m) /\ Started(m) /\ Held(m) /\ Still(m) /\ m \in CryptoBattleState
  BY DEF Calm, Poised, Sound
<1>2. Replay(m, early) = r
  BY <1>1, ReplaySteps
<1>3. /\ Calm(r) /\ Now(r) = early /\ (~IsDue(m, early) \/ early <= m.next)
  BY <1>1, CalmTicks
<1>4. Poised(r) /\ r \in CryptoBattleState /\ Started(r)
  BY <1>3 DEF Calm, Poised, Sound
<1>5. /\ y \in Nat /\ early <= y /\ y <= at
      /\ (\A e \in Instants(m) : y <= e /\ e \in Nat) /\ (y = at \/ y \in Instants(m))
  BY <1>1, NextUpTo
<1>6. Replay(m, at) = IF y = at THEN TickEvent(m, at) ELSE Replay(TickEvent(m, y), at)
  BY <1>1, NowType, ReplaySteps
<1>7. Replay(r, at) = IF z = at THEN TickEvent(r, at) ELSE Replay(TickEvent(r, z), at)
  BY <1>3, <1>4, ReplaySteps
<1>8. CASE early = at
  <2>1. z = at
    <3>1. z \in Nat /\ Now(r) <= z /\ z <= at
      BY <1>3, <1>4, CalmTicks
    <3> HIDE DEF z, r
    <3> QED BY <1>3, <1>8, <3>1
  <2>2. TickEvent(r, early) = r
    BY <1>1, <1>3, TickTwice
  <2>3. y = at
    BY <1>5, <1>8
  <2> HIDE DEF r, y, z
  <2> QED BY <1>2, <1>6, <1>7, <1>8, <2>1, <2>2, <2>3 DEF r
<1>9. CASE early < at /\ y = early
  <2> HIDE DEF y
  <2> QED BY <1>2, <1>6, <1>9
<1>10. CASE early < at /\ y # early
  <2>1. early < y /\ \A e \in Instants(m) : early < e
    <3> HIDE DEF y
    <3>1. early < y
      BY <1>5, <1>10
    <3>2. \A e \in Instants(m) : early < e
      BY <1>5, <3>1
    <3> QED BY <3>1, <3>2
  <2>2. Quiet(m, early)
    BY <2>1, CalmIsQuiet
  <2>3. Instants(r) = Instants(m)
    BY <2>1, QuietInstants
  <2>4. z = y
    <3>1. z = Min({at} \cup Instants(r))
      BY <1>4, NextOfInstants
    <3>2. y = Min({at} \cup Instants(m))
      BY <1>1, NextOfInstants
    <3> HIDE DEF y, z, r
    <3> QED BY <2>3, <3>1, <3>2
  <2>5. TickEvent(r, y) = TickEvent(m, y)
    BY <1>1, <1>5, <2>1, <2>2, QuietAbsorbed
  <2> HIDE DEF r, y, z
  <2> QED BY <1>2, <1>6, <1>7, <2>4, <2>5
<1> HIDE DEF r, y, z
<1> QED BY <1>8, <1>9, <1>10

LEMMA ReplayOn ==
    ASSUME NEW m, Calm(m), NEW early \in Nat, NEW at \in Nat, Now(m) <= early, early <= at
    PROVE  Replay(Replay(m, early), at) = Replay(m, at)
<1> DEFINE Same(n) == Replay(Replay(n, early), at) = Replay(n, at)
           Far(n, k) == Calm(n) /\ Now(n) <= early /\ early - Now(n) <= k
           T == {k \in Nat : \A n \in CryptoBattleState : Far(n, k) => Same(n)}
<1>1. \A n : Calm(n) => n \in CryptoBattleState /\ Now(n) \in Nat /\ Poised(n)
  BY NowType DEF Calm, Poised, Sound
<1>2. ASSUME NEW n, Calm(n), Now(n) <= early, NextInstant(n, early) # early
      PROVE  LET x == NextInstant(n, early)
                 r == TickEvent(n, x)
             IN  /\ Calm(r) /\ Now(r) \in Nat /\ Now(n) < Now(r) /\ Now(r) <= early
                 /\ Same(r) => Same(n)
  <2> DEFINE x == NextInstant(n, early)
             y == NextInstant(n, at)
             r == TickEvent(n, x)
  <2>1. n \in CryptoBattleState /\ Now(n) \in Nat /\ Poised(n) /\ Started(n) /\ Sound(n) /\ Rested(n)
    BY <1>1, <1>2 DEF Calm, Poised
  <2>2. x \in Nat /\ Calm(r) /\ Now(r) = x /\ x <= early
    BY <1>2, <2>1, CalmTicks
  <2>3. Now(n) < x
    BY <1>2, <2>1, InstantAhead
  <2>4. x < early
    <3> HIDE DEF x
    <3> QED BY <1>2, <2>2 DEF x
  <2>5. y = x
    BY <2>1, <2>4, NextUpTo
  <2>6. Replay(n, early) = Replay(r, early)
    BY <1>2, <2>1, ReplaySteps
  <2>7. Replay(n, at) = Replay(r, at)
    <3>1. Now(n) <= at /\ y # at
      <4> HIDE DEF x, y
      <4> QED BY <1>2, <2>1, <2>2, <2>4, <2>5
    <3>2. Replay(n, at) = Replay(TickEvent(n, y), at)
      BY <2>1, <3>1, ReplaySteps
    <3> HIDE DEF y
    <3> QED BY <2>5, <3>2
  <2> HIDE DEF x, y, r
  <2>8. Same(r) => Same(n)
    BY <2>6, <2>7
  <2> QED BY <2>2, <2>3, <2>8 DEF r, x
<1>3. 0 \in T
  <2> SUFFICES ASSUME NEW n \in CryptoBattleState, Calm(n), Now(n) <= early, early - Now(n) <= 0
               PROVE  Same(n)
    OBVIOUS
  <2>1. Now(n) = early
    BY <1>1
  <2>2. NextInstant(n, early) = early
    BY <1>2, <2>1
  <2> QED BY <2>1, <2>2, ReplayStops
<1>4. ASSUME NEW k \in T PROVE k + 1 \in T
  <2> SUFFICES ASSUME NEW n \in CryptoBattleState, Calm(n), Now(n) <= early, early - Now(n) <= k + 1
               PROVE  Same(n)
    OBVIOUS
  <2>1. CASE NextInstant(n, early) = early
    BY <2>1, ReplayStops
  <2>2. CASE NextInstant(n, early) # early
    <3>1. PICK r : /\ Calm(r) /\ Now(r) \in Nat /\ Now(n) < Now(r) /\ Now(r) <= early
                   /\ Same(r) => Same(n)
      BY <1>2, <2>2
    <3>2. r \in CryptoBattleState /\ Now(n) \in Nat /\ k \in Nat
      BY <1>1, <3>1
    <3>3. early - Now(r) <= k
      BY <3>1, <3>2
    <3>4. Far(r, k)
      BY <3>1, <3>3
    <3>5. Same(r)
      <4> HIDE DEF Same, Far
      <4> QED BY <3>2, <3>4
    <3> QED BY <3>1, <3>5
  <2> QED BY <2>1, <2>2
<1>5. T \in SUBSET Nat
  OBVIOUS
<1> HIDE DEF T
<1>6. early - Now(m) \in T
  BY <1>1, <1>3, <1>4, <1>5, NatSteps
<1>7. Far(m, early - Now(m)) /\ m \in CryptoBattleState
  BY <1>1
<1> HIDE DEF Far, Same
<1>8. Same(m)
  BY <1>6, <1>7 DEF T
<1> QED BY <1>8 DEF Same

-----------------------------------------------------------------------------
(* Reports of the end on the way.                                           *)

\* A moved end leaves an image of the row.
LEMMA RescheduleImage ==
    ASSUME NEW m, Sound(m), Started(m), NEW length \in Nat, NEW timing,
           timing \in [length : Nat, toPressure : Nat, toEndgame : Nat], timing.length = length,
           timing.toPressure = m.timing.toPressure, timing.toEndgame = m.timing.toEndgame
    PROVE  LET r == [Rescheduled(m, length) EXCEPT !.timing = timing]
           IN  Image(m, r) /\ r.reported = m.reported /\ r.rejected = m.rejected /\ r.timing = timing
<1> DEFINE newEnd == m.start + length
           new(o) == IF IsOpen(o) THEN [o EXCEPT !.expires = Deadline(o, End(m), newEnd)] ELSE o
           orders == {new(o) : o \in m.orders}
           moved == orders \ m.orders
           cards == [t \in Teams |-> CardMoved(m.cards[t], t, moved)]
           r == [Rescheduled(m, length) EXCEPT !.timing = timing]
<1>1. m \in CryptoBattleState /\ m.start \in Nat /\ End(m) \in Nat /\ newEnd \in Nat
  BY RowFields DEF Sound
<1>2. r = [m EXCEPT !.orders = orders, !.cards = cards, !.timing = timing]
  <2>1. Rescheduled(m, length) = [m EXCEPT !.orders = orders, !.cards = [t \in Teams |-> CardMoved(@[t], t, moved)]]
    BY DEF Rescheduled
  <2> HIDE DEF orders, moved
  <2> QED BY <1>1, <2>1 DEF CryptoBattleState
<1>3. ASSUME NEW o \in m.orders PROVE new(o) = Moved(o, newEnd)
  <2>1. o.expires \in Nat /\ o.issued \in Nat /\ TtlOf(o) \in Nat
    BY <1>1, OrderFields
  <2>2. IsOpen(o) => o.expires = Least(o.issued + TtlOf(o), End(m))
    BY DEF Sound, Deadlines, OpenOrders
  <2>3. IsOpen(o) => Deadline(o, End(m), newEnd) = Least(o.issued + TtlOf(o), newEnd)
    BY <1>1, <2>1, <2>2 DEF Deadline, Least
  <2> QED BY <2>3 DEF Moved
<1>4. ASSUME NEW t \in Teams PROVE CardMoves(m.cards[t], cards[t])
  <2> DEFINE card == m.cards[t]
             e == (CHOOSE o \in moved : o.team = t /\ o.seq = card.seq).expires
  <2>1. card \in LightningCard
    BY <1>1, RowFields
  <2>2. \/ cards[t] = card
        \/ card.st = "armed" /\ cards[t] = [card EXCEPT !.expires = e]
    BY DEF CardMoved
  <2> HIDE DEF card, e, cards
  <2>3. CASE cards[t] = card
    BY <2>3 DEF CardMoves, card
  <2>4. CASE card.st = "armed" /\ cards[t] = [card EXCEPT !.expires = e]
    BY <2>1, <2>4 DEF LightningCard, CardMoves, card
  <2> QED BY <2>2, <2>3, <2>4
<1>5. orders = {Moved(o, newEnd) : o \in m.orders}
  <2> HIDE DEF new
  <2> QED BY <1>3
<1> HIDE DEF orders, cards, r, new, moved
<1>6. /\ r.orders = orders /\ r.cards = cards /\ r.timing = timing
      /\ r.seed = m.seed /\ r.phase = m.phase /\ r.ready = m.ready /\ r.now = m.now
      /\ r.start = m.start /\ r.next = m.next /\ r.reported = m.reported
      /\ r.rejected = m.rejected /\ r.count = m.count /\ r.duels = m.duels
      /\ r.score = m.score /\ r.awarded = m.awarded /\ r.boosted = m.boosted
      /\ r.gen = m.gen /\ r.rotated = m.rotated /\ r.disclosed = m.disclosed
  BY <1>1, <1>2 DEF CryptoBattleState
<1>7. End(r) = newEnd
  BY <1>6 DEF End
<1>8. Like(m, r, 0)
  BY <1>5, <1>6, <1>7 DEF Like, Abreast, Mirrors
<1> QED BY <1>4, <1>6, <1>8 DEF Image, Beside, r

\* An image of a calm row that has not reached its end is calm.
LEMMA ImageCalm ==
    ASSUME NEW m, Calm(m), NEW w, Poised(w), Image(m, w), m.phase # "ended",
           m.now < End(m), m.now < End(w)
    PROVE  Calm(w)
<1>1. /\ m \in CryptoBattleState /\ w \in CryptoBattleState /\ Sound(m) /\ Sound(w) /\ Started(m)
      /\ Started(w) /\ Held(m) /\ Held(w) /\ m.now \in Nat
  BY DEF Calm, Poised, Sound, Rested
<1>2. /\ w.now = m.now /\ w.next = m.next /\ w.start = m.start /\ w.awarded = m.awarded
      /\ BoundaryAt(w) = BoundaryAt(m) /\ w.phase = m.phase
  BY DEF Image, Like, Abreast, Beside, BoundaryAt
<1>3. /\ End(m) \in Nat /\ End(w) \in Nat /\ m.next \in Nat /\ BoundaryAt(m) \in Nat
      /\ Now(m) = m.now /\ Now(w) = m.now
  BY <1>1, <1>2, RowFields, AmountsAssumption DEF Now
<1>4. Rested(w)
  BY <1>1, <1>2, <1>3 DEF Calm, Rested, IsDue
<1>5. Parting(m, w, m.now)
  BY DEF Parting
<1>6. Like(m, w, 0)
  BY DEF Image
<1>7. Alive(w)
  <2>1. {o \in OpenOrders(w) : o.expires <= m.now} = {o \in OpenOrders(m) : o.expires <= m.now}
    BY <1>1, <1>5, <1>6, LikeLapsed
  <2>2. \A o \in OpenOrders(m) : o.expires \in Nat /\ ~(o.expires <= m.now)
    BY <1>1, <1>3, OrderFields DEF Calm, Alive, OpenOrders
  <2>3. \A o \in OpenOrders(w) : o.expires \in Nat /\ ~(o.expires <= m.now)
    BY <1>1, OrderFields, <2>1, <2>2 DEF OpenOrders
  <2> QED BY <1>1, <1>3, <2>3 DEF Alive
<1>8. ASSUME NEW t \in Teams PROVE SettledCard(w, t) = w.cards[t]
  <2> DEFINE c == m.cards[t]
             d == w.cards[t]
             mine == \E o \in OrderOf(m, t, c.seq) : o.failed \/ ProofMissed(o)
             theirs == \E o \in OrderOf(w, t, d.seq) : o.failed \/ ProofMissed(o)
             keptC == IF mine THEN [c EXCEPT !.points = 0] ELSE c
             keptD == IF theirs THEN [d EXCEPT !.points = 0] ELSE d
  <2>1. c \in LightningCard /\ d \in LightningCard /\ CardMoves(c, d)
    BY <1>1, RowFields DEF Image
  <2>2. SettledCard(m, t) = IF Stranded(m, c) THEN [c EXCEPT !.st = "unused"]
                            ELSE IF c.st # "armed" THEN c
                            ELSE IF Verdict(m, t) = "none" THEN keptC
                            ELSE [keptC EXCEPT !.st = "spent", !.result = Verdict(m, t)]
    BY DEF SettledCard
  <2>3. SettledCard(w, t) = IF Stranded(w, d) THEN [d EXCEPT !.st = "unused"]
                            ELSE IF d.st # "armed" THEN d
                            ELSE IF Verdict(w, t) = "none" THEN keptD
                            ELSE [keptD EXCEPT !.st = "spent", !.result = Verdict(w, t)]
    BY DEF SettledCard
  <2>4. ~Stranded(m, c) /\ ~Stranded(w, d)
    BY <1>2 DEF Stranded
  <2>5. SettledCard(m, t) = c
    BY DEF Calm, Still
  <2>6. d.st = c.st /\ d.seq = c.seq /\ d.points = c.points
    <3> HIDE DEF c, d
    <3> QED BY <2>1 DEF CardMoves, LightningCard
  <2>7. CASE c.st # "armed"
    BY <2>3, <2>4, <2>6, <2>7
  <2>8. CASE c.st = "armed"
    <3>1. PICK o \in OpenOrders(m) : Stake(c, t, o)
      BY <1>1, <2>8 DEF Held
    <3>2. PICK q \in OpenOrders(w) : Stake(d, t, q)
      BY <1>1, <2>6, <2>8 DEF Held
    <3>3. ~(c.expires <= m.now) /\ ~(d.expires <= w.now)
      <4>1. c.expires = o.expires /\ Now(m) < o.expires /\ o.expires \in Nat
        BY <1>1, <3>1, OrderFields DEF Calm, Alive, Stake, OpenOrders
      <4>2. d.expires = q.expires /\ Now(w) < q.expires /\ q.expires \in Nat
        BY <1>1, <1>7, <3>2, OrderFields DEF Alive, Stake, OpenOrders
      <4> QED BY <1>1, <1>2, <1>3, <4>1, <4>2
    <3>4. Verdict(m, t) = "none"
      BY <1>1, <3>1, <3>3, Unsettled
    <3>5. Verdict(w, t) = "none"
      BY <1>1, <1>2, <3>2, <3>3, Unsettled
    <3>6. theirs <=> mine
      BY <1>1, <1>6, <2>6, LikeVerdict
    <3>7. keptC = c
      <4> HIDE DEF keptC, c, d
      <4> QED BY <2>2, <2>4, <2>5, <2>8, <3>4
    <3>8. keptD = d
      <4>1. CASE mine
        <5>1. c = [c EXCEPT !.points = 0]
          BY <3>7, <4>1
        <5> HIDE DEF c, d, mine, theirs
        <5>2. c.points = 0
          BY <2>1, <5>1 DEF LightningCard
        <5>3. d.points = 0
          BY <2>6, <5>2
        <5> QED BY <2>1, <5>3 DEF LightningCard
      <4>2. CASE ~mine
        BY <3>6, <4>2
      <4> QED BY <4>1, <4>2
    <3> HIDE DEF keptC, keptD, c, d
    <3> QED BY <2>3, <2>4, <2>6, <2>8, <3>5, <3>8 DEF d
  <2> QED BY <2>7, <2>8
<1> QED BY <1>4, <1>7, <1>8 DEF Calm, Still

\* What a report says that is seen after START.
Heard(m, w, reported) ==
    IF reported > Longest
    THEN w.rejected = TRUE /\ w.reported = m.reported /\ w.timing = m.timing
    ELSE w.rejected = FALSE /\ w.reported = reported /\ w.timing = TimingAfter(m, reported - m.start)

LEMMA SettledCalm ==
    ASSUME NEW m, Settled(m), Started(m)
    PROVE  Calm(m)
BY SettledPoised DEF Calm, Settled

LEMMA DurationImages ==
    ASSUME NEW m, Settled(m), Started(m), NEW reported \in Int, m.now < reported, m.now < End(m)
    PROVE  LET w == WithMatchDuration(m, reported)
           IN  /\ Image(m, w) /\ Calm(w) /\ Heard(m, w, reported)
               /\ End(w) = IF reported > Longest THEN End(m) ELSE reported
<1> DEFINE w == WithMatchDuration(m, reported)
           accepted == [m EXCEPT !.rejected = FALSE, !.reported = reported]
           length == Greatest(0, reported - m.start)
           timing == TimingAfter(m, length)
<1>1. /\ m \in CryptoBattleState /\ m.start \in Nat /\ End(m) \in Nat /\ m.now \in Nat
      /\ m.start <= m.now /\ m.phase # "ended" /\ Sound(m) /\ Calm(m)
      /\ m.timing \in [length : Nat, toPressure : Nat, toEndgame : Nat]
  BY RowFields, SettledCalm DEF Settled, Sound
<1>2. reported \in Nat /\ reported # None /\ ~(reported <= 0) /\ length = reported - m.start
      /\ length \in Nat
  BY <1>1, AmountsAssumption DEF Greatest
<1>3. timing \in [length : Nat, toPressure : Nat, toEndgame : Nat] /\ timing.length = length
      /\ timing.toPressure = m.timing.toPressure /\ timing.toEndgame = m.timing.toEndgame
      /\ (length = m.timing.length => timing = m.timing)
  <2> HIDE DEF length
  <2> QED BY <1>1, <1>2 DEF TimingAfter
<1>4. Poised(w) /\ w.now = m.now /\ Started(w)
  BY <1>1, <1>2, DurationPoises
<1>5. Image(m, m)
  BY <1>1, ImageSelf
<1>6. w = IF reported > Longest THEN [m EXCEPT !.rejected = TRUE]
          ELSE IF length = m.timing.length THEN accepted
          ELSE [Rescheduled(accepted, length) EXCEPT !.timing = timing]
  BY <1>1, <1>2 DEF WithMatchDuration, Follows
<1> HIDE DEF w, timing
<1>7. Image(m, w) /\ Heard(m, w, reported)
  <2>1. CASE reported > Longest
    <3>1. w = [m EXCEPT !.rejected = TRUE]
      BY <1>6, <2>1
    <3>2. w.rejected = TRUE /\ w.reported = m.reported /\ w.timing = m.timing
      BY <1>1, <3>1 DEF CryptoBattleState
    <3>3. Image(m, w)
      <4>1. /\ w.orders = m.orders /\ w.cards = m.cards
            /\ w.seed = m.seed /\ w.phase = m.phase /\ w.ready = m.ready /\ w.now = m.now
            /\ w.start = m.start /\ w.next = m.next /\ w.count = m.count /\ w.duels = m.duels
            /\ w.score = m.score /\ w.awarded = m.awarded /\ w.boosted = m.boosted
            /\ w.gen = m.gen /\ w.rotated = m.rotated /\ w.disclosed = m.disclosed
        BY <1>1, <3>1 DEF CryptoBattleState
      <4> QED BY <1>5, <3>2, <4>1 DEF Image, Like, Abreast, Mirrors, Beside, End
    <3> QED BY <2>1, <3>2, <3>3 DEF Heard
  <2>2. CASE ~(reported > Longest)
    <3>1. /\ accepted.orders = m.orders /\ accepted.cards = m.cards
          /\ accepted.seed = m.seed /\ accepted.phase = m.phase /\ accepted.ready = m.ready
          /\ accepted.now = m.now /\ accepted.timing = m.timing
          /\ accepted.start = m.start /\ accepted.next = m.next /\ accepted.count = m.count
          /\ accepted.duels = m.duels /\ accepted.score = m.score
          /\ accepted.awarded = m.awarded /\ accepted.boosted = m.boosted
          /\ accepted.gen = m.gen /\ accepted.rotated = m.rotated
          /\ accepted.disclosed = m.disclosed
          /\ accepted.rejected = FALSE /\ accepted.reported = reported
          /\ accepted \in CryptoBattleState
      BY <1>1, <1>2 DEF CryptoBattleState, Optional
    <3> HIDE DEF accepted
    <3>2. Sound(accepted) /\ Started(accepted)
      BY <1>1, <3>1 DEF Sound, Numbered, Deadlines, Paired, Roomy, OpenCount, OpenOrders, End,
         Started
    <3>3. CASE length = m.timing.length
      <4>1. w = accepted
        BY <1>6, <2>2, <3>3
      <4>2. Image(m, w)
        BY <1>5, <3>1, <4>1 DEF Image, Like, Abreast, Mirrors, Beside, End
      <4>3. w.timing = TimingAfter(m, reported - m.start)
        BY <1>3, <3>3, <1>2, <3>1, <4>1 DEF timing
      <4> QED BY <2>2, <3>1, <4>1, <4>2, <4>3 DEF Heard
    <3>4. CASE length # m.timing.length
      <4>1. w = [Rescheduled(accepted, length) EXCEPT !.timing = timing]
        BY <1>6, <2>2, <3>4
      <4> HIDE DEF length
      <4>2. Image(accepted, w) /\ w.reported = reported /\ w.rejected = FALSE /\ w.timing = timing
        BY <1>2, <1>3, <3>1, <3>2, <4>1, RescheduleImage
      <4>3. Image(m, w)
        BY <3>1, <4>2 DEF Image, Like, Abreast, Mirrors, Beside, End
      <4>4. w.timing = TimingAfter(m, reported - m.start)
        BY <1>2, <4>2 DEF timing
      <4> QED BY <2>2, <4>2, <4>3, <4>4 DEF Heard
    <3> QED BY <3>3, <3>4
  <2> QED BY <2>1, <2>2
<1>8. End(w) = IF reported > Longest THEN End(m) ELSE reported
  <2>1. w.start = m.start
    BY <1>7 DEF Image, Like, Abreast
  <2>2. CASE reported > Longest
    BY <1>7, <2>1, <2>2 DEF Heard, End
  <2>3. CASE ~(reported > Longest)
    BY <1>1, <1>2, <1>7, <2>3, <2>1 DEF Heard, TimingAfter, End
  <2> QED BY <2>2, <2>3
<1>9. Calm(w)
  BY <1>8, <1>1, <1>4, <1>7, ImageCalm
<1> QED BY <1>7, <1>8, <1>9 DEF w

\* The same instants come next under either end, as long as both lie ahead.
LEMMA SameInstants ==
    ASSUME NEW m, NEW w, Calm(m), Calm(w), Image(m, w), NEW early \in Nat,
           early < End(m), early < End(w)
    PROVE  Now(w) = Now(m) /\ NextInstant(w, early) = NextInstant(m, early)
<1> DEFINE S == {early} \cup Instants(m)
           T == {early} \cup Instants(w)
<1>1. /\ m \in CryptoBattleState /\ w \in CryptoBattleState /\ Sound(m) /\ Sound(w) /\ Started(m)
      /\ Started(w)
  BY DEF Calm, Poised, Sound
<1>2. /\ w.now = m.now /\ w.next = m.next /\ w.start = m.start /\ w.awarded = m.awarded
      /\ BoundaryAt(w) = BoundaryAt(m) /\ Now(w) = Now(m)
  BY DEF Image, Like, Abreast, Beside, BoundaryAt, Now
<1>3. /\ End(m) \in Nat /\ End(w) \in Nat /\ m.next \in Nat /\ BoundaryAt(m) \in Nat
      /\ Now(m) \in Nat
  BY <1>1, RowFields, NowType
<1>4. Parting(m, w, early)
  BY DEF Parting
<1>5. {o \in OpenOrders(w) : o.expires <= early} = {o \in OpenOrders(m) : o.expires <= early}
  BY <1>1, <1>4, LikeLapsed DEF Image
<1>6. ASSUME NEW e \in Instants(m), e <= early PROVE e \in Instants(w)
  <2>1. CASE \E o \in OpenOrders(m) : o.expires > Now(m) /\ e = o.expires
    BY <1>2, <1>5, <1>6, <2>1 DEF Instants
  <2>2. CASE m.next >= Now(m) /\ m.next < End(m) /\ e = m.next
    BY <1>2, <1>3, <1>6, <2>2 DEF Instants
  <2>3. CASE ~m.awarded /\ BoundaryAt(m) >= Now(m) /\ BoundaryAt(m) < End(m) /\ e = BoundaryAt(m)
    BY <1>2, <1>3, <1>6, <2>3 DEF Instants
  <2> QED BY <2>1, <2>2, <2>3 DEF Instants
<1>7. ASSUME NEW e \in Instants(w), e <= early PROVE e \in Instants(m)
  <2>1. CASE \E o \in OpenOrders(w) : o.expires > Now(w) /\ e = o.expires
    BY <1>2, <1>5, <1>7, <2>1 DEF Instants
  <2>2. CASE w.next >= Now(w) /\ w.next < End(w) /\ e = w.next
    BY <1>2, <1>3, <1>7, <2>2 DEF Instants
  <2>3. CASE ~w.awarded /\ BoundaryAt(w) >= Now(w) /\ BoundaryAt(w) < End(w) /\ e = BoundaryAt(w)
    BY <1>2, <1>3, <1>7, <2>3 DEF Instants
  <2> QED BY <2>1, <2>2, <2>3 DEF Instants
<1>8. S \in SUBSET Nat /\ NextInstant(m, early) = Min(S)
  BY <1>1, NextOfInstants
<1>9. T \in SUBSET Nat /\ NextInstant(w, early) = Min(T)
  BY <1>1, NextOfInstants
<1>10. /\ early \in S /\ early \in T /\ (\A y \in S : y <= early => y \in T)
       /\ (\A y \in T : y <= early => y \in S)
  BY <1>6, <1>7
<1> HIDE DEF S, T
<1>11. Min(S) = Min(T)
  BY <1>8, <1>9, <1>10, SameSmallest
<1> QED BY <1>2, <1>8, <1>9, <1>11

\* A tick before either end leaves an image of an image.
LEMMA TickImages ==
    ASSUME NEW m, NEW w, Calm(m), Calm(w), Image(m, w), NEW x \in Nat, x < End(m), x < End(w)
    PROVE  /\ Image(TickEvent(m, x), TickEvent(w, x))
           /\ Lasting(m, TickEvent(m, x)) /\ Lasting(w, TickEvent(w, x))
<1> DEFINE c == x - Interval * Retained
<1>1. Sound(m) /\ Sound(w) /\ Started(m) /\ Started(w) /\ Held(m) /\ Held(w)
  BY DEF Calm, Poised
<1>2. c \in Int /\ c <= x - Interval * Retained
  BY PaceAssumption
<1>3. Like(m, w, c)
  BY <1>1, <1>2, LikeAny DEF Image
<1> HIDE DEF c
<1>4. Beside(m, w) /\ CardsLike(m, w, FALSE) /\ Parting(m, w, x)
  BY DEF Image, CardsLike, Parting
<1>5. Image(TickEvent(m, x), TickEvent(w, x))
  BY <1>1, <1>2, <1>3, <1>4, TickLike
<1>6. Lasting(m, TickEvent(m, x))
  BY <1>1, TickLasts
<1>7. Lasting(w, TickEvent(w, x))
  BY <1>1, TickLasts
<1> QED BY <1>5, <1>6, <1>7

LEMMA ReplayImages ==
    ASSUME NEW m, NEW w, Calm(m), Calm(w), Image(m, w), NEW early \in Nat, Now(m) <= early,
           early < End(m), early < End(w)
    PROVE  /\ Image(Replay(m, early), Replay(w, early))
           /\ Lasting(m, Replay(m, early)) /\ Lasting(w, Replay(w, early))
<1> DEFINE Goal(n, v) == /\ Image(Replay(n, early), Replay(v, early))
                         /\ Lasting(n, Replay(n, early)) /\ Lasting(v, Replay(v, early))
           Near(n, v) == /\ Calm(n) /\ Calm(v) /\ Image(n, v) /\ Now(n) <= early
                         /\ early < End(n) /\ early < End(v)
           Far(n, v, k) == Near(n, v) /\ early - Now(n) <= k
           T == {k \in Nat : \A n, v \in CryptoBattleState : Far(n, v, k) => Goal(n, v)}
<1>1. \A n : Calm(n) => /\ n \in CryptoBattleState /\ Now(n) \in Nat /\ Poised(n) /\ Sound(n)
                        /\ Started(n) /\ Rested(n)
  BY NowType DEF Calm, Poised, Sound
<1>2. ASSUME NEW n, NEW v, Near(n, v), NextInstant(n, early) = early PROVE Goal(n, v)
  BY <1>2, SameInstants, <1>1, ReplaySteps, TickImages
<1>3. ASSUME NEW n, NEW v, Near(n, v), NextInstant(n, early) # early
      PROVE  \E r, s : Near(r, s) /\ Now(n) < Now(r) /\ (Goal(r, s) => Goal(n, v))
  <2> DEFINE x == NextInstant(n, early)
             r == TickEvent(n, x)
             s == TickEvent(v, x)
  <2>1. Now(v) = Now(n) /\ NextInstant(v, early) = x
    BY <1>3, SameInstants
  <2>2. /\ x \in Nat /\ x <= early /\ Calm(r) /\ Now(r) = x
    BY <1>1, <1>3, CalmTicks
  <2>3. Calm(s)
    <3>1. Poised(v) /\ Now(v) <= early
      BY <1>1, <1>3, <2>1
    <3>2. Calm(TickEvent(v, NextInstant(v, early)))
      BY <3>1, CalmTicks
    <3> HIDE DEF x
    <3> QED BY <2>1, <3>2
  <2>4. Now(n) < x
    <3>1. x = early \/ Now(n) < x
      BY <1>1, <1>3, InstantAhead
    <3> HIDE DEF x
    <3> QED BY <1>3, <3>1 DEF x
  <2>5. x < End(n) /\ x < End(v)
    <3>1. End(n) \in Nat /\ End(v) \in Nat
      BY <1>1, <1>3, RowFields
    <3> HIDE DEF x
    <3> QED BY <1>3, <2>2, <3>1
  <2>6. Replay(n, early) = Replay(r, early)
    BY <1>1, <1>3, ReplaySteps
  <2>7. Replay(v, early) = Replay(s, early)
    <3>1. Replay(v, early) = Replay(TickEvent(v, NextInstant(v, early)), early)
      BY <1>1, <1>3, <2>1, ReplaySteps
    <3> HIDE DEF x
    <3> QED BY <2>1, <3>1
  <2> HIDE DEF x
  <2>8. Image(r, s) /\ Lasting(n, r) /\ Lasting(v, s)
    BY <1>3, <2>2, <2>5, TickImages
  <2> HIDE DEF r, s
  <2>9. End(r) = End(n) /\ End(s) = End(v)
    BY <2>8 DEF Lasting, End
  <2>10. Near(r, s)
    BY <1>3, <2>2, <2>3, <2>8, <2>9
  <2>11. Goal(r, s) => Goal(n, v)
    BY <2>6, <2>7, <2>8 DEF Lasting
  <2> HIDE DEF Goal, Near
  <2> QED BY <2>2, <2>4, <2>10, <2>11
<1>4. 0 \in T
  <2> SUFFICES ASSUME NEW n \in CryptoBattleState, NEW v \in CryptoBattleState, Near(n, v),
                      early - Now(n) <= 0
               PROVE  Goal(n, v)
    OBVIOUS
  <2>1. NextInstant(n, early) = early
    <3> SUFFICES ASSUME NextInstant(n, early) # early PROVE FALSE
      OBVIOUS
    <3>1. PICK r, s : Near(r, s) /\ Now(n) < Now(r)
      BY <1>3
    <3>2. Now(r) \in Nat /\ Now(n) \in Nat /\ Now(r) <= early
      BY <1>1, <3>1
    <3> QED BY <3>1, <3>2
  <2> QED BY <1>2, <2>1
<1>5. ASSUME NEW k \in T PROVE k + 1 \in T
  <2> SUFFICES ASSUME NEW n \in CryptoBattleState, NEW v \in CryptoBattleState, Near(n, v),
                      early - Now(n) <= k + 1
               PROVE  Goal(n, v)
    OBVIOUS
  <2>1. CASE NextInstant(n, early) = early
    BY <1>2, <2>1
  <2>2. CASE NextInstant(n, early) # early
    <3>1. PICK r, s : Near(r, s) /\ Now(n) < Now(r) /\ (Goal(r, s) => Goal(n, v))
      BY <1>3, <2>2
    <3>2. /\ r \in CryptoBattleState /\ s \in CryptoBattleState /\ Now(r) \in Nat /\ Now(n) \in Nat
          /\ k \in Nat
      BY <1>1, <3>1
    <3>3. early - Now(r) <= k
      BY <3>1, <3>2
    <3>4. Far(r, s, k)
      BY <3>1, <3>3
    <3>5. Goal(r, s)
      <4> HIDE DEF Goal, Far
      <4> QED BY <3>2, <3>4
    <3> QED BY <3>1, <3>5
  <2> QED BY <2>1, <2>2
<1>6. T \in SUBSET Nat
  OBVIOUS
<1> HIDE DEF T
<1>7. early - Now(m) \in T
  BY <1>1, <1>4, <1>5, <1>6, NatSteps
<1>8. Far(m, w, early - Now(m)) /\ m \in CryptoBattleState /\ w \in CryptoBattleState
  BY <1>1
<1> HIDE DEF Far, Near, Goal
<1>9. Goal(m, w)
  BY <1>7, <1>8 DEF T
<1> QED BY <1>9 DEF Goal

-----------------------------------------------------------------------------
(* Polling is immaterial.                                                   *)

\* Before START a report is recorded and nothing else happens.
Noted(m, reported) ==
    IF reported = None THEN <<m.rejected, m.reported, m.timing>>
    ELSE IF reported <= 0 \/ reported > Longest THEN <<TRUE, m.reported, m.timing>>
    ELSE <<FALSE, reported, Thirds(reported)>>

Waited(m, at, reported) ==
    [m EXCEPT !.rejected = Noted(m, reported)[1], !.reported = Noted(m, reported)[2],
              !.timing = Noted(m, reported)[3], !.phase = "waiting", !.now = at]

LEMMA WaitingTick ==
    ASSUME NEW m \in CryptoBattleState, ~Started(m), m.phase # "ended", NEW at \in Nat,
           m.now # None => m.now <= at, NEW reported \in Int \cup {None}
    PROVE  Tick(m, at, reported) = Waited(m, at, reported)
<1> DEFINE w == WithMatchDuration(m, reported)
           a == Noted(m, reported)[1]
           b == Noted(m, reported)[2]
           c == Noted(m, reported)[3]
<1>1. m.now \in Nat \cup {None} /\ m.start = None
  BY RowFields DEF Started
<1>2. ~(m.now # None /\ at < m.now)
  BY <1>1
<1>3. w = [m EXCEPT !.rejected = a, !.reported = b, !.timing = c]
  <2>1. CASE reported = None
    <3>1. w = m /\ a = m.rejected /\ b = m.reported /\ c = m.timing
      BY <2>1 DEF WithMatchDuration, Noted
    <3> HIDE DEF w, a, b, c
    <3> QED BY <3>1 DEF CryptoBattleState
  <2>2. CASE reported # None /\ (reported <= 0 \/ reported > Longest)
    <3>1. w = [m EXCEPT !.rejected = TRUE] /\ a = TRUE /\ b = m.reported /\ c = m.timing
      BY <2>2 DEF WithMatchDuration, Noted, Follows
    <3> HIDE DEF w, a, b, c
    <3> QED BY <3>1 DEF CryptoBattleState
  <2>3. CASE reported # None /\ ~(reported <= 0 \/ reported > Longest)
    <3>1. a = FALSE /\ b = reported /\ c = Thirds(reported)
      BY <2>3 DEF Noted
    <3> DEFINE accepted == [m EXCEPT !.rejected = FALSE, !.reported = reported]
               timing == Thirds(reported)
    <3>2. w = [accepted EXCEPT !.timing = timing]
      BY <2>3, <1>1 DEF WithMatchDuration, Follows, Started
    <3> HIDE DEF w, a, b, c, timing
    <3>3. a = FALSE /\ b = reported /\ c = timing
      BY <3>1 DEF timing
    <3> QED BY <3>2, <3>3 DEF CryptoBattleState
  <2> QED BY <2>1, <2>2, <2>3
<1>4. Tick(m, at, reported) = Advance(w, at)
  BY <1>2 DEF Tick
<1> HIDE DEF w, a, b, c
<1>5. w.now = m.now /\ w.start = None
  BY <1>1, <1>3 DEF CryptoBattleState
<1>6. Advance(w, at) = [w EXCEPT !.phase = "waiting", !.now = at]
  BY <1>2, <1>5 DEF Advance, TickAtTime, Started
<1>7. Advance(w, at) = [m EXCEPT !.rejected = a, !.reported = b, !.timing = c,
                                 !.phase = "waiting", !.now = at]
  BY <1>3, <1>6
<1> QED BY <1>4, <1>7 DEF a, b, c, Waited

LEMMA PollingWaiting ==
    ASSUME NEW m, Settled(m), ~Started(m), NEW early \in Nat, NEW at \in Nat, early <= at,
           m.now # None => m.now <= early, NEW reported \in Int \cup {None}
    PROVE  Tick(Tick(m, early, None), at, reported) = Tick(m, at, reported)
<1> DEFINE p == Tick(m, early, None)
           a == Noted(m, reported)[1]
           b == Noted(m, reported)[2]
           c == Noted(m, reported)[3]
<1>1. m \in CryptoBattleState /\ m.phase = "waiting" /\ m.now \in Nat \cup {None} /\ m.start = None
  BY RowFields DEF Settled, Sound, Started
<1>2. /\ Noted(m, None)[1] = m.rejected /\ Noted(m, None)[2] = m.reported
      /\ Noted(m, None)[3] = m.timing
  BY DEF Noted
<1>3. p = [m EXCEPT !.rejected = m.rejected, !.reported = m.reported, !.timing = m.timing,
                    !.phase = "waiting", !.now = early]
  <2>1. Tick(m, early, None) = Waited(m, early, None)
    BY <1>1, WaitingTick
  <2> QED BY <1>2, <2>1 DEF Waited
<1>4. Tick(m, at, reported) = [m EXCEPT !.rejected = a, !.reported = b, !.timing = c,
                                        !.phase = "waiting", !.now = at]
  <2>1. m.now # None => m.now <= at
    BY <1>1
  <2>2. Tick(m, at, reported) = Waited(m, at, reported)
    BY <1>1, <2>1, WaitingTick
  <2> QED BY <2>2 DEF Waited
<1> HIDE DEF p, a, b, c
<1>5. p = [m EXCEPT !.now = early]
  BY <1>1, <1>3 DEF CryptoBattleState
<1>6. /\ p \in CryptoBattleState /\ p.start = None /\ p.phase = "waiting" /\ p.now = early
      /\ p.rejected = m.rejected /\ p.reported = m.reported /\ p.timing = m.timing
  BY <1>1, <1>5 DEF CryptoBattleState, Optional
<1>7. Noted(p, reported) = Noted(m, reported)
  BY <1>6 DEF Noted
<1>8. Tick(p, at, reported) = [p EXCEPT !.rejected = a, !.reported = b, !.timing = c,
                                        !.phase = "waiting", !.now = at]
  <2>0. ~Started(p)
    BY <1>6 DEF Started
  <2>1. Tick(p, at, reported) = Waited(p, at, reported)
    BY <1>6, <2>0, WaitingTick
  <2> QED BY <1>7, <2>1 DEF a, b, c, Waited
<1>9. Tick(p, at, reported) = Tick(m, at, reported)
  <2>1. [p EXCEPT !.rejected = a, !.reported = b, !.timing = c, !.phase = "waiting", !.now = at]
          = [m EXCEPT !.rejected = a, !.reported = b, !.timing = c, !.phase = "waiting", !.now = at]
    BY <1>1, <1>5 DEF CryptoBattleState
  <2> QED BY <1>4, <1>8, <2>1
<1> QED BY <1>9 DEF p

\* After START a tick is a replay under the end that was reported.
LEMMA StartedTick ==
    ASSUME NEW m, Settled(m), Started(m), NEW at \in Nat, m.now <= at,
           NEW reported \in Int \cup {None}, reported # None => reported >= at \/ reported <= 0
    PROVE  Tick(m, at, reported) = Replay(WithMatchDuration(m, reported), at)
<1> DEFINE w == WithMatchDuration(m, reported)
<1>1. m.now \in Nat
  BY SettledPoised
<1>2. w.now = m.now /\ Started(w)
  BY <1>1, DurationPoises
<1>3. ~(m.now # None /\ at < m.now)
  BY <1>1
<1> HIDE DEF w
<1> QED BY <1>2, <1>3 DEF Tick, Advance, w

LEMMA PollingStarted ==
    ASSUME NEW m, Settled(m), Started(m), NEW early \in Nat, NEW at \in Nat, m.now <= early,
           early <= at, NEW reported \in Int \cup {None},
           reported # None => reported >= at /\ reported > early /\ early < End(m)
    PROVE  Tick(Tick(m, early, None), at, reported) = Tick(m, at, reported)
<1> DEFINE p == Tick(m, early, None)
           w == WithMatchDuration(m, reported)
           v == WithMatchDuration(p, reported)
           z == Replay(w, early)
<1>1. m.now \in Nat /\ Now(m) = m.now /\ Calm(m) /\ Poised(m) /\ End(m) \in Nat /\ m.now <= at
  BY SettledPoised, SettledCalm, RowFields DEF Settled, Sound
<1>2. p = Replay(m, early)
  BY StartedTick DEF WithMatchDuration
<1>3. Settled(p) /\ Started(p)
  BY <1>1, <1>2, ReplaySettles
<1>4. p.now = early
  BY <1>1, ReplayedPoised, TickPoised, <1>2 DEF Replay, Ticked
<1> HIDE DEF p
<1>5. Tick(m, at, reported) = Replay(w, at)
  BY <1>1, StartedTick
<1>6. Tick(p, at, reported) = Replay(v, at)
  BY <1>3, <1>4, StartedTick
<1>7. CASE reported = None
  <2>1. w = m /\ v = p
    BY <1>7 DEF WithMatchDuration
  <2>2. Replay(Replay(m, early), at) = Replay(m, at)
    BY <1>1, ReplayOn
  <2> HIDE DEF w, v
  <2> QED BY <1>2, <1>5, <1>6, <2>1, <2>2 DEF p
<1>8. CASE reported # None
  <2>1. reported \in Int /\ reported >= at /\ reported > early /\ early < End(m)
        /\ m.now < reported /\ m.now < End(m)
    BY <1>1, <1>8
  <2>2. /\ Image(m, w) /\ Calm(w) /\ Heard(m, w, reported)
        /\ End(w) = IF reported > Longest THEN End(m) ELSE reported
    BY <2>1, DurationImages
  <2> HIDE DEF w
  <2>3. early < End(w)
    BY <2>1, <2>2
  <2>4. Image(p, z) /\ Lasting(m, p) /\ Lasting(w, z)
    BY <1>1, <1>2, <2>1, <2>2, <2>3, ReplayImages
  <2>5. End(p) = End(m) /\ p.start = m.start
    BY <2>4 DEF Lasting, End
  <2>6. Image(p, v) /\ Calm(v) /\ Heard(p, v, reported)
    BY <1>3, <1>4, <2>1, <2>5, DurationImages
  <2>7. Now(w) = m.now /\ w.now = m.now
    BY <1>1, <2>2, AmountsAssumption DEF Image, Now
  <2>8. Settled(z)
    BY <1>1, <2>2, <2>7, ReplaySettles DEF Calm
  <2> HIDE DEF z, v
  <2>9. Sound(p) /\ Sound(z) /\ Held(z) /\ Sound(v) /\ Held(v)
    BY <1>3, <2>6, <2>8 DEF Settled, Calm, Poised
  <2>10. v.timing = z.timing /\ v.reported = z.reported /\ v.rejected = z.rejected
    BY <2>4, <2>2, <2>6 DEF Lasting, Heard, TimingAfter
  <2>11. v = z
    BY <1>3, <2>4, <2>6, <2>9, <2>10, ImageUnique
  <2>12. Replay(Replay(w, early), at) = Replay(w, at)
    BY <1>1, <2>2, <2>7, ReplayOn
  <2> QED BY <1>5, <1>6, <2>11, <2>12 DEF p, z
<1> HIDE DEF w, v, z
<1> QED BY <1>7, <1>8 DEF p

LEMMA InvIsPolled ==
    ASSUME Inv
    PROVE  PollingImmaterial
<1>1. Settled(match) /\ match.now \in Nat \cup {None}
  BY RowFields DEF Inv, InvOf, Settled, Sound
<1>2. Clock \in Nat /\ (match.now # None => Clock = match.now)
  BY <1>1 DEF Clock
<1> SUFFICES ASSUME NEW at \in Clock..Least(Clock + MaxSkip, Horizon),
                    NEW reported \in Reports \cup {None}, NEW early \in Clock..at,
                    reported # None => /\ reported >= at /\ reported > early
                                       /\ Started(match) => early < End(match)
             PROVE  Tick(Tick(match, early, None), at, reported) = Tick(match, at, reported)
  BY DEF PollingImmaterial
<1>3. /\ early \in Nat /\ at \in Nat /\ early <= at /\ reported \in Int \cup {None}
      /\ (match.now # None => match.now <= early)
  BY <1>2, HorizonAssumption
<1>4. CASE Started(match)
  BY <1>1, <1>3, <1>4, SettledPoised, AmountsAssumption, PollingStarted
<1>5. CASE ~Started(match)
  BY <1>1, <1>3, <1>5, PollingWaiting
<1> QED BY <1>4, <1>5

\* It does not matter how often the clock is looked at: a tick on the way changes neither what
\* a later tick leaves behind nor what a report of the end does that comes with it, and the
\* endgame is distributed at its boundary (reducer.ts advance, match-length.ts).
THEOREM ClockIsSound == Spec => []ClockSound
<1>1. Init => Inv
  BY InitHolds
<1>2. Inv /\ [Next]_vars => Inv'
  BY StepKeeps
<1>3. Inv => PollingImmaterial
  BY InvIsPolled
<1>4. PollingImmaterial /\ EndgameOnTime => ClockSound
  BY DEF ClockSound
<1> QED BY <1>1, <1>2, <1>3, <1>4, EndgameIsOnTime, PTL DEF Spec

-----------------------------------------------------------------------------
(* What the clock leaves of a row.                                          *)

\* An order may have its deadline moved, and be ended: a duel by being settled, another order
\* by lapsing.
Kept(o, q) ==
    /\ q.team = o.team /\ q.seq = o.seq /\ q.task = o.task /\ q.rush = o.rush /\ q.gen = o.gen
    /\ q.issued = o.issued /\ q.failed = o.failed /\ q.hints = o.hints
    /\ IsOpen(q) => IsOpen(o)
    /\ ~IsOpen(o) => q = o
    /\ IsOpen(o) /\ q.status = "completed" => q.how = "duel"
Comes(m, q) == q.team \in Teams /\ q.seq >= m.count[q.team] /\ q.gen = m.gen[q.team]

\* No card in play is dealt again.
CardsStand(m, r) ==
    \A t \in Teams : m.cards[t].st \in {"armed", "spent"} =>
        r.cards[t].st \in {"armed", "spent"} /\ r.cards[t].seq = m.cards[t].seq
Lets(m, r) ==
    /\ r.gen = m.gen /\ r.rotated = m.rotated /\ r.start = m.start
    /\ r.timing.toEndgame = m.timing.toEndgame
    /\ \A t \in Teams : m.count[t] <= r.count[t]
    /\ \A q \in r.orders : Comes(m, q) \/ \E o \in m.orders : Kept(o, q)
    /\ CardsStand(m, r)

\* Stages of a tick at x: what is open was there before, or arrived by then.
Arrived(m, q, x) == Comes(m, q) /\ q.issued <= x /\ q.issued <= q.expires
Stage(m, r, x) ==
    \A q \in r.orders :
        \/ q \in m.orders
        \/ ~IsOpen(q) /\ \E o \in m.orders : Kept(o, q) /\ q.expires = o.expires
        \/ Arrived(m, q, x)

LEMMA CountType == ASSUME NEW m \in CryptoBattleState, NEW t \in Teams PROVE m.count[t] \in Nat
  BY RowFields

LEMMA KeptSelf == ASSUME NEW o PROVE IsOpen(o) \/ ~IsOpen(o) => Kept(o, o)
  BY DEF Kept, IsOpen

LEMMA KeptOn ==
    ASSUME NEW o, NEW p, NEW q, Kept(o, p), Kept(p, q)
    PROVE  Kept(o, q)
  BY DEF Kept

LEMMA ComesOn ==
    ASSUME NEW m \in CryptoBattleState, NEW r \in CryptoBattleState, r.gen = m.gen,
           \A t \in Teams : m.count[t] <= r.count[t], NEW q, q.seq \in Nat, Comes(r, q)
    PROVE  Comes(m, q)
BY CountType DEF Comes

LEMMA ComesKept ==
    ASSUME NEW m, NEW o, NEW q, Comes(m, o), Kept(o, q)
    PROVE  Comes(m, q)
  BY DEF Comes, Kept

LEMMA LetsOn ==
    ASSUME NEW m \in CryptoBattleState, NEW r \in CryptoBattleState, NEW s \in CryptoBattleState,
           Lets(m, r), Lets(r, s)
    PROVE  Lets(m, s)
<1>1. ASSUME NEW t \in Teams PROVE m.count[t] <= s.count[t]
  BY CountType DEF Lets
<1>2. ASSUME NEW q \in s.orders PROVE Comes(m, q) \/ \E o \in m.orders : Kept(o, q)
  <2>1. q.seq \in Nat
    BY OrderFields
  <2>2. CASE Comes(r, q)
    BY <2>1, <2>2, ComesOn DEF Lets
  <2>3. ASSUME NEW p \in r.orders, Kept(p, q) PROVE Comes(m, q) \/ \E o \in m.orders : Kept(o, q)
    BY <2>3, KeptOn, ComesKept DEF Lets
  <2> QED BY <2>2, <2>3 DEF Lets
<1>3. CardsStand(m, s)
  BY DEF Lets, CardsStand
<1> QED BY <1>1, <1>2, <1>3 DEF Lets

LEMMA StageOn ==
    ASSUME NEW m \in CryptoBattleState, NEW r \in CryptoBattleState, NEW s \in CryptoBattleState,
           NEW x, r.gen = m.gen, \A t \in Teams : m.count[t] <= r.count[t],
           Stage(m, r, x), Stage(r, s, x)
    PROVE  Stage(m, s, x)
<1> SUFFICES ASSUME NEW q \in s.orders
             PROVE  \/ q \in m.orders
                    \/ ~IsOpen(q) /\ \E o \in m.orders : Kept(o, q) /\ q.expires = o.expires
                    \/ Arrived(m, q, x)
  BY DEF Stage
<1>1. q.seq \in Nat
  BY OrderFields
<1>2. CASE q \in r.orders
  BY <1>2 DEF Stage
<1>3. CASE Arrived(r, q, x)
  BY <1>1, <1>3, ComesOn DEF Arrived
<1>4. ASSUME ~IsOpen(q), NEW p \in r.orders, Kept(p, q), q.expires = p.expires
      PROVE  \/ \E o \in m.orders : Kept(o, q) /\ q.expires = o.expires
             \/ Arrived(m, q, x)
  BY <1>4, KeptOn DEF Arrived, Comes, Kept, Stage
<1> QED BY <1>2, <1>3, <1>4 DEF Stage

LEMMA StageSame ==
    ASSUME NEW m, NEW r, \A q \in r.orders : q \in m.orders, NEW x
    PROVE  Stage(m, r, x)
  BY DEF Stage

LEMMA StageLater ==
    ASSUME NEW m, NEW r \in CryptoBattleState, NEW a \in Nat, NEW x \in Nat, a <= x, Stage(m, r, a)
    PROVE  Stage(m, r, x)
BY OrderFields DEF Stage, Arrived

-----------------------------------------------------------------------------
(* The stages of a tick.                                                    *)

LEMMA RpsTurns ==
    ASSUME NEW m \in CryptoBattleState, NEW x
    PROVE  Stage(m, ExpireRps(m, x), x)
<1> DEFINE D == LapsedDuels(m, x)
           score == [t \in Teams |-> AfterDuels(m, D, t)]
           new(o) == IF o \notin D THEN o
                     ELSE IF AllIn(m, o) THEN [o EXCEPT !.status = "completed", !.how = "duel"]
                     ELSE [o EXCEPT !.status = "expired", !.how = "deadline"]
           r == ExpireRps(m, x)
<1>1. r = [m EXCEPT !.score = score, !.orders = {new(o) : o \in m.orders}]
  BY DEF ExpireRps
<1>2. \A o \in D : IsOpen(o)
  BY DEF LapsedDuels, OpenOrders
<1>3. ASSUME NEW o \in m.orders
      PROVE  \/ new(o) = o
             \/ ~IsOpen(new(o)) /\ Kept(o, new(o)) /\ new(o).expires = o.expires
  <2>1. o \in Contract
    BY OrderFields
  <2>2. CASE o \notin D
    BY <2>2
  <2>3. CASE o \in D /\ AllIn(m, o)
    <3>1. new(o) = [o EXCEPT !.status = "completed", !.how = "duel"] /\ IsOpen(o)
      BY <1>2, <2>3
    <3> HIDE DEF D, new
    <3> QED BY <2>1, <3>1 DEF Contract, IsOpen, Kept
  <2>4. CASE o \in D /\ ~AllIn(m, o)
    <3>1. new(o) = [o EXCEPT !.status = "expired", !.how = "deadline"] /\ IsOpen(o)
      BY <1>2, <2>4
    <3> HIDE DEF D, new
    <3> QED BY <2>1, <3>1 DEF Contract, IsOpen, Kept
  <2> QED BY <2>2, <2>3, <2>4
<1> HIDE DEF D, score, new, r
<1>4. r.orders = {new(o) : o \in m.orders}
  BY <1>1 DEF CryptoBattleState
<1> QED BY <1>3, <1>4 DEF Stage, r

LEMMA OrdersTurn ==
    ASSUME NEW m \in CryptoBattleState, NEW x
    PROVE  Stage(m, ExpireOrders(m, x), x)
<1> DEFINE D == {o \in OpenOrders(m) : o.expires <= x}
           score == Charged(m, D)
           new(o) == IF o \in D THEN [o EXCEPT !.status = "expired", !.how = "deadline"] ELSE o
           r == ExpireOrders(m, x)
<1>1. r = [m EXCEPT !.score = score, !.orders = {new(o) : o \in m.orders}]
  BY DEF ExpireOrders
<1>2. \A o \in D : IsOpen(o)
  BY DEF OpenOrders
<1>3. ASSUME NEW o \in m.orders
      PROVE  \/ new(o) = o
             \/ ~IsOpen(new(o)) /\ Kept(o, new(o)) /\ new(o).expires = o.expires
  <2>1. o \in Contract
    BY OrderFields
  <2>2. CASE o \notin D
    BY <2>2
  <2>3. CASE o \in D
    <3>1. new(o) = [o EXCEPT !.status = "expired", !.how = "deadline"] /\ IsOpen(o)
      BY <1>2, <2>3
    <3> HIDE DEF D, new
    <3> QED BY <2>1, <3>1 DEF Contract, IsOpen, Kept
  <2> QED BY <2>2, <2>3
<1> HIDE DEF D, score, new, r
<1>4. r.orders = {new(o) : o \in m.orders}
  BY <1>1 DEF CryptoBattleState
<1> QED BY <1>3, <1>4 DEF Stage, r

LEMMA SlotTurns ==
    ASSUME NEW m, Sound(m), Started(m), NEW a \in Nat, a <= End(m), NEW opening \in BOOLEAN
    PROVE  Stage(m, IssueSlot(m, a, opening), a)
<1> DEFINE opp(t) == DuelOpponent(m, t, opening)
           given == {t \in Teams : Delivers(m, t, opp(t))}
           r == IssueSlot(m, a, opening)
<1>1. m \in CryptoBattleState /\ End(m) \in Nat
  BY RowFields DEF Sound
<1>2. /\ r.orders = m.orders \cup {NewOrder(m, t, a, opp(t)) : t \in given}
      /\ r.count = [t \in Teams |-> m.count[t] + 1]
      /\ r.duels = [t \in Teams |-> m.duels[t] + IF opp(t) # None THEN 1 ELSE 0]
      /\ r.seed = m.seed /\ r.start = m.start /\ r.next = m.next /\ r.score = m.score
      /\ r.gen = m.gen /\ r.timing = m.timing
  BY <1>1, SlotFields
<1>3. ASSUME NEW t \in Teams PROVE Arrived(m, NewOrder(m, t, a, opp(t)), a)
  <2>1. opp(t) \in Teams \cup {None}
    BY <1>1, CountType, PaceAssumption, OpponentMutual DEF DuelOpponent
  <2> DEFINE o == NewOrder(m, t, a, opp(t))
  <2>2. /\ o \in Contract /\ o.team = t /\ o.seq = m.count[t] /\ o.issued = a
        /\ o.expires = Least(a + TtlOf(o), End(m))
    BY <1>1, <2>1, NewOrderType
  <2>3. o.gen = m.gen[t]
    BY DEF NewOrder
  <2>4. TtlOf(o) \in Nat
    BY PaceAssumption DEF TtlOf
  <2>5. m.count[t] \in Nat
    BY <1>1, CountType
  <2> HIDE DEF o, opp
  <2>6. a <= o.expires
    BY <1>1, <2>2, <2>4 DEF Least
  <2>7. Arrived(m, o, a)
    BY <2>2, <2>3, <2>5, <2>6 DEF Arrived, Comes
  <2> QED BY <2>7 DEF o
<1> HIDE DEF r, opp
<1>4. Stage(m, r, a)
  BY <1>2, <1>3 DEF Stage
<1> QED BY <1>4 DEF r

\* Every slot of a batch, and every batch that is due.
LEMMA SlotsTurn ==
    ASSUME NEW m, Sound(m), Started(m), NEW a \in Nat, a <= End(m), NEW opening \in BOOLEAN,
           NEW slots \in Nat
    PROVE  Stage(m, IssueSlots(m, a, opening, slots), a)
<1>1. PICK f : Slots(f, m, a, opening) /\ IssueSlots(m, a, opening, slots) = f[slots]
  BY SlotsArrive
<1>2. ASSUME NEW k \in Nat
      PROVE  /\ Sound(f[k]) /\ Started(f[k]) /\ End(f[k]) = End(m) /\ f[k] \in CryptoBattleState
             /\ f[k].gen = m.gen /\ \A t \in Teams : m.count[t] <= f[k].count[t]
  BY <1>1 DEF Slots, Arrives, Untouched, Started, End, Evolves, Sound
<1> DEFINE T == {k \in Nat : Stage(m, f[k], a)}
<1>3. 0 \in T
  BY <1>1, StageSame DEF Slots
<1>4. ASSUME NEW k \in T PROVE k + 1 \in T
  <2>1. k \in Nat /\ k + 1 \in Nat /\ Stage(m, f[k], a)
    OBVIOUS
  <2>2. Stage(f[k], IssueSlot(f[k], a, opening), a)
    BY <1>2, <2>1, SlotTurns
  <2>3. f[k + 1] = IssueSlot(f[k], a, opening)
    BY <1>1, <2>1 DEF Slots
  <2>4. m \in CryptoBattleState
    BY DEF Sound
  <2>5. f[k] \in CryptoBattleState /\ f[k + 1] \in CryptoBattleState
    BY <1>2, <2>1
  <2>6. Stage(f[k], f[k + 1], a)
    BY <2>2, <2>3
  <2>7. Stage(m, f[k + 1], a)
    BY <1>2, <2>1, <2>4, <2>5, <2>6, StageOn
  <2> QED BY <2>1, <2>7
<1>5. T \in SUBSET Nat
  OBVIOUS
<1> HIDE DEF T
<1>6. T = Nat
  BY <1>3, <1>4, <1>5, NatSteps
<1>7. Stage(m, f[slots], a)
  BY <1>6 DEF T
<1> QED BY <1>1, <1>7

LEMMA NextTurns ==
    ASSUME NEW m, Sound(m), Started(m), NEW x \in Nat, IsDue(m, x)
    PROVE  Stage(m, IssueNext(m), x)
<1> DEFINE slots == IF IsOpening(m) THEN 1 ELSE PerIssue
           n == IssueSlots(m, m.next, IsOpening(m), slots)
<1>1. m \in CryptoBattleState /\ m.next \in Nat /\ End(m) \in Nat /\ m.next <= x /\ m.next <= End(m)
  BY RowFields DEF Sound, IsDue
<1>2. IsOpening(m) \in BOOLEAN /\ slots \in Nat
  BY PaceAssumption DEF IsOpening
<1> HIDE DEF slots
<1>3. Stage(m, n, m.next)
  BY <1>1, <1>2, SlotsTurn
<1>4. Sound(n)
  BY <1>1, <1>2, SlotsArrive DEF Arrives
<1>5. IssueNext(m) = [n EXCEPT !.next = @ + Gap(m, IsOpening(m))]
  BY DEF IssueNext, slots
<1> HIDE DEF n
<1>6. IssueNext(m).orders = n.orders /\ n \in CryptoBattleState
  BY <1>4, <1>5 DEF Sound, CryptoBattleState
<1>7. Stage(m, n, x)
  BY <1>1, <1>3, <1>6, StageLater
<1> QED BY <1>6, <1>7 DEF Stage

LEMMA DueTurns ==
    ASSUME NEW m, Sound(m), Started(m), NEW x \in Nat
    PROVE  Stage(m, IssueDue(m, x), x)
<1>1. CASE ~IsDue(m, x)
  BY <1>1, StageSame DEF IssueDue
<1>2. CASE IsDue(m, x)
  <2>1. PICK f : Batches(f, m, x) /\ IssueDue(m, x) = f[x - m.next + 1]
    BY <1>2, DueArrives
  <2>2. ASSUME NEW k \in Nat
        PROVE  /\ Sound(f[k]) /\ Started(f[k]) /\ f[k] \in CryptoBattleState
               /\ f[k].gen = m.gen /\ \A t \in Teams : m.count[t] <= f[k].count[t]
    BY <2>1 DEF Batches, Arrives, Untouched, Started, Evolves, Sound
  <2> DEFINE T == {k \in Nat : Stage(m, f[k], x)}
  <2>3. 0 \in T
    BY <2>1, StageSame DEF Batches
  <2>4. ASSUME NEW k \in T PROVE k + 1 \in T
    <3>1. k \in Nat /\ k + 1 \in Nat /\ Stage(m, f[k], x)
      OBVIOUS
    <3>2. f[k + 1] = IF IsDue(f[k], x) THEN IssueNext(f[k]) ELSE f[k]
      BY <2>1, <3>1 DEF Batches
    <3>3. CASE ~IsDue(f[k], x)
      BY <3>1, <3>2, <3>3
    <3>4. CASE IsDue(f[k], x)
      BY <2>2, <3>1, <3>4, NextTurns, <3>2, StageOn DEF Sound
    <3> QED BY <3>3, <3>4
  <2>5. T \in SUBSET Nat
    OBVIOUS
  <2> HIDE DEF T
  <2>6. T = Nat
    BY <2>3, <2>4, <2>5, NatSteps
  <2>7. x - m.next + 1 \in Nat
    BY RowFields, <1>2 DEF Sound, IsDue
  <2>8. Stage(m, f[x - m.next + 1], x)
    BY <2>6, <2>7 DEF T
  <2> QED BY <2>1, <2>8
<1> QED BY <1>1, <1>2

LEMMA TickTurns ==
    ASSUME NEW m, Sound(m), Started(m), Held(m), NEW x \in Nat
    PROVE  Stage(m, TickAtTime(m, x), x)
<1> DEFINE a == ExpireRps(m, x)
           b == ExpireOrders(a, x)
           c == IssueDue(b, x)
           d == Prune(c, x)
           r == TickAtTime(m, x)
<1>0. m \in CryptoBattleState /\ HeldUntil(m, x)
  BY DEF Sound, Held, HeldUntil
<1>1. Carries(m, a, x) /\ a.count = m.count
  BY <1>0, RpsCarries
<1>2. Carries(a, b, x) /\ b.count = a.count
  BY <1>1, OrdersCarry DEF Carries
<1>3. /\ a \in CryptoBattleState /\ b \in CryptoBattleState /\ Started(b) /\ Sound(b)
      /\ a.gen = m.gen /\ b.gen = m.gen
  BY <1>1, <1>2 DEF Carries, Sound, Untouched, Started
<1>4. Arrives(b, c, b.next)
  BY <1>3, DueArrives
<1>5. c \in CryptoBattleState /\ c.gen = m.gen /\ \A t \in Teams : b.count[t] <= c.count[t]
  BY <1>3, <1>4 DEF Arrives, Sound, Untouched, Evolves
<1>6. Stage(m, a, x)
  BY <1>0, RpsTurns
<1>7. Stage(a, b, x)
  BY <1>3, OrdersTurn
<1>8. Stage(b, c, x)
  BY <1>3, DueTurns
<1>10. r = [d EXCEPT !.phase = PhaseAt(m, x - m.start), !.now = x]
  BY DEF TickAtTime
<1>11. d = [c EXCEPT !.orders = {o \in c.orders : IsOpen(o) \/ o.issued >= x - Interval * Retained}]
  BY DEF Prune
<1>12. \A t \in Teams : m.count[t] <= a.count[t] /\ m.count[t] <= b.count[t]
  BY <1>0, <1>1, <1>2, CountType
<1> HIDE DEF a, b, c, d, r
<1>13. d.orders = {o \in c.orders : IsOpen(o) \/ o.issued >= x - Interval * Retained}
       /\ r.orders = d.orders
  BY <1>5, <1>10, <1>11 DEF CryptoBattleState
<1>14. Stage(m, b, x)
  BY <1>0, <1>3, <1>6, <1>7, <1>12, StageOn
<1>15. Stage(m, c, x)
  BY <1>0, <1>3, <1>5, <1>8, <1>12, <1>14, StageOn
<1>16. Stage(m, r, x)
  BY <1>13, <1>15 DEF Stage
<1> QED BY <1>16 DEF r

-----------------------------------------------------------------------------
(* What a page relies on in the row.                                        *)

\* A card in play names an order that was issued; a spent one has its verdict, and its order is
\* closed; an armed one doubles its order as long as that is unspoilt.
CardTrue(m, t) ==
    LET card == m.cards[t]
    IN  /\ ~m.awarded => card.st = "none"
        /\ card.st \in {"armed", "spent"} => card.seq \in Nat /\ card.seq < m.count[t]
        /\ card.st = "spent" =>
              card.result # "none" /\ \A o \in OpenOrders(m) : o.team = t => o.seq # card.seq
        /\ card.st = "armed" =>
              \A o \in OpenOrders(m) : o.team = t /\ o.seq = card.seq =>
                  o.failed \/ card.points = 2 * Points(o)
CardsTrue(m) == \A t \in Teams : CardTrue(m, t)
Dated(m) == \A o \in m.orders : o.issued <= Now(m) /\ o.issued <= o.expires
KeysTrue(m) == \A o \in OpenOrders(m) : o.task # "duel" => o.gen = m.gen[o.team]
Row(m) == CardsTrue(m) /\ Dated(m) /\ KeysTrue(m)

\* The order an armed card stands for can still be answered.
Backed(m) ==
    \A t \in Teams : m.cards[t].st = "armed" =>
        \A o \in OpenOrders(m) : o.team = t /\ o.seq = m.cards[t].seq =>
            Stake(m.cards[t], t, o) /\ ~(m.cards[t].expires <= m.now)

\* Settling the cards takes none that still stands, and spends the others.
LEMMA SettleTrue ==
    ASSUME NEW m, Sound(m), m.now \in Nat, m.phase = "ended" => OpenOrders(m) = {},
           CardsTrue(m), Backed(m)
    PROVE  LET r == SettleLightning(m)
           IN  /\ CardsTrue(r) /\ CardsStand(m, r)
               /\ \A t \in Teams : m.cards[t].st \notin {"armed", "spent"} =>
                     r.cards[t].st \notin {"armed", "spent"}
               /\ \A t \in Teams : m.cards[t].st = "spent" => r.cards[t] = m.cards[t]
<1> DEFINE r == SettleLightning(m)
<1>1. m \in CryptoBattleState
  BY DEF Sound
<1>2. /\ r.orders = m.orders /\ r.count = m.count /\ r.awarded = m.awarded
      /\ \A t \in Teams : r.cards[t] = SettledCard(m, t)
  BY <1>1, SettleFields
<1> HIDE DEF r
<1>3. ASSUME NEW t \in Teams
      PROVE  /\ CardTrue(r, t)
             /\ m.cards[t].st \in {"armed", "spent"} =>
                   r.cards[t].st \in {"armed", "spent"} /\ r.cards[t].seq = m.cards[t].seq
             /\ m.cards[t].st \notin {"armed", "spent"} =>
                   r.cards[t].st \notin {"armed", "spent"}
             /\ m.cards[t].st = "spent" => r.cards[t] = m.cards[t]
  <2> DEFINE card == m.cards[t]
             other == r.cards[t]
             forfeit == \E o \in OrderOf(m, t, card.seq) : o.failed \/ ProofMissed(o)
             kept == IF forfeit THEN [card EXCEPT !.points = 0] ELSE card
  <2>0. card \in LightningCard /\ CardTrue(m, t) /\ OpenOrders(r) = OpenOrders(m)
    <3>1. m.cards[t] \in LightningCard /\ CardTrue(m, t)
      BY <1>1, RowFields DEF CardsTrue
    <3>2. r.orders = m.orders => OpenOrders(r) = OpenOrders(m)
      BY Zenon DEF OpenOrders
    <3> QED BY <1>2, <3>1, <3>2
  <2>1. other = IF Stranded(m, card) THEN [card EXCEPT !.st = "unused"]
                ELSE IF card.st # "armed" THEN card
                ELSE IF Verdict(m, t) = "none" THEN kept
                ELSE [kept EXCEPT !.st = "spent", !.result = Verdict(m, t)]
    BY <1>2 DEF SettledCard
  <2>2. /\ kept.st = card.st /\ kept.seq = card.seq /\ kept \in LightningCard
        /\ (~forfeit => kept.points = card.points)
    BY <2>0 DEF LightningCard
  <2> HIDE DEF kept, forfeit, card, other
  <2>3. CASE card.st # "armed"
    <3>1. other = card \/ (card.st = "available" /\ other = [card EXCEPT !.st = "unused"])
      BY <2>1, <2>3 DEF Stranded
    <3>2. CASE other = card
      BY <1>2, <2>0, <2>3, <3>2 DEF CardTrue, card, other
    <3>3. CASE card.st = "available" /\ other = [card EXCEPT !.st = "unused"]
      BY <2>0, <3>3, <1>2 DEF LightningCard, CardTrue, card, other
    <3> QED BY <3>1, <3>2, <3>3
  <2>4. CASE card.st = "armed" /\ Verdict(m, t) = "none"
    <3>1. other = kept
      BY <2>1, <2>4 DEF Stranded
    <3>2. ASSUME NEW o \in OpenOrders(m), o.team = t, o.seq = card.seq
          PROVE  o.failed \/ kept.points = 2 * Points(o)
      <4>1. o.failed \/ card.points = 2 * Points(o)
        BY <2>0, <2>4, <3>2 DEF CardTrue, card
      <4>2. CASE ~forfeit
        BY <2>2, <4>1, <4>2
      <4>3. CASE forfeit
        BY <3>2, <4>3 DEF OrderOf, Sound, Numbered, OpenOrders, ProofMissed, IsOpen, forfeit
      <4> QED BY <4>2, <4>3
    <3>3. other.st = "armed" /\ other.seq = card.seq
      BY <2>2, <2>4, <3>1
    <3> QED BY <1>2, <2>0, <2>4, <3>1, <3>2, <3>3 DEF CardTrue, card, other
  <2>5. CASE card.st = "armed" /\ Verdict(m, t) # "none"
    <3>1. other = [kept EXCEPT !.st = "spent", !.result = Verdict(m, t)]
      BY <2>1, <2>5 DEF Stranded
    <3>2. other.st = "spent" /\ other.seq = card.seq /\ other.result = Verdict(m, t)
      BY <2>2, <3>1 DEF LightningCard
    <3>3. ASSUME NEW o \in OpenOrders(m), o.team = t, o.seq = card.seq PROVE FALSE
      BY <2>5, <3>3, Unsettled DEF Backed, card
    <3> QED BY <1>2, <2>0, <2>5, <3>2, <3>3 DEF CardTrue, card, other
  <2> QED BY <2>3, <2>4, <2>5
<1> QED BY <1>3 DEF CardsTrue, CardsStand, r

-----------------------------------------------------------------------------
(* The clock keeps what a page relies on.                                   *)

LEMMA TickLets ==
    ASSUME NEW m, Poised(m), Row(m), NEW x \in Nat, Now(m) <= x, ~IsDue(m, x) \/ x <= m.next
    PROVE  LET r == TickEvent(m, x)
           IN  Lets(m, r) /\ Row(r)
<1> DEFINE n == TickAtTime(m, x)
           a == Turned(m, n, x)
           r == TickEvent(m, x)
<1>1. /\ m \in CryptoBattleState /\ Sound(m) /\ Started(m) /\ Held(m) /\ m.start \in Nat
      /\ Now(m) \in Nat /\ m.timing.length \in Nat
  BY RowFields, NowType DEF Poised, Sound
<1>2. /\ Carries(m, n, x) /\ n.now = x /\ n.phase = PhaseAt(m, x - m.start)
      /\ \A o \in OpenOrders(n) : x < o.expires
  BY <1>1, TickCarries
<1>3. Stage(m, n, x)
  BY <1>1, TickTurns
<1>4. r = SettleLightning(a)
  BY <1>1 DEF TickEvent, Turned, Turns
<1>5. Lasting(m, r)
  BY <1>1, TickLasts
<1>6. /\ Sound(n) /\ n \in CryptoBattleState /\ n.gen = m.gen /\ n.cards = m.cards
      /\ n.awarded = m.awarded /\ n.start = m.start /\ n.timing = m.timing
      /\ \A t \in Teams : m.count[t] <= n.count[t]
  BY <1>2 DEF Carries, Sound, Untouched, Evolves
<1> HIDE DEF n, r
<1>7. n.phase = "ended" => OpenOrders(n) = {}
  <2> SUFFICES ASSUME n.phase = "ended", NEW o \in OpenOrders(n) PROVE FALSE
    OBVIOUS
  <2>1. o.expires = Least(o.issued + TtlOf(o), End(n)) /\ x < o.expires
    BY <1>2, <1>6 DEF Sound, Deadlines
  <2>2. o.issued \in Nat /\ TtlOf(o) \in Nat /\ End(n) = m.start + m.timing.length
    BY <1>6, OrderFields DEF OpenOrders, End
  <2>3. x - m.start >= m.timing.length
    BY <1>2 DEF PhaseAt
  <2> QED BY <1>1, <2>1, <2>2, <2>3 DEF Least
\* What is open after the tick, and was issued before it, was open before it.
<1>8. ASSUME NEW q \in OpenOrders(n)
      PROVE  q \in OpenOrders(m) \/ (Arrived(m, q, x) /\ q.seq \in Nat)
  BY <1>6, OrderFields, <1>3 DEF OpenOrders, Stage
<1>9. ASSUME NEW t \in Teams
      PROVE  /\ CardTrue(n, t)
             /\ n.cards[t].st = "armed" =>
                  \A o \in OpenOrders(n) : o.team = t /\ o.seq = n.cards[t].seq =>
                      Stake(n.cards[t], t, o) /\ ~(n.cards[t].expires <= n.now)
  <2> DEFINE card == m.cards[t]
  <2>1. CardTrue(m, t) /\ m.count[t] \in Nat /\ n.count[t] \in Nat /\ m.count[t] <= n.count[t]
    BY <1>1, <1>6, CountType DEF Row, CardsTrue
  <2>2. card \in LightningCard /\ n.cards[t] = card
    BY <1>1, <1>6, RowFields
  <2>3. ASSUME card.st \in {"armed", "spent"}, NEW q \in OpenOrders(n), q.team = t, q.seq = card.seq
        PROVE  q \in OpenOrders(m)
    <3>1. card.seq \in Nat /\ card.seq < m.count[t]
      BY <2>1, <2>3 DEF CardTrue
    <3> HIDE DEF card
    <3> QED BY <1>8, <2>1, <2>3, <3>1 DEF Arrived, Comes
  <2>4. ASSUME card.st = "armed", NEW q \in OpenOrders(n), q.team = t, q.seq = card.seq
        PROVE  Stake(card, t, q) /\ ~(card.expires <= n.now) /\ (q.failed \/ card.points = 2 * Points(q))
    <3>1. q \in OpenOrders(m)
      BY <2>3, <2>4
    <3>2. PICK o \in OpenOrders(m) : Stake(card, t, o)
      BY <1>1, <2>4 DEF Held
    <3>3. o = q
      BY <1>1, <2>4, <3>1, <3>2 DEF Stake, Sound, Numbered, OpenOrders
    <3>4. q.failed \/ card.points = 2 * Points(q)
      BY <2>1, <2>4, <3>1 DEF CardTrue
    <3>5. x < q.expires /\ q.expires \in Nat
      BY <1>2, <1>6, OrderFields DEF OpenOrders
    <3>6. q.expires = card.expires
      BY <3>2, <3>3 DEF Stake
    <3> QED BY <1>2, <3>2, <3>3, <3>4, <3>5, <3>6
  <2>5. ~n.awarded => card.st = "none"
    BY <1>6, <2>1 DEF CardTrue
  <2>6. card.st \in {"armed", "spent"} => card.seq \in Nat /\ card.seq < n.count[t]
    <3>1. card.st \in {"armed", "spent"} => card.seq \in Nat /\ card.seq < m.count[t]
      BY <2>1 DEF CardTrue
    <3> HIDE DEF card
    <3> QED BY <2>1, <3>1
  <2>7. card.st = "spent" => card.result # "none" /\ \A o \in OpenOrders(n) : o.team = t => o.seq # card.seq
    BY <2>1, <2>3 DEF CardTrue
  <2> HIDE DEF card
  <2> QED BY <2>2, <2>4, <2>5, <2>6, <2>7 DEF CardTrue
<1>10. /\ Sound(a) /\ a.now \in Nat /\ CardsTrue(a) /\ Backed(a) /\ CardsStand(m, a)
       /\ a.orders = n.orders /\ a.count = n.count /\ a.phase = n.phase /\ a.gen = n.gen
  <2>1. CASE Turns(m, x) /\ ~n.awarded
    <3>1. a = Award(n)
      BY <2>1 DEF Turned
    <3>2. /\ Lasting(n, a) /\ a.orders = n.orders /\ a.count = n.count /\ a.now = n.now
          /\ a.phase = n.phase /\ a.awarded /\ Sound(a)
          /\ \A t \in Teams : a.cards[t].st \notin {"armed", "spent"}
      BY <1>6, <2>1, <3>1, AwardFields
    <3>3. \A t \in Teams : m.cards[t].st = "none"
      BY <1>6, <2>1 DEF Row, CardsTrue, CardTrue
    <3>4. CardsTrue(a) /\ Backed(a) /\ CardsStand(m, a)
      BY <3>2, <3>3 DEF CardsTrue, CardTrue, Backed, CardsStand
    <3> QED BY <1>2, <3>2, <3>4 DEF Lasting
  <2>2. CASE ~Turns(m, x) \/ n.awarded
    BY <2>2, <1>9, <1>6, <1>2 DEF Turned, Award, CardsTrue, Backed, CardsStand
  <2>3. n.awarded \in BOOLEAN
    BY <1>6, RowFields
  <2> QED BY <2>1, <2>2, <2>3
<1> HIDE DEF a
<1>11. a.phase = "ended" => OpenOrders(a) = {}
  BY <1>7, <1>10 DEF OpenOrders
<1>12. CardsTrue(r) /\ CardsStand(a, r)
  BY <1>4, <1>10, <1>11, SettleTrue
<1>13. /\ r.orders = n.orders /\ r.count = n.count /\ r.now = x /\ r.gen = m.gen
       /\ r \in CryptoBattleState
  <2>1. a \in CryptoBattleState
    BY <1>10 DEF Sound
  <2>2. r.orders = a.orders /\ r.count = a.count
    BY <1>4, <2>1, SettleFields
  <2>3. r.now = x /\ r \in CryptoBattleState
    BY <1>1, TickTicks DEF Ticked, Sound, r
  <2> QED BY <1>5, <1>10, <2>2, <2>3 DEF Lasting
<1>14. \A q \in r.orders : Comes(m, q) \/ \E o \in m.orders : Kept(o, q)
  <2> SUFFICES ASSUME NEW q \in r.orders PROVE Comes(m, q) \/ \E o \in m.orders : Kept(o, q)
    OBVIOUS
  <2>1. CASE q \in m.orders
    BY KeptSelf, <2>1 DEF Kept
  <2>2. CASE q \notin m.orders
    BY <1>3, <1>13, <2>2 DEF Stage, Arrived
  <2> QED BY <2>1, <2>2
<1>15. Lets(m, r)
  BY <1>10, <1>12, <1>5, <1>6, <1>13, <1>14 DEF CardsStand, Lets, Lasting
<1>16. Dated(r)
  <2>1. Now(r) = x
    BY <1>13, AmountsAssumption DEF Now
  <2> SUFFICES ASSUME NEW q \in r.orders PROVE q.issued <= x /\ q.issued <= q.expires
    BY <2>1 DEF Dated
  <2>2. ASSUME NEW o \in m.orders
        PROVE  /\ o.issued \in Nat /\ o.expires \in Nat /\ o.issued <= x /\ o.issued <= o.expires
    BY <1>1, OrderFields DEF Row, Dated
  <2>3. \/ q \in m.orders
        \/ \E o \in m.orders : Kept(o, q) /\ q.expires = o.expires
        \/ Arrived(m, q, x)
    BY <1>3, <1>13 DEF Stage
  <2>4. CASE q \in m.orders
    BY <2>2, <2>4
  <2>5. CASE \E o \in m.orders : Kept(o, q) /\ q.expires = o.expires
    BY <2>2, <2>5 DEF Kept
  <2> QED BY <2>3, <2>4, <2>5 DEF Arrived
<1>17. KeysTrue(r)
  BY <1>13, <1>8 DEF KeysTrue, OpenOrders, Arrived, Comes, Row
<1> QED BY <1>12, <1>15, <1>16, <1>17 DEF Row, r

LEMMA LetsSelf ==
    ASSUME NEW m \in CryptoBattleState
    PROVE  Lets(m, m)
BY CountType, KeptSelf DEF Kept, Lets, CardsStand

LEMMA ReplayLets ==
    ASSUME NEW m, Poised(m), Row(m), NEW at \in Nat, Now(m) <= at
    PROVE  Lets(m, Replay(m, at)) /\ Row(Replay(m, at))
<1> DEFINE r == Replayed(m, at)
           Good(n) == Poised(n) /\ Now(n) <= at /\ Row(n) /\ Lets(m, n)
<1>1. m \in CryptoBattleState /\ Now(m) \in Nat
  BY NowType DEF Poised, Sound
<1>2. PICK g : Plays(g, m, at) /\ r = g[at - Now(m)]
  BY ReplayedPoised
<1>3. NextInstant(r, at) = at
  BY ReplayedPoised
<1>4. ASSUME NEW n, Good(n)
      PROVE  LET x == NextInstant(n, at)
                 s == TickEvent(n, x)
             IN  Good(s) /\ Lets(m, s) /\ Row(s)
  <2> DEFINE x == NextInstant(n, at)
             s == TickEvent(n, x)
  <2>1. /\ x \in Nat /\ Now(n) <= x /\ x <= at /\ (~IsDue(n, x) \/ x <= n.next)
        /\ Calm(s) /\ Now(s) = x
    BY <1>4, CalmTicks
  <2> HIDE DEF x
  <2>2. Lets(n, s) /\ Row(s)
    BY <1>4, <2>1, TickLets
  <2> HIDE DEF s
  <2>3. n \in CryptoBattleState /\ s \in CryptoBattleState /\ Poised(s)
    BY <1>4, <2>1 DEF Calm, Poised, Sound
  <2>4. Lets(m, s)
    BY <1>1, <1>4, <2>2, <2>3, LetsOn
  <2> QED BY <2>1, <2>2, <2>3, <2>4 DEF x, s
<1> DEFINE T == {k \in Nat : Good(g[k])}
<1>5. 0 \in T
  BY <1>1, <1>2, LetsSelf DEF Plays
<1>6. ASSUME NEW k \in T PROVE k + 1 \in T
  <2>1. k \in Nat /\ k + 1 \in Nat /\ Good(g[k])
    OBVIOUS
  <2>2. g[k + 1] = IF NextInstant(g[k], at) = at THEN g[k]
                   ELSE TickEvent(g[k], NextInstant(g[k], at))
    BY <1>2, <2>1 DEF Plays
  <2>3. Good(TickEvent(g[k], NextInstant(g[k], at)))
    BY <1>4, <2>1
  <2> HIDE DEF Good
  <2> QED BY <2>1, <2>2, <2>3
<1>7. T \in SUBSET Nat
  OBVIOUS
<1> HIDE DEF T
<1>8. T = Nat
  BY <1>5, <1>6, <1>7, NatSteps
<1>9. at - Now(m) \in Nat
  BY <1>1
<1>10. Good(r)
  BY <1>2, <1>8, <1>9 DEF T
<1>11. Replay(m, at) = TickEvent(r, at)
  BY DEF Replay
<1> HIDE DEF r, Good
<1>12. Lets(m, TickEvent(r, at)) /\ Row(TickEvent(r, at))
  BY <1>3, <1>4, <1>10
<1> QED BY <1>11, <1>12

\* A report of the end moves deadlines, and no order's beyond its arrival.
LEMMA RescheduleLets ==
    ASSUME NEW m, Sound(m), Started(m), Row(m), m.now \in Nat, NEW length \in Nat,
           m.now <= m.start + length, NEW timing,
           timing \in [length : Nat, toPressure : Nat, toEndgame : Nat],
           timing.toEndgame = m.timing.toEndgame
    PROVE  LET r == [Rescheduled(m, length) EXCEPT !.timing = timing]
           IN  Lets(m, r) /\ Row(r)
<1> DEFINE newEnd == m.start + length
           new(o) == IF IsOpen(o) THEN [o EXCEPT !.expires = Deadline(o, End(m), newEnd)] ELSE o
           orders == {new(o) : o \in m.orders}
           moved == orders \ m.orders
           cards == [t \in Teams |-> CardMoved(m.cards[t], t, moved)]
           r == [Rescheduled(m, length) EXCEPT !.timing = timing]
<1>1. /\ m \in CryptoBattleState /\ m.start \in Nat /\ End(m) \in Nat /\ newEnd \in Nat
      /\ m.cards \in [Teams -> LightningCard] /\ Now(m) = m.now
  BY RowFields, AmountsAssumption DEF Sound, Now
<1>2. ASSUME NEW o \in m.orders
      PROVE  /\ Kept(o, new(o)) /\ (IsOpen(new(o)) <=> IsOpen(o))
             /\ new(o).issued <= m.now /\ new(o).issued <= new(o).expires
  <2>1. /\ o \in Contract /\ o.expires \in Nat /\ o.issued \in Nat /\ TtlOf(o) \in Nat
        /\ o.issued <= m.now /\ o.issued <= o.expires
    BY <1>1, OrderFields DEF Row, Dated
  <2>2. CASE IsOpen(o)
    <3> DEFINE e == Deadline(o, End(m), newEnd)
    <3>1. e \in Nat /\ o.issued <= e
      BY <1>1, <2>1 DEF Deadline, Least
    <3>2. new(o) = [o EXCEPT !.expires = e]
      BY <2>2
    <3> HIDE DEF e, new
    <3>3. /\ new(o).team = o.team /\ new(o).seq = o.seq /\ new(o).task = o.task
          /\ new(o).rush = o.rush /\ new(o).gen = o.gen /\ new(o).issued = o.issued
          /\ new(o).failed = o.failed /\ new(o).hints = o.hints /\ new(o).status = o.status
          /\ new(o).expires = e
      BY <2>1, <3>2 DEF Contract
    <3> QED BY <2>1, <2>2, <3>1, <3>3 DEF Kept, IsOpen
  <2>3. CASE ~IsOpen(o)
    <3>1. new(o) = o
      BY <2>3
    <3> HIDE DEF new
    <3> QED BY <2>1, <2>3, <3>1 DEF Kept
  <2> QED BY <2>2, <2>3
<1>3. r = [m EXCEPT !.orders = orders, !.cards = cards, !.timing = timing]
  <2>1. Rescheduled(m, length) = [m EXCEPT !.orders = orders, !.cards = [t \in Teams |-> CardMoved(@[t], t, moved)]]
    BY DEF Rescheduled
  <2> HIDE DEF orders, moved
  <2> QED BY <1>1, <2>1 DEF CryptoBattleState
<1>4. \A q \in orders : \E o \in m.orders : q = new(o)
  OBVIOUS
<1>5. ASSUME NEW t \in Teams
      PROVE  /\ cards[t].st = m.cards[t].st /\ cards[t].seq = m.cards[t].seq
             /\ cards[t].points = m.cards[t].points /\ cards[t].result = m.cards[t].result
  <2> HIDE DEF moved
  <2>1. cards[t] = CardMoved(m.cards[t], t, moved) /\ m.cards[t] \in LightningCard
    BY <1>1
  <2> DEFINE e == (CHOOSE o \in moved : o.team = t /\ o.seq = m.cards[t].seq).expires
  <2>2. cards[t] = m.cards[t] \/ cards[t] = [m.cards[t] EXCEPT !.expires = e]
    BY <2>1 DEF CardMoved
  <2> HIDE DEF cards, e
  <2> QED BY <2>1, <2>2 DEF LightningCard
<1> HIDE DEF new, orders, cards, r, newEnd
<1>6. /\ r.orders = orders /\ r.cards = cards /\ r.timing = timing /\ r.gen = m.gen
      /\ r.rotated = m.rotated /\ r.start = m.start /\ r.count = m.count /\ r.now = m.now
      /\ r.awarded = m.awarded
  BY <1>1, <1>3 DEF CryptoBattleState
<1>7. ASSUME NEW q \in r.orders
      PROVE  \E o \in m.orders : /\ Kept(o, q) /\ (IsOpen(q) => o \in OpenOrders(m))
                                 /\ q.issued <= m.now /\ q.issued <= q.expires
  BY <1>2, <1>4, <1>6 DEF OpenOrders
<1>8. Lets(m, r)
  BY <1>1, <1>6, CountType, <1>5, <1>7 DEF Lets, CardsStand
<1>9. Dated(r)
  BY <1>6, AmountsAssumption, <1>7 DEF Now, Dated
<1>10. KeysTrue(r)
  BY <1>7, <1>6 DEF KeysTrue, OpenOrders, Row, Kept
<1>11. CardsTrue(r)
  <2> SUFFICES ASSUME NEW t \in Teams PROVE CardTrue(r, t)
    BY DEF CardsTrue
  <2>1. CardTrue(m, t)
    BY DEF Row, CardsTrue
  <2>2. ASSUME NEW q \in OpenOrders(r)
        PROVE  \E o \in OpenOrders(m) : o.team = q.team /\ o.seq = q.seq /\ o.failed = q.failed
                                        /\ Points(o) = Points(q)
    BY <1>7 DEF OpenOrders, Kept, Points
  <2> QED BY <1>5, <1>6, <2>1, <2>2 DEF CardTrue
<1> QED BY <1>8, <1>9, <1>10, <1>11 DEF Row, r

\* Rows that differ in nothing a page relies on.
LEMMA AlikeLets ==
    ASSUME NEW m \in CryptoBattleState, Row(m), NEW r, Alike(m, r), r.gen = m.gen,
           r.rotated = m.rotated
    PROVE  Lets(m, r) /\ Row(r)
<1>1. Lets(m, r)
  <2>1. Lets(m, m)
    BY LetsSelf
  <2> QED BY <2>1 DEF Lets, Alike, CardsStand
<1>2. CardsTrue(r)
  BY DEF Row, CardsTrue, CardTrue, Alike, OpenOrders
<1>3. Dated(r) /\ KeysTrue(r)
  BY DEF Row, Dated, KeysTrue, Alike, OpenOrders, Now
<1> QED BY <1>1, <1>2, <1>3 DEF Row

LEMMA DurationLets ==
    ASSUME NEW m, Settled(m), Started(m), Row(m), NEW reported \in Int \cup {None},
           reported # None => reported >= m.now \/ reported <= 0
    PROVE  LET r == WithMatchDuration(m, reported)
           IN  Lets(m, r) /\ Row(r)
<1> DEFINE r == WithMatchDuration(m, reported)
           accepted == [m EXCEPT !.rejected = FALSE, !.reported = reported]
           length == Greatest(0, reported - m.start)
           timing == TimingAfter(m, length)
<1>1. /\ m \in CryptoBattleState /\ m.start \in Nat /\ m.now \in Nat
      /\ m.timing \in [length : Nat, toPressure : Nat, toEndgame : Nat]
  BY RowFields DEF Settled, Sound
<1>2. CASE reported = None \/ ~Follows(m)
  <2>1. r = m
    BY <1>2 DEF WithMatchDuration
  <2> QED BY <1>1, <2>1, LetsSelf
<1>3. CASE ~(reported = None \/ ~Follows(m)) /\ (reported <= 0 \/ reported > Longest)
  <2>1. r = [m EXCEPT !.rejected = TRUE]
    BY <1>3 DEF WithMatchDuration
  <2> HIDE DEF r
  <2>2. Alike(m, r) /\ r.gen = m.gen /\ r.rotated = m.rotated
    BY <1>1, <2>1 DEF Alike, CryptoBattleState
  <2>3. Lets(m, r) /\ Row(r)
    BY <1>1, <2>2, AlikeLets
  <2> QED BY <2>3 DEF r
<1>4. CASE ~(reported = None \/ ~Follows(m)) /\ ~(reported <= 0 \/ reported > Longest)
  <2>1. reported \in Nat
    BY <1>4, AmountsAssumption
  <2>2. Alike(m, accepted) /\ accepted.gen = m.gen /\ accepted.rotated = m.rotated
    BY <1>1, <2>1 DEF Alike, CryptoBattleState, Optional
  <2>3. length \in Nat
    BY <1>1, <2>1 DEF Greatest
  <2>4. r = IF length = m.timing.length THEN accepted
            ELSE [Rescheduled(accepted, length) EXCEPT !.timing = timing]
    BY <1>4 DEF WithMatchDuration
  <2>5. /\ timing \in [length : Nat, toPressure : Nat, toEndgame : Nat]
        /\ timing.toEndgame = m.timing.toEndgame
    <3> HIDE DEF length
    <3> QED BY <1>1, <2>3 DEF TimingAfter
  <2>6. m.now <= m.start + length
    BY <1>1, <1>4, <2>1, AmountsAssumption DEF Greatest
  <2> HIDE DEF accepted, length, timing, r
  <2>7. Lets(m, accepted) /\ Row(accepted) /\ Settled(accepted)
    BY <1>1, <2>2, AlikeLets, AlikeSettled
  <2>8. CASE r = accepted
    BY <2>7, <2>8 DEF r
  <2>9. CASE r # accepted
    <3>1. r = [Rescheduled(accepted, length) EXCEPT !.timing = timing]
      BY <2>4, <2>9
    <3>2. /\ Sound(accepted) /\ Held(accepted) /\ Started(accepted) /\ accepted.now = m.now
          /\ accepted.start = m.start /\ accepted.timing = m.timing
      BY <2>2, <2>7 DEF Alike, Settled, Started
    <3>3. Lets(accepted, r) /\ Row(r)
      BY <1>1, <2>3, <2>5, <2>6, <2>7, <3>1, <3>2, RescheduleLets
    <3>4. r \in CryptoBattleState
      BY DurationPoises DEF r, Poised, Sound
    <3>5. Lets(m, r)
      BY <1>1, <2>7, <3>2, <3>3, <3>4, LetsOn DEF Sound
    <3> QED BY <3>3, <3>5 DEF r
  <2> QED BY <2>8, <2>9
<1> QED BY <1>2, <1>3, <1>4

\* A match that waits holds no order and has dealt no card.
LEMMA BareRow ==
    ASSUME NEW m, Settled(m), NEW r \in CryptoBattleState, ~Started(m), Row(m), r.orders = m.orders,
           r.count = m.count, r.cards = m.cards, r.awarded = m.awarded
    PROVE  Row(r) /\ CardsStand(m, r)
BY DEF Settled, OpenOrders, Row, CardsTrue, CardTrue, Dated, KeysTrue, CardsStand

\* Whatever is reported, and whenever the clock is looked at.
LEMMA TickedLets ==
    ASSUME NEW m, Settled(m), Row(m), NEW at \in Nat, NEW reported \in Int \cup {None},
           reported # None => reported >= at \/ reported <= 0
    PROVE  LET r == Tick(m, at, reported)
           IN  /\ Row(r) /\ (Started(m) => Lets(m, r))
               /\ r.gen = m.gen /\ r.rotated = m.rotated
               /\ r.now \in {m.now, at}
<1> DEFINE w == WithMatchDuration(m, reported)
           r == Tick(m, at, reported)
<1>0. m \in CryptoBattleState
  BY DEF Settled, Sound
<1>1. CASE m.now # None /\ at < m.now
  <2>1. r = m
    BY <1>1 DEF Tick
  <2> QED BY <1>0, <2>1, LetsSelf
<1>2. CASE ~(m.now # None /\ at < m.now) /\ Started(m)
  <2>1. m.now \in Nat /\ m.now <= at /\ (reported # None => reported >= m.now \/ reported <= 0)
    BY <1>2, SettledPoised, AmountsAssumption
  <2>2. r = Replay(w, at)
    BY <1>2, <2>1, StartedTick
  <2>3. Poised(w) /\ Now(w) = m.now
    BY <1>2, <2>1, DurationPoises
  <2>4. Lets(m, w) /\ Row(w)
    BY <1>2, <2>1, DurationLets
  <2> HIDE DEF w
  <2>5. Lets(w, r) /\ Row(r)
    BY <2>1, <2>2, <2>3, <2>4, ReplayLets
  <2>6. w \in CryptoBattleState /\ r \in CryptoBattleState
    BY <2>3, TickSettles DEF Poised, Settled, Sound
  <2>7. r.now = at
    BY <2>1, <2>3, ReplayedPoised, TickTicks, <2>2 DEF Poised, Replay, Ticked
  <2> HIDE DEF r
  <2>8. Lets(m, r)
    BY <1>0, <2>4, <2>5, <2>6, LetsOn
  <2> QED BY <2>5, <2>7, <2>8 DEF Lets, r
<1>3. CASE ~(m.now # None /\ at < m.now) /\ ~Started(m)
  <2>1. r = Waited(m, at, reported)
    BY <1>0, <1>3, RowFields, WaitingTick DEF Settled
  <2>2. r \in CryptoBattleState
    BY TickSettles DEF Settled, Sound
  <2> HIDE DEF r
  <2>3. /\ r.orders = m.orders /\ r.count = m.count /\ r.cards = m.cards /\ r.awarded = m.awarded
        /\ r.gen = m.gen /\ r.rotated = m.rotated /\ r.now = at
    BY <1>0, <2>1 DEF Waited, CryptoBattleState
  <2>4. Row(r)
    BY <1>3, <2>2, <2>3, BareRow
  <2> QED BY <1>3, <2>3, <2>4 DEF r
<1> QED BY <1>1, <1>2, <1>3

LEMMA StartRow ==
    ASSUME NEW m, Settled(m), ~Started(m), Row(m)
    PROVE  /\ Row(ApplyStart(m)) /\ ApplyStart(m).gen = m.gen /\ ApplyStart(m).rotated = m.rotated
           /\ ApplyStart(m).now = IF m.now = None THEN 0 ELSE m.now
<1> DEFINE at == IF m.now = None THEN 0 ELSE m.now
           timing == IF m.reported = None THEN m.timing ELSE Thirds(Greatest(0, m.reported - at))
           w == [m EXCEPT !.start = at, !.next = at, !.phase = "build", !.timing = timing]
           r == ApplyStart(m)
<1>1. m \in CryptoBattleState /\ m.orders = {} /\ IsFiniteSet({})
  BY FS_EmptySet DEF Settled, Sound
<1>2. at \in Nat
  BY <1>1, RowFields
<1>3. timing \in [length : Nat, toPressure : Nat, toEndgame : Nat]
  <2>1. CASE m.reported = None
    BY <1>1, <2>1, RowFields
  <2>2. CASE m.reported # None
    <3>1. m.reported \in Nat
      BY <1>1, <2>2 DEF CryptoBattleState, Optional
    <3> DEFINE n == Greatest(0, m.reported - at)
    <3>2. n \in Nat
      BY <1>2, <3>1 DEF Greatest
    <3>3. timing = Thirds(n)
      BY <2>2
    <3> HIDE DEF n, timing
    <3> QED BY <3>2, <3>3 DEF Thirds
  <2> QED BY <2>1, <2>2
<1>4. r = Tick(w, at, None)
  BY DEF ApplyStart
<1> HIDE DEF timing, w, r
<1>5. /\ w \in CryptoBattleState /\ w.start = at /\ w.next = at /\ w.now = m.now
      /\ w.orders = {} /\ w.count = m.count /\ w.cards = m.cards /\ w.awarded = m.awarded
      /\ w.gen = m.gen /\ w.rotated = m.rotated
  <2> HIDE DEF at
  <2> QED BY <1>1, <1>2, <1>3 DEF CryptoBattleState, Optional, Phases, w
<1>6. Started(w) /\ Now(w) = at
  BY <1>2, <1>5, AmountsAssumption DEF Started, Now
<1>7. Sound(w) /\ Held(w) /\ Timely(w)
  BY <1>1, <1>5 DEF Settled, Sound, Numbered, Deadlines, Paired, Roomy, OpenCount, OpenOrders,
     Held, Named, Timely
<1>8. Row(w)
  BY <1>1, <1>5, BareRow
<1>9. Poised(w)
  BY <1>2, <1>5, <1>6, <1>7 DEF Poised
<1>10. r = Replay(w, at)
  BY <1>2, <1>4, <1>5, <1>6 DEF Tick, Advance, WithMatchDuration
<1>11. Lets(w, r) /\ Row(r)
  BY <1>2, <1>6, <1>8, <1>9, <1>10, ReplayLets
<1>12. r.now = at
  BY <1>2, <1>6, <1>9, ReplayedPoised, TickTicks, <1>10 DEF Poised, Replay, Ticked
<1> QED BY <1>5, <1>11, <1>12 DEF Lets, r

LEMMA ReadyRow ==
    ASSUME NEW m, Settled(m), ~Started(m), Row(m), NEW t \in Teams
    PROVE  LET r == ApplyReady(m, t)
           IN  /\ Row(r) /\ r.gen = m.gen /\ r.rotated = m.rotated
               /\ r.now \in {m.now, IF m.now = None THEN 0 ELSE m.now}
<1> DEFINE w == [m EXCEPT !.ready = @ \cup {t}]
<1>1. m \in CryptoBattleState /\ m.phase = "waiting"
  BY DEF Settled, Sound
<1>2. /\ Fresh(m, w) /\ w.phase = "waiting" /\ w.gen = m.gen /\ w.rotated = m.rotated
      /\ w.now = m.now
  BY <1>1 DEF Fresh, CryptoBattleState
<1>6. ApplyReady(m, t) \in {w, ApplyStart(w)}
  BY DEF ApplyReady
<1> HIDE DEF w
<1>3. Settled(w) /\ ~Started(w)
  BY <1>2, FreshSettled
<1>4. Row(w)
  BY <1>2, BareRow DEF Fresh
<1>5. /\ Row(ApplyStart(w)) /\ ApplyStart(w).gen = w.gen /\ ApplyStart(w).rotated = w.rotated
      /\ ApplyStart(w).now = IF w.now = None THEN 0 ELSE w.now
  BY <1>3, <1>4, StartRow
<1> QED BY <1>2, <1>4, <1>5, <1>6

-----------------------------------------------------------------------------
(* What an operation leaves of a row.                                       *)

\* An order may be answered, missed or voided, and stays what it is.
Known(o, q) == Twin(o, q) /\ q.gen = o.gen /\ (o.failed => q.failed) /\ (IsOpen(q) => IsOpen(o))
Edited(m, n) == SameRow(m, n) /\ \A q \in n.orders : \E o \in m.orders : Known(o, q)

LEMMA KnownSelf == ASSUME NEW o PROVE Known(o, o)
  BY DEF Known, Twin

\* Whatever its cards are, once they are settled.
LEMMA StoredRow ==
    ASSUME NEW m, Settled(m), Started(m), m.phase # "ended", Row(m),
           NEW n \in CryptoBattleState, Edited(m, n), CardsTrue(n), Backed(n), CardsStand(m, n),
           Settled(SettleLightning(n))
    PROVE  LET r == SettleLightning(n)
           IN  /\ CardsTrue(r) /\ Dated(r) /\ CardsStand(m, r) /\ (n.gen = m.gen => KeysTrue(r))
               /\ \A t \in Teams : n.cards[t].st \notin {"armed", "spent"} =>
                     r.cards[t].st \notin {"armed", "spent"}
               /\ \A t \in Teams : n.cards[t].st = "spent" => r.cards[t] = n.cards[t]
<1> DEFINE r == SettleLightning(n)
<1>1. m \in CryptoBattleState /\ m.now \in Nat
  BY DEF Settled, Sound
<1>2. /\ r.orders = n.orders /\ r.count = n.count /\ r.now = n.now /\ r.start = n.start
      /\ r.timing = n.timing /\ r.gen = n.gen
  BY SettleFields DEF Lasting
<1>3. Settled(r)
  OBVIOUS
<1> HIDE DEF r
<1>4. OpenOrders(r) = OpenOrders(n) /\ End(r) = End(n) /\ n.now = m.now
  BY <1>2 DEF OpenOrders, End, Edited, SameRow
<1>5. Sound(n)
  <2>1. Sound(r)
    BY <1>3 DEF Settled
  <2> QED BY <1>2, <1>4, <2>1 DEF Sound, Numbered, Deadlines, Paired, Roomy, OpenCount
<1>6. /\ CardsTrue(r) /\ CardsStand(n, r)
      /\ \A t \in Teams : n.cards[t].st \notin {"armed", "spent"} =>
            r.cards[t].st \notin {"armed", "spent"}
      /\ \A t \in Teams : n.cards[t].st = "spent" => r.cards[t] = n.cards[t]
  BY <1>1, <1>4, <1>5, SettleTrue DEF Edited, SameRow, r
<1>7. CardsStand(m, r)
  BY <1>6 DEF CardsStand
<1>8. Dated(r)
  <2>1. Now(r) = m.now /\ Now(m) = m.now
    BY <1>1, <1>2, <1>4, AmountsAssumption DEF Now
  <2> QED BY <1>2, <2>1 DEF Dated, Edited, Known, Twin, Row
<1>9. ASSUME n.gen = m.gen PROVE KeysTrue(r)
  BY <1>2, <1>9 DEF KeysTrue, Edited, OpenOrders, Known, Twin, Row
<1> QED BY <1>6, <1>7, <1>8, <1>9 DEF r

\* An operation that edits orders and leaves the cards to be settled.
LEMMA EditRow ==
    ASSUME NEW m, Settled(m), Started(m), m.phase # "ended", Row(m),
           NEW n \in CryptoBattleState, Edited(m, n), n.cards = m.cards,
           Settled(SettleLightning(n))
    PROVE  LET r == SettleLightning(n)
           IN  /\ CardsTrue(r) /\ Dated(r) /\ CardsStand(m, r) /\ (n.gen = m.gen => KeysTrue(r))
               /\ \A t \in Teams : n.cards[t].st \notin {"armed", "spent"} =>
                     r.cards[t].st \notin {"armed", "spent"}
               /\ \A t \in Teams : n.cards[t].st = "spent" => r.cards[t] = n.cards[t]
<1>1. m \in CryptoBattleState /\ Sound(m) /\ Held(m) /\ Alive(m) /\ m.now \in Nat
  BY DEF Settled, Sound
<1>2. ASSUME NEW q \in OpenOrders(n)
      PROVE  \E o \in OpenOrders(m) : Known(o, q)
  BY DEF Edited, Known, OpenOrders
<1>3. n.count = m.count /\ n.awarded = m.awarded /\ n.now = m.now
  BY DEF Edited, SameRow
<1>4. CardsTrue(n)
  <2> SUFFICES ASSUME NEW t \in Teams PROVE CardTrue(n, t)
    BY DEF CardsTrue
  <2>1. CardTrue(m, t)
    BY DEF Row, CardsTrue
  <2>2. ASSUME NEW q \in OpenOrders(n)
        PROVE  \E o \in OpenOrders(m) : o.team = q.team /\ o.seq = q.seq /\ (o.failed => q.failed)
                                        /\ Points(o) = Points(q)
    BY <1>2 DEF Known, Twin, Points
  <2> QED BY <1>3, <2>1, <2>2 DEF CardTrue
<1>5. Backed(n)
  <2> SUFFICES ASSUME NEW t \in Teams, m.cards[t].st = "armed", NEW q \in OpenOrders(n),
                      q.team = t, q.seq = m.cards[t].seq
               PROVE  Stake(m.cards[t], t, q) /\ ~(m.cards[t].expires <= m.now)
    BY <1>3 DEF Backed
  <2>1. PICK o \in OpenOrders(m) : Known(o, q)
    BY <1>2
  <2>2. PICK p \in OpenOrders(m) : Stake(m.cards[t], t, p)
    BY <1>1 DEF Held
  <2>3. p = o
    BY <1>1, <2>1, <2>2 DEF Known, Twin, Stake, Sound, Numbered, OpenOrders
  <2>4. m.now < o.expires /\ o.expires \in Nat
    BY <1>1, OrderFields, AmountsAssumption DEF Alive, Now, OpenOrders
  <2> QED BY <1>1, <2>1, <2>2, <2>3, <2>4 DEF Known, Twin, Stake, Points
<1>6. CardsStand(m, n)
  BY DEF CardsStand
<1> QED BY <1>4, <1>5, <1>6, StoredRow

-----------------------------------------------------------------------------
(* What every step leaves true of the pages that were shown before it.       *)

Grows(o, q) ==
    /\ q.team = o.team /\ q.seq = o.seq /\ q.task = o.task /\ q.rush = o.rush /\ q.gen = o.gen
    /\ (o.failed => q.failed) /\ (IsOpen(q) => IsOpen(o))
Tells(m, r) ==
    /\ r.start = m.start /\ r.timing.toEndgame = m.timing.toEndgame
    /\ \A t \in Teams : /\ m.count[t] <= r.count[t] /\ m.gen[t] <= r.gen[t]
                        /\ r.gen[t] = m.gen[t] => r.rotated[t] = m.rotated[t]
    /\ \A q \in r.orders : q.seq >= m.count[q.team] \/ \E o \in m.orders : Grows(o, q)
    /\ CardsStand(m, r)

\* An answer earns its order's points, or what the card that it spends is worth.
Judged(q) == q.status = "completed" /\ q.how \notin {"leak", "duel"} /\ q.step # "missed"
Hit(card, o) == card.st = "spent" /\ card.result = "hit" /\ card.seq = o.seq
Receipt(m, r, o) ==
    LET was == m.cards[o.team]
        card == r.cards[o.team]
    IN  /\ r.score[o.team] - m.score[o.team] = IF Hit(card, o) THEN card.points ELSE Points(o)
        /\ was.st = "armed" /\ was.seq = o.seq => Hit(card, o)
Earned(m, r) ==
    \A o \in OpenOrders(m), q \in r.orders :
        q.team = o.team /\ q.seq = o.seq /\ Judged(q) /\ ~o.failed => Receipt(m, r, o)
SameHints(m, r) ==
    \A o \in OpenOrders(m), q \in r.orders :
        q.team = o.team /\ q.seq = o.seq => q.hints = o.hints

Honest(m, r) == Row(r) /\ Tells(m, r) /\ Earned(m, r)

LEMMA EditTells ==
    ASSUME NEW m \in CryptoBattleState, NEW n \in CryptoBattleState, Edited(m, n),
           CardsStand(m, SettleLightning(n)),
           \A t \in Teams : m.gen[t] <= n.gen[t] /\ (n.gen[t] = m.gen[t] => n.rotated[t] = m.rotated[t])
    PROVE  Tells(m, SettleLightning(n))
<1> DEFINE r == SettleLightning(n)
<1>1. /\ r.orders = n.orders /\ r.count = n.count /\ r.start = n.start /\ r.timing = n.timing
      /\ r.gen = n.gen /\ r.rotated = n.rotated
  BY SettleFields DEF Lasting
<1>2. CardsStand(m, r)
  OBVIOUS
<1> HIDE DEF r
<1>3. \A t \in Teams : m.count[t] <= r.count[t]
  BY <1>1, CountType DEF Edited, SameRow
<1>4. \A q \in r.orders : \E o \in m.orders : Grows(o, q)
  BY <1>1 DEF Edited, Known, Twin, Grows
<1>5. r.start = m.start /\ r.timing = m.timing
  BY <1>1 DEF Edited, SameRow
<1>6. Tells(m, r)
  BY <1>1, <1>2, <1>3, <1>4, <1>5 DEF Tells
<1> QED BY <1>6 DEF r

\* An operation that is no rotation and deals no card.
LEMMA QuietEdit ==
    ASSUME NEW m, Settled(m), Started(m), m.phase # "ended", Row(m),
           NEW n \in CryptoBattleState, Edited(m, n), n.cards = m.cards, n.gen = m.gen,
           n.rotated = m.rotated, Settled(SettleLightning(n))
    PROVE  LET r == SettleLightning(n)
           IN  /\ Row(r) /\ Tells(m, r)
               /\ \A t \in Teams : n.cards[t].st \notin {"armed", "spent"} =>
                     r.cards[t].st \notin {"armed", "spent"}
               /\ \A t \in Teams : n.cards[t].st = "spent" => r.cards[t] = n.cards[t]
<1>1. m \in CryptoBattleState
  BY DEF Settled, Sound
<1>2. \A t \in Teams : m.gen[t] <= n.gen[t]
  BY <1>1, RowFields
<1>3. /\ Row(SettleLightning(n)) /\ CardsStand(m, SettleLightning(n))
      /\ \A t \in Teams : n.cards[t].st \notin {"armed", "spent"} =>
            SettleLightning(n).cards[t].st \notin {"armed", "spent"}
      /\ \A t \in Teams : n.cards[t].st = "spent" => SettleLightning(n).cards[t] = n.cards[t]
  BY EditRow DEF Row
<1>4. Tells(m, SettleLightning(n))
  BY <1>1, <1>2, <1>3, EditTells
<1> QED BY <1>3, <1>4

\* What the declared card of an order adds to its points.
Doubled(m, o) ==
    LET card == m.cards[o.team]
    IN  IF card.seq = o.seq /\ (card.st = "armed" \/ (card.st = "spent" /\ card.result = "hit"))
        THEN card.points \div 2 ELSE 0

LEMMA BonusIsDoubled ==
    ASSUME NEW o, ~o.failed PROVE Bonus(o) = Doubled(match, o)
BY DEF Bonus, Doubled

\* The answer of an order whose card was declared, or of one without a card.
LEMMA RightAnswer ==
    ASSUME NEW m, Settled(m), Row(m), NEW o \in OpenOrders(m), NEW p \in Contract, ~o.failed,
           Known(o, p), ~p.failed, Judged(p), NEW n \in CryptoBattleState, n.cards = m.cards,
           n.orders = (m.orders \ {o}) \cup {p}, NEW r, \A t \in Teams : r.cards[t] = SettledCard(n, t),
           r.cards[o.team].st \in {"armed", "spent"} => m.cards[o.team].st \in {"armed", "spent"},
           m.cards[o.team].st = "spent" => r.cards[o.team] = m.cards[o.team],
           r.score[o.team] - m.score[o.team] = Points(o) + Doubled(m, o)
    PROVE  Receipt(m, r, o)
<1> DEFINE was == m.cards[o.team]
           card == r.cards[o.team]
<1>1. /\ m \in CryptoBattleState /\ Sound(m) /\ o \in m.orders /\ o.team \in Teams
      /\ Points(o) \in Nat /\ was \in LightningCard /\ CardTrue(m, o.team) /\ IsOpen(o)
  BY OrderFields, RowFields DEF Settled, Sound, OpenOrders, Row, CardsTrue
<1>2. card = SettledCard(n, o.team) /\ n.cards[o.team] = was
  BY <1>1
<1>3. was.st = "spent" => was.seq # o.seq
  BY <1>1 DEF CardTrue
<1>4. CASE was.st = "armed" /\ was.seq = o.seq
  <2>1. OrderOf(n, o.team, was.seq) = {p}
    BY <1>1, <1>4 DEF OrderOf, Known, Twin, Sound, Numbered
  <2>2. /\ p.status = "completed" /\ p.how # "leak" /\ ~ProofMissed(p) /\ ~p.failed
    BY DEF Judged, ProofMissed
  <2>3. Verdict(n, o.team) = "hit"
    BY <1>2, <2>1, <2>2 DEF Verdict
  <2>4. ~Stranded(n, was)
    BY <1>4 DEF Stranded
  <2>5. ~(\E q \in OrderOf(n, o.team, was.seq) : q.failed \/ ProofMissed(q))
    BY <2>1, <2>2
  <2>6. card = [was EXCEPT !.st = "spent", !.result = "hit"]
    BY <1>2, <1>4, <2>3, <2>4, <2>5 DEF SettledCard
  <2>7. was.points = 2 * Points(o)
    BY <1>1, <1>4 DEF CardTrue
  <2> HIDE DEF was, card
  <2>8. Hit(card, o) /\ card.points = was.points
    BY <1>1, <1>4, <2>6 DEF LightningCard, Hit
  <2>9. Points(o) + was.points \div 2 = card.points
    BY <1>1, <2>7, <2>8
  <2> QED BY <1>4, <2>8, <2>9 DEF Receipt, Doubled, was, card
<1>5. CASE ~(was.st = "armed" /\ was.seq = o.seq)
  <2>1. ~Hit(card, o)
    <3>1. CASE was.st = "spent"
      BY <1>3, <3>1 DEF Hit
    <3>2. CASE was.st = "armed"
      <4>1. was.seq # o.seq
        BY <1>5, <3>2
      <4> DEFINE forfeit == \E q \in OrderOf(n, o.team, was.seq) : q.failed \/ ProofMissed(q)
                 kept == IF forfeit THEN [was EXCEPT !.points = 0] ELSE was
                 verdict == Verdict(n, o.team)
      <4>2. card = IF verdict = "none" THEN kept ELSE [kept EXCEPT !.st = "spent", !.result = verdict]
        BY <1>2, <3>2 DEF SettledCard, Stranded
      <4> HIDE DEF forfeit, verdict, was, card
      <4>3. kept.seq = was.seq /\ kept \in LightningCard
        BY <1>1 DEF LightningCard
      <4> HIDE DEF kept
      <4>4. card.seq = was.seq
        BY <4>2, <4>3 DEF LightningCard
      <4> QED BY <4>1, <4>4 DEF Hit
    <3>3. CASE was.st \notin {"armed", "spent"}
      BY <3>3 DEF Hit
    <3> QED BY <3>1, <3>2, <3>3
  <2>2. r.score[o.team] - m.score[o.team] = Points(o)
    BY <1>1, <1>3, <1>5 DEF Doubled
  <2> QED BY <1>5, <2>1, <2>2 DEF Receipt
<1> QED BY <1>4, <1>5

\* An answer to one order, right or wrong, or a mark on it.
LEMMA ReplaceView ==
    ASSUME Inv, Inv', Row(match), Started(match), match.phase # "ended", NEW o \in match.orders,
           IsOpen(o), NEW p \in Contract, Known(o, p),
           NEW n \in CryptoBattleState, n.orders = (match.orders \ {o}) \cup {p}, SameRow(match, n),
           n.cards = match.cards, n.gen = match.gen, n.rotated = match.rotated,
           Judged(p) /\ ~o.failed =>
               ~p.failed /\ n.score[o.team] = match.score[o.team] + Points(o) + Bonus(o),
           Store(n)
    PROVE  /\ Honest(match, match') /\ match'.orders = n.orders /\ match'.score = n.score
           /\ match'.gen = match.gen /\ match'.rotated = match.rotated /\ match'.now = match.now
           /\ p.hints = o.hints => SameHints(match, match')
<1> DEFINE r == SettleLightning(n)
<1>1. /\ match \in CryptoBattleState /\ Sound(match) /\ Settled(match) /\ o \in OpenOrders(match)
      /\ o.team \in Teams /\ Points(o) \in Nat /\ Bonus(o) \in Nat
  BY InvFields DEF OpenOrders
<1>2. match' = r
  BY DEF Store, Write
<1>3. Settled(r)
  BY <1>2 DEF Inv, InvOf
<1>4. /\ r.orders = n.orders /\ r.score = n.score /\ r.gen = n.gen /\ r.rotated = n.rotated
      /\ r.now = n.now /\ \A t \in Teams : r.cards[t] = SettledCard(n, t)
  BY SettleFields DEF Lasting
<1>5. Edited(match, n)
  BY KnownSelf DEF Edited
<1>6. /\ Row(r) /\ Tells(match, r)
      /\ \A t \in Teams : n.cards[t].st \notin {"armed", "spent"} =>
            r.cards[t].st \notin {"armed", "spent"}
      /\ \A t \in Teams : n.cards[t].st = "spent" => r.cards[t] = n.cards[t]
  BY <1>1, <1>3, <1>5, QuietEdit
<1> HIDE DEF r
<1>7. ASSUME NEW x \in OpenOrders(match), NEW q \in r.orders, q.team = x.team, q.seq = x.seq
      PROVE  q = x \/ (x = o /\ q = p)
  <2>1. CASE q \in match.orders
    BY <1>1, <1>7, <2>1 DEF Sound, Numbered, OpenOrders
  <2>2. CASE q = p
    BY <1>1, <1>7, <2>2 DEF Sound, Numbered, OpenOrders, Known, Twin
  <2> QED BY <1>4, <2>1, <2>2
<1>8. Earned(match, r)
  <2> SUFFICES ASSUME NEW x \in OpenOrders(match), NEW q \in r.orders, q.team = x.team,
                      q.seq = x.seq, Judged(q), ~x.failed
               PROVE  Receipt(match, r, x)
    BY DEF Earned
  <2>1. ~Judged(x)
    BY DEF OpenOrders, IsOpen, Judged
  <2>2. x = o /\ q = p
    BY <1>7, <2>1
  <2>3. ~p.failed /\ r.score[o.team] = match.score[o.team] + Points(o) + Bonus(o)
    BY <1>4, <2>2
  <2>4. r.score[o.team] - match.score[o.team] = Points(o) + Bonus(o)
    BY <1>1, RowFields, <2>3
  <2>5. Bonus(o) = Doubled(match, o)
    BY <2>2, BonusIsDoubled
  <2>6. Receipt(match, r, o)
    BY <1>1, <1>4, <1>6, <2>2, <2>3, <2>4, <2>5, RightAnswer
  <2> QED BY <2>2, <2>6
<1>9. p.hints = o.hints => SameHints(match, r)
  BY <1>7 DEF SameHints
<1> QED BY <1>2, <1>4, <1>6, <1>8, <1>9 DEF Honest, SameRow

LEMMA EarnKeys ==
    ASSUME NEW m \in CryptoBattleState, NEW t \in Teams, NEW points \in Int
    PROVE  Earn(m, t, points).gen = m.gen /\ Earn(m, t, points).rotated = m.rotated
BY DEF Earn, CryptoBattleState

LEMMA EarnScore ==
    ASSUME NEW m \in CryptoBattleState, NEW t \in Teams, NEW points \in Int
    PROVE  LET score == Earn(m, t, points).score
           IN  /\ score = [m.score EXCEPT ![t] = Floored(@ + points)]
               /\ score[t] = Floored(m.score[t] + points)
<1>1. m.score \in [Teams -> Nat]
  BY RowFields
<1>2. Earn(m, t, points).score = [m.score EXCEPT ![t] = Floored(@ + points)]
  BY DEF Earn, CryptoBattleState
<1> QED BY <1>1, <1>2

LEMMA ReplaceFields ==
    ASSUME NEW m \in CryptoBattleState, NEW o, NEW p
    PROVE  LET n == Replace(m, o, p)
           IN  n.gen = m.gen /\ n.rotated = m.rotated /\ n.score = m.score
<1> DEFINE orders == (m.orders \ {o}) \cup {p}
           n == Replace(m, o, p)
<1>1. n = [m EXCEPT !.orders = orders]
  BY DEF Replace, CryptoBattleState
<1> HIDE DEF orders, n
<1>2. n.gen = m.gen /\ n.rotated = m.rotated /\ n.score = m.score
  BY <1>1 DEF CryptoBattleState
<1> QED BY <1>2 DEF n

\* An order that is answered, or its price paid.
LEMMA AnswerView ==
    ASSUME Inv, Inv', Row(match), Started(match), match.phase # "ended", NEW o \in match.orders,
           IsOpen(o), NEW p \in Contract, Known(o, p), NEW points \in Int,
           Judged(p) /\ ~o.failed => ~p.failed /\ points = Points(o) + Bonus(o),
           Store(Earn(Replace(match, o, p), o.team, points))
    PROVE  /\ Honest(match, match') /\ match'.orders = (match.orders \ {o}) \cup {p}
           /\ match'.score = [match.score EXCEPT ![o.team] = Floored(@ + points)]
           /\ match'.gen = match.gen /\ match'.rotated = match.rotated /\ match'.now = match.now
           /\ p.hints = o.hints => SameHints(match, match')
<1> DEFINE a == Replace(match, o, p)
           n == Earn(a, o.team, points)
<1>1. /\ match \in CryptoBattleState /\ o.team \in Teams /\ Points(o) \in Nat /\ Bonus(o) \in Nat
      /\ match.score[o.team] \in Nat
  BY InvFields, RowFields
<1>2. a \in CryptoBattleState /\ SameRow(match, a) /\ a.cards = match.cards
      /\ a.orders = (match.orders \ {o}) \cup {p}
  BY <1>1, ReplaceType
<1>3. a.gen = match.gen /\ a.rotated = match.rotated /\ a.score = match.score
  BY <1>1, ReplaceFields
<1> HIDE DEF a
<1>4. n \in CryptoBattleState /\ SameRow(a, n) /\ n.cards = a.cards /\ n.orders = a.orders
  BY <1>1, <1>2, EarnType
<1>5. /\ n.gen = a.gen /\ n.rotated = a.rotated
      /\ n.score = [a.score EXCEPT ![o.team] = Floored(@ + points)]
      /\ n.score[o.team] = Floored(a.score[o.team] + points)
  BY <1>1, <1>2, EarnKeys, EarnScore
<1>6. Store(n)
  BY DEF a
<1> HIDE DEF n
<1>7. SameRow(match, n)
  BY <1>2, <1>4 DEF SameRow
<1>8. Judged(p) /\ ~o.failed =>
        ~p.failed /\ n.score[o.team] = match.score[o.team] + Points(o) + Bonus(o)
  BY <1>1, <1>3, <1>5 DEF Floored
<1>9. /\ n.orders = (match.orders \ {o}) \cup {p} /\ n.cards = match.cards
      /\ n.gen = match.gen /\ n.rotated = match.rotated
      /\ n.score = [match.score EXCEPT ![o.team] = Floored(@ + points)]
  BY <1>2, <1>3, <1>4, <1>5
<1>10. /\ Honest(match, match') /\ match'.orders = n.orders /\ match'.score = n.score
       /\ match'.gen = match.gen /\ match'.rotated = match.rotated /\ match'.now = match.now
       /\ p.hints = o.hints => SameHints(match, match')
  BY <1>4, <1>6, <1>7, <1>8, <1>9, ReplaceView
<1> QED BY <1>9, <1>10

LEMMA MarkView ==
    ASSUME Inv, Inv', Row(match), Started(match), match.phase # "ended", NEW o \in match.orders,
           IsOpen(o), NEW p \in Contract, Known(o, p), IsOpen(p), Store(Replace(match, o, p)),
           p.hints = o.hints
    PROVE  /\ Honest(match, match') /\ SameHints(match, match') /\ match'.gen = match.gen
           /\ match'.rotated = match.rotated /\ match'.now = match.now
<1> DEFINE n == Replace(match, o, p)
<1>1. match \in CryptoBattleState
  BY InvFields
<1>2. n \in CryptoBattleState /\ SameRow(match, n) /\ n.cards = match.cards
      /\ n.orders = (match.orders \ {o}) \cup {p}
  BY <1>1, ReplaceType
<1>3. n.gen = match.gen /\ n.rotated = match.rotated
  BY <1>1, ReplaceFields
<1>4. Store(n) /\ ~Judged(p)
  BY DEF Judged, IsOpen
<1> HIDE DEF n
<1> QED BY <1>2, <1>3, <1>4, ReplaceView

-----------------------------------------------------------------------------
(* Each operation is honest with the pages.                                  *)

Plain(m, r) ==
    /\ Honest(m, r) /\ SameHints(m, r) /\ r.gen = m.gen /\ r.rotated = m.rotated /\ r.now = m.now

LEMMA LeakView ==
    ASSUME Inv, Inv', Row(match), NEW o \in match.orders, Leak(o)
    PROVE  Plain(match, match')
<1> DEFINE p == Complete(o, "leak")
           points == IF o.task = "disclose" THEN Points(o) ELSE LeakPoints
           a == Replace(match, o, p)
           paid == Earn(a, o.team, points)
           n == IF o.task = "disclose" THEN [paid EXCEPT !.disclosed[o.team] = TRUE] ELSE paid
<1>1. /\ match \in CryptoBattleState /\ o \in Contract /\ o.team \in Teams /\ points \in Int
      /\ o.task \in Tasks
  BY InvFields, AmountsAssumption
<1>2. Started(match) /\ match.phase # "ended" /\ IsOpen(o) /\ Store(n)
  BY DEF Leak, Playing, Accepts
<1>4. p \in Contract /\ Known(o, p) /\ p.how = "leak" /\ p.hints = o.hints
  BY <1>1, <1>2 DEF Complete, Contract, Answers, Known, Twin, IsOpen
<1> HIDE DEF p, points
<1>5. a \in CryptoBattleState /\ SameRow(match, a) /\ a.cards = match.cards
      /\ a.orders = (match.orders \ {o}) \cup {p}
  BY <1>1, <1>4, ReplaceType
<1>6. a.gen = match.gen /\ a.rotated = match.rotated
  BY <1>1, ReplaceFields
<1> HIDE DEF a
<1>7. paid \in CryptoBattleState /\ SameRow(a, paid) /\ paid.cards = a.cards
      /\ paid.orders = a.orders
  BY <1>1, <1>5, EarnType
<1>8. paid.gen = a.gen /\ paid.rotated = a.rotated
  BY <1>1, <1>5, EarnKeys
<1> HIDE DEF paid
<1>9. n \in CryptoBattleState /\ SameRow(paid, n) /\ n.cards = paid.cards
      /\ n.orders = paid.orders /\ n.gen = paid.gen /\ n.rotated = paid.rotated
  <2>1. CASE o.task = "disclose"
    <3> DEFINE disclosed == [paid.disclosed EXCEPT ![o.team] = TRUE]
    <3>1. disclosed \in [Teams -> BOOLEAN]
      BY <1>1, <1>7 DEF CryptoBattleState
    <3>2. n = [paid EXCEPT !.disclosed = disclosed]
      BY <1>7, <2>1 DEF CryptoBattleState
    <3> HIDE DEF disclosed, n
    <3> QED BY <1>7, <3>1, <3>2 DEF CryptoBattleState, SameRow
  <2>2. CASE o.task # "disclose"
    BY <1>7, <2>2 DEF SameRow
  <2> QED BY <2>1, <2>2
<1> HIDE DEF n
<1>10. SameRow(match, n) /\ n.cards = match.cards /\ n.orders = (match.orders \ {o}) \cup {p}
       /\ n.gen = match.gen /\ n.rotated = match.rotated
  BY <1>5, <1>6, <1>7, <1>8, <1>9 DEF SameRow
<1>11. ~Judged(p)
  BY <1>4 DEF Judged
<1> QED BY <1>2, <1>4, <1>9, <1>10, <1>11, ReplaceView DEF Plain

LEMMA SolveView ==
    ASSUME Inv, Inv', Row(match), NEW o \in match.orders,
           NEW method \in {"cipher", "calc", "evolve"}, Solve(o, method)
    PROVE  Plain(match, match')
<1> DEFINE tried == o.tried \/ method = "evolve"
           p == [Complete(o, method) EXCEPT !.tried = tried]
<1>1. o \in Contract /\ o.task \in Tasks /\ Reward(o) \in Int
  BY InvFields
<1>2. Started(match) /\ match.phase # "ended" /\ IsOpen(o)
  BY DEF Solve, Playing, Accepts
<1>4. Complete(o, method).tried = o.tried
  BY <1>1 DEF Complete, Contract
<1>5. Store(Earn(Replace(match, o, p), o.team, Reward(o)))
  BY <1>4 DEF Solve, Complete
<1>6. tried \in BOOLEAN
  OBVIOUS
<1> HIDE DEF tried
<1>7. p \in Contract /\ Known(o, p) /\ p.failed = o.failed /\ p.hints = o.hints
  BY <1>1, <1>2, <1>6 DEF Complete, Contract, Answers, Known, Twin, IsOpen
<1>8. ~o.failed => ~p.failed /\ Reward(o) = Points(o) + Bonus(o)
  BY <1>7 DEF Reward
<1> HIDE DEF p
<1> QED BY <1>1, <1>2, <1>5, <1>7, <1>8, AnswerView DEF Plain

LEMMA MissView ==
    ASSUME Inv, Inv', Row(match), NEW o \in match.orders, MissCipher(o) \/ MissEvolve(o)
    PROVE  Plain(match, match')
<1>1. o \in Contract /\ -WrongProve \in Int
  BY InvFields, HintsAssumption
<1>2. Started(match) /\ match.phase # "ended" /\ IsOpen(o)
  BY DEF MissCipher, MissEvolve, Playing
<1>3. CASE MissCipher(o)
  <2> DEFINE p == [o EXCEPT !.failed = TRUE]
  <2>1. p \in Contract /\ Known(o, p) /\ p.hints = o.hints /\ p.status = o.status
    BY <1>1, <1>2 DEF Contract, Known, Twin
  <2>2. Store(Earn(Replace(match, o, p), o.team, -WrongProve))
    BY <1>3 DEF MissCipher
  <2>3. ~Judged(p)
    BY <1>2, <2>1 DEF Judged, IsOpen
  <2> HIDE DEF p
  <2> QED BY <1>1, <1>2, <2>1, <2>2, <2>3, AnswerView DEF Plain
<1>4. CASE MissEvolve(o)
  <2> DEFINE p == [o EXCEPT !.tried = TRUE]
  <2>1. p \in Contract /\ Known(o, p) /\ p.hints = o.hints /\ p.status = o.status
    BY <1>1, <1>2 DEF Contract, Known, Twin
  <2>2. Store(Earn(Replace(match, o, p), o.team, -WrongProve))
    BY <1>4 DEF MissEvolve
  <2>3. ~Judged(p)
    BY <1>2, <2>1 DEF Judged, IsOpen
  <2> HIDE DEF p
  <2> QED BY <1>1, <1>2, <2>1, <2>2, <2>3, AnswerView DEF Plain
<1> QED BY <1>3, <1>4

LEMMA ProofView ==
    ASSUME Inv, Inv', Row(match), NEW o \in match.orders,
           ProofCommit(o) \/ ProofHit(o) \/ ProofMiss(o)
    PROVE  Plain(match, match')
<1>1. /\ o \in Contract /\ o.task \in Tasks /\ -WrongProve \in Int
      /\ Points(o) \in Nat /\ Bonus(o) \in Nat
  BY InvFields, HintsAssumption
<1>2. Started(match) /\ match.phase # "ended" /\ IsOpen(o)
  BY DEF ProofCommit, ProofHit, ProofMiss, Playing, Accepts
<1>4. CASE ProofCommit(o)
  <2> DEFINE p == [o EXCEPT !.tried = TRUE, !.step = "committed"]
  <2>1. p \in Contract /\ Known(o, p) /\ IsOpen(p) /\ p.hints = o.hints
    BY <1>1, <1>2 DEF Contract, Known, Twin, IsOpen
  <2>2. Store(Replace(match, o, p))
    BY <1>4 DEF ProofCommit
  <2> HIDE DEF p
  <2> QED BY <1>2, <2>1, <2>2, MarkView DEF Plain
<1>5. CASE ProofHit(o)
  <2> DEFINE p == [Complete(o, "prove") EXCEPT !.step = "proved"]
             points == Points(o) + Bonus(o)
  <2>0. points \in Int
    BY <1>1
  <2>1. p \in Contract /\ Known(o, p) /\ p.failed = o.failed /\ p.hints = o.hints
    BY <1>1, <1>2 DEF Complete, Contract, Answers, Known, Twin, IsOpen
  <2>2. Store(Earn(Replace(match, o, p), o.team, points))
    BY <1>5 DEF ProofHit
  <2>3. ~o.failed => ~p.failed /\ points = Points(o) + Bonus(o)
    BY <2>1
  <2> HIDE DEF p, points
  <2> QED BY <1>2, <2>0, <2>1, <2>2, <2>3, AnswerView DEF Plain
<1>6. CASE ProofMiss(o)
  <2> DEFINE missed == [o EXCEPT !.step = "missed"]
             p == IF Methods(o.task) = {"prove"} THEN Complete(missed, "prove") ELSE missed
  <2>1. /\ missed \in Contract /\ Known(o, missed) /\ missed.step = "missed"
        /\ missed.hints = o.hints
    BY <1>1, <1>2 DEF Contract, Known, Twin
  <2>2. /\ Complete(missed, "prove") \in Contract /\ Known(o, Complete(missed, "prove"))
        /\ Complete(missed, "prove").step = "missed" /\ Complete(missed, "prove").hints = o.hints
    <3> HIDE DEF missed
    <3> QED BY <1>2, <2>1 DEF Complete, Contract, Answers, Known, Twin, IsOpen
  <2>3. p \in Contract /\ Known(o, p) /\ p.step = "missed" /\ p.hints = o.hints
    BY <2>1, <2>2
  <2>4. Store(Earn(Replace(match, o, p), o.team, -WrongProve))
    BY <1>6 DEF ProofMiss
  <2>5. ~Judged(p)
    BY <2>3 DEF Judged
  <2> HIDE DEF p
  <2> QED BY <1>1, <1>2, <2>3, <2>4, <2>5, AnswerView DEF Plain
<1> QED BY <1>4, <1>5, <1>6

LEMMA DuelStepView ==
    ASSUME Inv, Inv', Row(match), NEW o \in match.orders, Seal(o) \/ Open(o)
    PROVE  Plain(match, match')
<1>1. o \in Contract
  BY InvFields
<1>2. Started(match) /\ match.phase # "ended" /\ IsOpen(o)
  BY DEF Seal, Open, DuelOpen, Playing, Accepts
<1>3. ASSUME NEW step \in {"sealed", "opened"}, Store(Replace(match, o, [o EXCEPT !.step = step]))
      PROVE  Plain(match, match')
  <2> DEFINE p == [o EXCEPT !.step = step]
  <2>1. p \in Contract /\ Known(o, p) /\ IsOpen(p) /\ p.hints = o.hints
    BY <1>1, <1>2 DEF Contract, Known, Twin, IsOpen
  <2>2. Store(Replace(match, o, p))
    BY <1>3
  <2> HIDE DEF p
  <2> QED BY <1>2, <2>1, <2>2, MarkView DEF Plain
<1> QED BY <1>3 DEF Seal, Open

\* A hint costs its price, and is that order's.
LEMMA HintView ==
    ASSUME Inv, Inv', Row(match), NEW o \in match.orders, Hint(o)
    PROVE  /\ Honest(match, match') /\ match'.gen = match.gen /\ match'.rotated = match.rotated
           /\ match'.now = match.now
           /\ match'.score[o.team] >= match.score[o.team] - HintPrice(o.team, o.hints + 1)
           /\ \A x \in OpenOrders(match), q \in match'.orders :
                 q.team = x.team /\ q.seq = x.seq => q.hints = x.hints \/ x = o
<1> DEFINE p == [o EXCEPT !.hints = @ + 1]
           price == HintPrice(o.team, o.hints + 1)
<1>1. /\ o \in Contract /\ o.team \in Teams /\ match \in CryptoBattleState /\ Sound(match)
      /\ match.score \in [Teams -> Nat]
  BY InvFields, RowFields
<1>2. Started(match) /\ match.phase # "ended" /\ IsOpen(o) /\ o.hints < Len(HintCosts)
  BY DEF Hint, Playing
<1>3. HintCosts \in Seq(Nat) /\ Len(HintCosts) \in Nat /\ o.hints \in 0..Len(HintCosts)
  BY <1>1, HintsAssumption DEF Contract
<1>4. o.hints + 1 \in 1..Len(HintCosts)
  BY <1>2, <1>3
<1>5. HintCosts[o.hints + 1] \in Nat
  BY <1>3, <1>4, ElementOfSeq
<1>6. -price \in Int /\ price \in Nat
  BY <1>5 DEF HintPrice
<1>7. p \in Contract /\ Known(o, p) /\ p.status = o.status
  BY <1>1, <1>2, <1>4 DEF Contract, Known, Twin
<1>8. ~Judged(p)
  BY <1>2, <1>7 DEF Judged, IsOpen
<1>9. Store(Earn(Replace(match, o, p), o.team, -price))
  BY DEF Hint
<1> HIDE DEF p, price
<1>10. /\ Honest(match, match') /\ match'.orders = (match.orders \ {o}) \cup {p}
       /\ match'.score = [match.score EXCEPT ![o.team] = Floored(@ + -price)]
       /\ match'.gen = match.gen /\ match'.rotated = match.rotated /\ match'.now = match.now
  BY <1>2, <1>6, <1>7, <1>8, <1>9, AnswerView
<1>11. match'.score[o.team] >= match.score[o.team] - price
  BY <1>1, <1>10, <1>6 DEF Floored
<1>12. ASSUME NEW x \in OpenOrders(match), NEW q \in match'.orders, q.team = x.team, q.seq = x.seq
       PROVE  q.hints = x.hints \/ x = o
  BY <1>1, <1>12, <1>7, <1>10 DEF Sound, Numbered, OpenOrders, Known, Twin
<1> QED BY <1>10, <1>11, <1>12 DEF price

LEMMA OpenBothView ==
    ASSUME Inv, Inv', Row(match), NEW o \in match.orders, NEW x \in Outcomes,
           OpenBoth(o, x[1], x[2])
    PROVE  Plain(match, match')
<1> DEFINE new(p) == IF p \in ClosedBy(o) THEN [Complete(p, "duel") EXCEPT !.step = "opened"] ELSE p
           orders == {new(p) : p \in match.orders}
           a == [match EXCEPT !.orders = orders]
           b == Earn(a, o.team, x[1])
           n == Earn(b, o.opp, x[2])
           r == SettleLightning(n)
<1>1. /\ match \in CryptoBattleState /\ Sound(match) /\ Settled(match) /\ o.team \in Teams
      /\ o.task \in Tasks /\ \A p \in match.orders : p \in Contract
  BY InvFields
<1>2. /\ Started(match) /\ match.phase # "ended" /\ IsOpen(o) /\ "duel" \in Methods(o.task)
      /\ \E p \in OpponentOrder(match, o) : IsOpen(p)
  BY DEF OpenBoth, Playing, DuelOpen, Accepts
<1>3. o.opp \in Teams
  BY <1>2, <1>1, OrderFields DEF OpponentOrder
<1>4. \A p \in ClosedBy(o) : p.task = "duel"
  BY <1>1, <1>2, TaskMethods DEF ClosedBy, OpponentOrder
<1>5. x[1] \in Int /\ x[2] \in Int
  BY AmountsAssumption, HintsAssumption DEF Outcomes
<1>6. ASSUME NEW p \in match.orders, IsOpen(p) \/ p \notin ClosedBy(o)
      PROVE  /\ new(p) \in Contract /\ Known(p, new(p)) /\ new(p).hints = p.hints
             /\ new(p) = p \/ new(p).how = "duel"
  <2>1. p \in Contract
    BY <1>1
  <2>2. CASE p \in ClosedBy(o)
    <3>1. new(p) = [Complete(p, "duel") EXCEPT !.step = "opened"] /\ IsOpen(p)
      BY <1>6, <2>2
    <3> HIDE DEF new
    <3> QED BY <2>1, <3>1 DEF Complete, Contract, Answers, Known, Twin, IsOpen
  <2>3. CASE p \notin ClosedBy(o)
    BY <2>1, <2>3, KnownSelf
  <2> QED BY <2>2, <2>3
<1>7. \A p \in ClosedBy(o) : IsOpen(p)
  BY <1>2, <1>1 DEF OpponentOrder, Sound, Numbered, ClosedBy
<1>8. [match EXCEPT !.orders = {new(p) : p \in @}] = a
  BY <1>1 DEF CryptoBattleState
<1>9. Store(n)
  BY <1>8 DEF OpenBoth
<1> HIDE DEF new
<1>10. \A q \in orders : \E p \in match.orders : q = new(p)
  OBVIOUS
<1>11. orders \in SUBSET Contract
  BY <1>6, <1>7
<1> HIDE DEF orders
<1>12. /\ a \in CryptoBattleState /\ SameRow(match, a) /\ a.cards = match.cards
       /\ a.orders = orders /\ a.gen = match.gen /\ a.rotated = match.rotated
  BY <1>1, <1>11 DEF CryptoBattleState, SameRow
<1> HIDE DEF a
<1>13. /\ b \in CryptoBattleState /\ SameRow(a, b) /\ b.cards = a.cards /\ b.orders = a.orders
       /\ b.gen = a.gen /\ b.rotated = a.rotated
  <2>1. b \in CryptoBattleState /\ SameRow(a, b) /\ b.cards = a.cards /\ b.orders = a.orders
    BY <1>1, <1>5, <1>12, EarnType
  <2>2. b.gen = a.gen /\ b.rotated = a.rotated
    BY <1>1, <1>5, <1>12, EarnKeys
  <2> QED BY <2>1, <2>2
<1> HIDE DEF b
<1>14. /\ n \in CryptoBattleState /\ SameRow(b, n) /\ n.cards = b.cards /\ n.orders = b.orders
       /\ n.gen = b.gen /\ n.rotated = b.rotated
  BY <1>3, <1>5, <1>13, EarnType, EarnKeys
<1> HIDE DEF n
<1>15. /\ n.cards = match.cards /\ n.orders = orders /\ n.gen = match.gen
       /\ n.rotated = match.rotated /\ SameRow(match, n)
  BY <1>12, <1>13, <1>14 DEF SameRow
<1>16. match' = r
  BY <1>9 DEF Store, Write
<1>17. /\ r.orders = orders /\ r.gen = match.gen /\ r.rotated = match.rotated /\ r.now = match.now
  BY <1>14, <1>15, SettleFields DEF Lasting, SameRow
<1>18. Settled(r)
  BY <1>16 DEF Inv, InvOf
<1>19. \A q \in orders : \E p \in match.orders :
          Known(p, q) /\ q.hints = p.hints /\ (q = p \/ q.how = "duel")
  BY <1>6, <1>7, <1>10
<1>20. Edited(match, n)
  BY <1>15, <1>19 DEF Edited
<1>21. Row(r) /\ Tells(match, r)
  BY <1>1, <1>2, <1>14, <1>15, <1>18, <1>20, QuietEdit
<1> HIDE DEF r
<1>22. ASSUME NEW p \in OpenOrders(match), NEW q \in r.orders, q.team = p.team, q.seq = p.seq
       PROVE  q.hints = p.hints /\ ~Judged(q)
  <2>1. PICK z \in match.orders : Known(z, q) /\ q.hints = z.hints /\ (q = z \/ q.how = "duel")
    BY <1>17, <1>19
  <2>2. z = p
    BY <1>1, <1>22, <2>1 DEF Known, Twin, Sound, Numbered, OpenOrders
  <2>3. ~Judged(p)
    BY DEF Judged, OpenOrders, IsOpen
  <2> QED BY <2>1, <2>2, <2>3 DEF Judged
<1> QED BY <1>16, <1>17, <1>21, <1>22 DEF Plain, Honest, Earned, SameHints

\* A card that is declared doubles its order.
LEMMA DeclareView ==
    ASSUME Inv, Inv', Row(match), NEW o \in match.orders, Declare(o)
    PROVE  Plain(match, match')
<1> DEFINE card == [st |-> "armed", seq |-> o.seq, points |-> 2 * Points(o),
                    expires |-> o.expires, result |-> "none"]
           cards == [match.cards EXCEPT ![o.team] = card]
           n == [match EXCEPT !.cards = cards]
           r == SettleLightning(n)
<1>1. /\ match \in CryptoBattleState /\ Sound(match) /\ Held(match) /\ Settled(match)
      /\ match.cards \in [Teams -> LightningCard]
  BY InvFields, RowFields
<1>2. /\ Started(match) /\ match.phase # "ended" /\ match.cards[o.team].st = "available"
      /\ IsOpen(o) /\ match.now < o.expires
  BY <1>1, OrderFields DEF Declare, MayDeclare, Eligible, Playing, Settled
<1>3. o.team \in Teams /\ o.seq \in Nat /\ o.expires \in Nat /\ Points(o) \in Nat
      /\ match.now \in Nat
  BY <1>1, <1>2, OrderFields DEF Settled
<1>4. 2 * Points(o) \in Nat
  BY <1>3
<1>5. card \in LightningCard
  BY <1>3, <1>4 DEF LightningCard, Optional
<1>6. /\ card.st = "armed" /\ Stake(card, o.team, o) /\ card.points = 2 * Points(o)
      /\ card.seq = o.seq /\ card.expires = o.expires
  BY DEF Stake
<1>7. Store(n)
  <2>1. n = [match EXCEPT !.cards[o.team] = card]
    BY <1>1 DEF CryptoBattleState
  <2> QED BY <2>1 DEF Declare
<1> HIDE DEF card
<1>8. cards \in [Teams -> LightningCard] /\ cards[o.team] = card
      /\ \A t \in Teams : t # o.team => cards[t] = match.cards[t]
  BY <1>1, <1>3, <1>5
<1> HIDE DEF cards
<1>9. /\ n \in CryptoBattleState /\ SameRow(match, n) /\ n.cards = cards
      /\ n.orders = match.orders /\ n.gen = match.gen /\ n.rotated = match.rotated
  BY <1>1, <1>8 DEF CryptoBattleState, SameRow
<1> HIDE DEF n
<1>10. match' = r
  BY <1>7 DEF Store, Write
<1>11. Settled(r)
  BY <1>10 DEF Inv, InvOf
<1>12. r.orders = match.orders /\ r.gen = match.gen /\ r.rotated = match.rotated /\ r.now = match.now
  BY <1>9, SettleFields DEF Lasting, SameRow
<1>13. Edited(match, n)
  BY <1>9, KnownSelf DEF Edited
<1>14. OpenOrders(n) = OpenOrders(match) /\ n.count = match.count /\ n.awarded = match.awarded
       /\ n.now = match.now
  BY <1>9 DEF OpenOrders, SameRow
<1>15. match.awarded
  BY <1>2, <1>3 DEF Row, CardsTrue, CardTrue
<1>16. ASSUME NEW q \in OpenOrders(match), q.team = o.team, q.seq = o.seq PROVE q = o
  BY <1>1, <1>16 DEF Sound, Numbered, OpenOrders
<1>17. CardsTrue(n)
  <2> SUFFICES ASSUME NEW t \in Teams PROVE CardTrue(n, t)
    BY DEF CardsTrue
  <2>1. CardTrue(match, t)
    BY DEF Row, CardsTrue
  <2>2. CASE t # o.team
    BY <1>8, <1>9, <1>14, <2>1, <2>2 DEF CardTrue
  <2>3. CASE t = o.team
    <3>1. o.seq < match.count[o.team]
      BY <1>1 DEF Sound, Numbered
    <3> QED BY <1>3, <1>6, <1>8, <1>9, <1>14, <1>15, <1>16, <2>3, <3>1 DEF CardTrue
  <2> QED BY <2>2, <2>3
<1>18. Backed(n)
  <2> SUFFICES ASSUME NEW t \in Teams, cards[t].st = "armed", NEW q \in OpenOrders(match),
                      q.team = t, q.seq = cards[t].seq
               PROVE  Stake(cards[t], t, q) /\ ~(cards[t].expires <= match.now)
    BY <1>9, <1>14 DEF Backed
  <2>1. CASE t = o.team
    BY <1>6, <1>8, <1>16, <2>1, <1>2, <1>3
  <2>2. CASE t # o.team
    <3>1. cards[t] = match.cards[t]
      BY <1>8, <2>2
    <3>2. PICK p \in OpenOrders(match) : Stake(match.cards[t], t, p)
      BY <1>1, <3>1 DEF Held
    <3>3. p = q
      BY <1>1, <3>1, <3>2 DEF Stake, Sound, Numbered, OpenOrders
    <3>4. Alive(match) /\ Now(match) = match.now
      BY <1>1, <1>2, <1>3, AmountsAssumption DEF Settled, Now
    <3>5. match.now < q.expires /\ q.expires \in Nat
      BY <1>1, <3>4, OrderFields DEF Alive, OpenOrders
    <3> QED BY <1>3, <3>1, <3>2, <3>3, <3>5 DEF Stake
  <2> QED BY <2>1, <2>2
<1>19. CardsStand(match, n)
  BY <1>2, <1>8, <1>9 DEF CardsStand
<1>20. CardsTrue(r) /\ Dated(r) /\ CardsStand(match, r) /\ KeysTrue(r)
  BY <1>1, <1>2, <1>9, <1>11, <1>13, <1>17, <1>18, <1>19, StoredRow
<1>21. Tells(match, r)
  <2>1. \A t \in Teams : match.gen[t] <= n.gen[t]
    BY <1>1, RowFields, <1>9
  <2> QED BY <1>1, <1>9, <1>13, <1>20, <2>1, EditTells
<1> HIDE DEF r
<1>22. ASSUME NEW p \in OpenOrders(match), NEW q \in r.orders, q.team = p.team, q.seq = p.seq
       PROVE  q.hints = p.hints /\ ~Judged(q)
  BY <1>1, <1>12, <1>22 DEF Sound, Numbered, OpenOrders, Judged, IsOpen
<1> QED BY <1>10, <1>12, <1>20, <1>21, <1>22 DEF Plain, Honest, Row, Earned, SameHints

\* A rotation closes what was to be answered with the old key.
LEMMA RotateView ==
    ASSUME Inv, Inv', Row(match), NEW t \in Teams, Rotate(t)
    PROVE  /\ Honest(match, match') /\ SameHints(match, match') /\ match'.now = match.now
           /\ \A u \in Teams : u # t =>
                 match'.gen[u] = match.gen[u] /\ match'.rotated[u] = match.rotated[u]
           /\ RotationPenalty(t) \in Nat
           /\ match'.score[t] = Floored(match.score[t] - RotationPenalty(t))
<1> DEFINE new(o) == IF o \in Voided(t)
                     THEN [o EXCEPT !.status = "expired", !.how = "rotate"] ELSE o
           orders == {new(o) : o \in match.orders}
           gen == [match.gen EXCEPT ![t] = @ + 1]
           rotated == [match.rotated EXCEPT ![t] = match.now]
           disclosed == [match.disclosed EXCEPT ![t] = FALSE]
           a == [match EXCEPT !.gen = gen, !.rotated = rotated, !.disclosed = disclosed,
                              !.orders = orders]
           penalty == RotationPenalty(t)
           n == Earn(a, t, -penalty)
           r == SettleLightning(n)
<1>1. /\ match \in CryptoBattleState /\ Sound(match) /\ Settled(match)
      /\ \A o \in match.orders : o \in Contract
  BY InvFields
<1>2. Started(match) /\ match.phase # "ended" /\ match.now \in Nat
  BY <1>1 DEF Rotate, Playing, Settled
<1>3. /\ match.gen \in [Teams -> Nat \ {0}] /\ match.rotated \in [Teams -> Optional(Nat)]
      /\ match.disclosed \in [Teams -> BOOLEAN]
  BY <1>1 DEF CryptoBattleState
<1>4. penalty \in Nat /\ -penalty \in Int
  <2> DEFINE count == Cardinality(Voided(t))
  <2>1. Voided(t) \in SUBSET match.orders
    BY DEF Voided, OpenOrders
  <2>2. count \in Nat
    BY <1>1, <2>1, FS_Subset, FS_CardinalityType DEF Sound
  <2>3. penalty = Greatest(IF match.disclosed[t] THEN ExpiredOrder ELSE 0, ExpiredOrder * count)
    BY DEF RotationPenalty
  <2> HIDE DEF count, penalty
  <2>4. ExpiredOrder * count \in Nat /\ ExpiredOrder \in Nat
    BY <2>2, AmountsAssumption
  <2>5. penalty \in Nat
    BY <2>3, <2>4 DEF Greatest
  <2> QED BY <2>5
<1>5. ASSUME NEW o \in match.orders
      PROVE  /\ new(o) \in Contract /\ Known(o, new(o)) /\ new(o).hints = o.hints
             /\ new(o) = o \/ new(o).status = "expired"
             /\ o \in Voided(t) => ~IsOpen(new(o))
             /\ o \notin Voided(t) => new(o) = o
  <2>1. o \in Contract
    BY <1>1
  <2>2. CASE o \in Voided(t)
    <3>1. new(o) = [o EXCEPT !.status = "expired", !.how = "rotate"]
      BY <2>2
    <3> HIDE DEF new
    <3> QED BY <2>1, <2>2, <3>1 DEF Contract, Known, Twin, IsOpen
  <2>3. CASE o \notin Voided(t)
    BY <2>1, <2>3, KnownSelf
  <2> QED BY <2>2, <2>3
<1>6. /\ gen \in [Teams -> Nat \ {0}] /\ rotated \in [Teams -> Optional(Nat)]
      /\ disclosed \in [Teams -> BOOLEAN]
      /\ gen[t] = match.gen[t] + 1
      /\ \A u \in Teams : u # t => gen[u] = match.gen[u] /\ rotated[u] = match.rotated[u]
  BY <1>2, <1>3 DEF Optional
<1>7. Store(n)
  BY <1>1 DEF Rotate, CryptoBattleState
<1> HIDE DEF new, gen, rotated, disclosed, penalty
<1>8. \A q \in orders : \E o \in match.orders : q = new(o)
  OBVIOUS
<1>9. orders \in SUBSET Contract
  BY <1>5
<1> HIDE DEF orders
<1>10. /\ a \in CryptoBattleState /\ SameRow(match, a) /\ a.cards = match.cards /\ a.orders = orders
       /\ a.gen = gen /\ a.rotated = rotated /\ a.score = match.score
  BY <1>1, <1>6, <1>9 DEF CryptoBattleState, SameRow
<1> HIDE DEF a
<1>11. /\ n \in CryptoBattleState /\ SameRow(a, n) /\ n.cards = a.cards /\ n.orders = a.orders
       /\ n.gen = a.gen /\ n.rotated = a.rotated
       /\ n.score[t] = Floored(a.score[t] + -penalty)
  <2>1. n \in CryptoBattleState /\ SameRow(a, n) /\ n.cards = a.cards /\ n.orders = a.orders
    BY <1>4, <1>10, EarnType
  <2>2. n.gen = a.gen /\ n.rotated = a.rotated
    BY <1>4, <1>10, EarnKeys
  <2>3. n.score[t] = Floored(a.score[t] + -penalty)
    BY <1>4, <1>10, EarnScore
  <2> QED BY <2>1, <2>2, <2>3
<1> HIDE DEF n
<1>12. SameRow(match, n) /\ n.cards = match.cards /\ n.orders = orders /\ n.gen = gen
       /\ n.rotated = rotated
  BY <1>10, <1>11 DEF SameRow
<1>13. match' = r
  BY <1>7 DEF Store, Write
<1>14. Settled(r)
  BY <1>13 DEF Inv, InvOf
<1>15. r.orders = orders /\ r.gen = gen /\ r.rotated = rotated /\ r.now = match.now
       /\ r.score = n.score
  BY <1>11, <1>12, SettleFields DEF Lasting, SameRow
<1>16. Edited(match, n)
  BY <1>5, <1>8, <1>12 DEF Edited
<1>17. CardsTrue(r) /\ Dated(r) /\ CardsStand(match, r)
  BY <1>1, <1>2, <1>11, <1>12, <1>14, <1>16, EditRow
<1>18. Tells(match, r)
  <2>1. ASSUME NEW u \in Teams
        PROVE  match.gen[u] <= n.gen[u] /\ (n.gen[u] = match.gen[u] => n.rotated[u] = match.rotated[u])
    BY <1>3, <1>6, <1>12
  <2> QED BY <1>1, <1>11, <1>16, <1>17, <2>1, EditTells
<1> HIDE DEF r
<1>19. KeysTrue(r)
  <2> SUFFICES ASSUME NEW q \in OpenOrders(r), q.task # "duel" PROVE q.gen = r.gen[q.team]
    BY DEF KeysTrue
  <2>1. PICK o \in match.orders : q = new(o)
    BY <1>8, <1>15 DEF OpenOrders
  <2>2. o \notin Voided(t) /\ q = o
    BY <1>5, <2>1 DEF OpenOrders
  <2>3. q \in OpenOrders(match) /\ q.team # t
    BY <2>2 DEF Voided, OpenOrders
  <2>4. q.team \in Teams
    BY <1>1, <2>2, OrderFields
  <2> QED BY <1>6, <1>15, <2>3, <2>4 DEF Row, KeysTrue
<1>20. ASSUME NEW p \in OpenOrders(match), NEW q \in r.orders, q.team = p.team, q.seq = p.seq
       PROVE  q.hints = p.hints /\ ~Judged(q)
  <2>1. PICK z \in match.orders : q = new(z)
    BY <1>8, <1>15
  <2>2. z = p
    BY <1>1, <1>5, <1>20, <2>1 DEF Known, Twin, Sound, Numbered, OpenOrders
  <2>3. ~Judged(p)
    BY DEF Judged, OpenOrders, IsOpen
  <2> QED BY <1>5, <2>1, <2>2, <2>3 DEF Judged
<1>21. r.score[t] = Floored(match.score[t] - penalty)
  BY <1>1, RowFields, <1>4, <1>10, <1>11, <1>15
<1> QED BY <1>4, <1>6, <1>13, <1>15, <1>17, <1>18, <1>19, <1>20, <1>21
    DEF Honest, Row, Earned, SameHints, penalty

-----------------------------------------------------------------------------
(* The clock is honest too: it earns no answer and opens no hint.            *)

LEMMA LetsHonest ==
    ASSUME NEW m, Sound(m), NEW r \in CryptoBattleState, Row(r), Lets(m, r)
    PROVE  Honest(m, r) /\ SameHints(m, r)
<1>1. m \in CryptoBattleState
  BY DEF Sound
<1>2. \A t \in Teams : m.gen[t] \in Nat /\ m.count[t] \in Nat
  BY <1>1, RowFields
<1>3. \A o, q : Kept(o, q) => Grows(o, q)
  BY DEF Kept, Grows
<1>4. Tells(m, r)
  BY <1>2, <1>3 DEF Lets, Comes, Tells
<1>5. ASSUME NEW o \in OpenOrders(m), NEW q \in r.orders, q.team = o.team, q.seq = o.seq
      PROVE  Kept(o, q)
  <2>1. o \in m.orders /\ o.seq \in Nat /\ o.team \in Teams /\ o.seq < m.count[o.team]
    BY <1>1, OrderFields DEF Sound, Numbered, OpenOrders
  <2>2. m.count[o.team] \in Nat
    BY <1>2, <2>1
  <2>3. ~Comes(m, q)
    BY <1>5, <2>1, <2>2 DEF Comes
  <2>4. PICK p \in m.orders : Kept(p, q)
    BY <2>3 DEF Lets
  <2>5. p = o
    BY <1>5, <2>1, <2>4 DEF Kept, Sound, Numbered
  <2> QED BY <2>4, <2>5
<1>6. Earned(m, r)
  BY <1>5 DEF Kept, Judged, OpenOrders, Earned
<1>7. SameHints(m, r)
  BY <1>5 DEF SameHints, Kept
<1> QED BY <1>4, <1>6, <1>7 DEF Honest

-----------------------------------------------------------------------------
(* Every move, and every look at the clock.                                  *)

LEMMA SettledStays ==
    ASSUME NEW m, Settled(m)
    PROVE  SettleLightning(m) = m
<1>1. m \in CryptoBattleState
  BY DEF Settled, Sound
<1>2. \A t \in Teams : SettledCard(m, t) = m.cards[t]
  <2>1. CASE Started(m)
    BY <2>1 DEF Settled, Still
  <2>2. CASE ~Started(m)
    BY <2>2 DEF Settled, Held, OpenOrders, SettledCard, Stranded
  <2> QED BY <2>1, <2>2
<1>3. [t \in Teams |-> SettledCard(m, t)] = m.cards
  BY <1>1, <1>2, RowFields
<1>4. SettleLightning(m) = [m EXCEPT !.cards = m.cards]
  BY <1>3 DEF SettleLightning
<1> QED BY <1>1, <1>4 DEF CryptoBattleState

\* A match that waits, or is started.
LEMMA StartView ==
    ASSUME Inv, Row(match), Start \/ \E t \in Teams : Ready(t)
    PROVE  /\ ~Started(match) /\ Row(match') /\ match'.gen = match.gen
           /\ match'.rotated = match.rotated /\ match'.now \in {match.now, Clock}
<1>1. match \in CryptoBattleState /\ Settled(match) /\ ~Started(match)
  BY InvFields DEF Ready, Start, Waits
<1>2. CASE Start
  BY <1>1, StartSettles, <1>2, SettledStays, StartRow DEF Start, Store, Write, Clock
<1>3. ASSUME NEW t \in Teams, Ready(t)
      PROVE  /\ Row(match') /\ match'.gen = match.gen /\ match'.rotated = match.rotated
             /\ match'.now \in {match.now, Clock}
  BY <1>1, ReadySettles, <1>3, SettledStays, ReadyRow DEF Ready, Store, Write, Clock
<1> QED BY <1>1, <1>2, <1>3

\* Before START nothing was rotated.
Unrotated(m) == ~Started(m) => \A t \in Teams : m.rotated[t] = None

\* What a step leaves of the row, and what it may do to pages.
Fair(m, r) ==
    /\ Row(r) /\ Unrotated(r)
    /\ Started(m) => Honest(m, r) /\ SameHints(m, r)

LEMMA PlainFair ==
    ASSUME NEW m, NEW r, Started(m), Plain(m, r)
    PROVE  Fair(m, r)
  BY DEF Plain, Honest, Tells, Fair, Unrotated, Started

\* Only its own rotation gives a team another key.
Spares(gen, other) == \A t \in Teams : Rotate(t) \/ other[t] = gen[t]

LEMMA MovesView ==
    ASSUME Inv, Inv', Row(match), Unrotated(match), Moves
    PROVE  Fair(match, match') /\ Spares(match.gen, match'.gen) /\ match'.now \in {match.now, Clock}
<1>1. CASE Start \/ \E t \in Teams : Ready(t)
  BY <1>1, StartView DEF Fair, Unrotated, Spares
<1>2. ASSUME NEW t \in Teams, Rotate(t)
      PROVE  /\ Fair(match, match') /\ Spares(match.gen, match'.gen)
             /\ match'.now \in {match.now, Clock}
  <2>1. Started(match)
    BY <1>2 DEF Rotate, Playing
  <2>2. /\ Honest(match, match') /\ SameHints(match, match') /\ match'.now = match.now
        /\ \A u \in Teams : u # t => match'.gen[u] = match.gen[u]
    BY <1>2, RotateView
  <2>3. match'.start = match.start
    BY <2>2 DEF Honest, Tells
  <2> QED BY <1>2, <2>1, <2>2, <2>3 DEF Fair, Honest, Unrotated, Started, Spares
<1>3. ASSUME Started(match), Plain(match, match')
      PROVE  /\ Fair(match, match') /\ Spares(match.gen, match'.gen)
             /\ match'.now \in {match.now, Clock}
  BY <1>3, PlainFair DEF Plain, Spares
<1>4. ASSUME NEW o \in match.orders, Leak(o) PROVE Started(match) /\ Plain(match, match')
  BY <1>4, LeakView DEF Leak, Playing
<1>5. ASSUME NEW o \in match.orders, Encrypt(o) \/ Calculate(o) \/ Evolve(o)
      PROVE  Started(match) /\ Plain(match, match')
  BY <1>5, SolveView DEF Encrypt, Calculate, Evolve, Solve, Playing
<1>6. ASSUME NEW o \in match.orders, MissCipher(o) \/ MissEvolve(o)
      PROVE  Started(match) /\ Plain(match, match')
  BY <1>6, MissView DEF MissCipher, MissEvolve, Playing
<1>7. ASSUME NEW o \in match.orders, ProofCommit(o) \/ ProofHit(o) \/ ProofMiss(o)
      PROVE  Started(match) /\ Plain(match, match')
  BY <1>7, ProofView DEF ProofCommit, ProofHit, ProofMiss, Playing
<1>8. ASSUME NEW o \in match.orders, Seal(o) \/ Open(o)
      PROVE  Started(match) /\ Plain(match, match')
  BY <1>8, DuelStepView DEF Seal, Open, Playing
<1>9. ASSUME NEW o \in match.orders, NEW r \in Outcomes, OpenBoth(o, r[1], r[2])
      PROVE  Started(match) /\ Plain(match, match')
  BY <1>9, OpenBothView DEF OpenBoth, Playing
<1>10. ASSUME NEW o \in match.orders, Declare(o) PROVE Started(match) /\ Plain(match, match')
  BY <1>10, DeclareView DEF Declare, Playing
<1> QED BY <1>1, <1>2, <1>3, <1>4, <1>5, <1>6, <1>7, <1>8, <1>9, <1>10 DEF Moves

LEMMA TickView ==
    ASSUME Inv, Row(match), Unrotated(match), NEW at \in Nat, NEW reported \in Reports \cup {None},
           TickAt(at, reported)
    PROVE  Inv' /\ Fair(match, match') /\ match'.gen = match.gen /\ match'.now \in {match.now, at}
<1> DEFINE r == Tick(match, at, reported)
<1>1. Settled(match) /\ Sound(match) /\ match \in CryptoBattleState
  BY InvFields
<1>2. reported \in Int \cup {None} /\ (reported # None => reported >= at \/ reported <= 0)
  BY HorizonAssumption DEF TickAt
<1>3. Settled(r) /\ Evolves(match, r) /\ (Started(match) => Started(r))
  BY <1>1, <1>2, TickSettles
<1>4. Row(r) /\ (Started(match) => Lets(match, r)) /\ r.rotated = match.rotated /\ r.now \in {match.now, at}
      /\ r.gen = match.gen
  BY <1>1, <1>2, TickedLets
<1>5. match' = r /\ Write(r)
  BY DEF TickAt, Write
<1> HIDE DEF r
<1>6. Inv'
  BY <1>3, <1>5, WriteKeeps
<1>7. r \in CryptoBattleState
  BY <1>3 DEF Settled, Sound
<1>8. Started(match) => Honest(match, r) /\ SameHints(match, r)
  BY <1>1, <1>4, <1>7, LetsHonest
<1>9. Unrotated(r)
  BY <1>3, <1>4 DEF Unrotated
<1> QED BY <1>4, <1>5, <1>6, <1>8, <1>9 DEF Fair

-----------------------------------------------------------------------------
(* What is projected of a row has the type that every page takes.             *)

LEMMA CardinalityType == ASSUME NEW S, IsFiniteSet(S), NEW T \in SUBSET S PROVE Cardinality(T) \in Nat
  BY FS_Subset, FS_CardinalityType

\* What a row of the invariant gives a projection.
LEMMA ShowFields ==
    ASSUME Inv, Row(match)
    PROVE  /\ match \in CryptoBattleState /\ Sound(match) /\ Settled(match)
           /\ match.now \in Nat \cup {None} /\ Clock \in Nat
           /\ Started(match) => /\ match.now \in Nat /\ match.start \in Nat /\ End(match) \in Nat
                                /\ BoundaryAt(match) \in Nat /\ Now(match) = match.now
           /\ match.awarded => Started(match)
           /\ ~Started(match) => match.orders = {}
BY InvFields, RowFields, AmountsAssumption DEF Clock, Settled, Now

LEMMA RotationCost ==
    ASSUME Inv, NEW t \in Teams
    PROVE  /\ Cardinality(Voided(t)) \in Nat /\ RotationPenalty(t) \in Nat
           /\ ExpiredOrder * Cardinality(Voided(t)) \in Nat
           /\ RotationPenalty(t) >= ExpiredOrder * Cardinality(Voided(t))
<1>1. Sound(match)
  BY InvFields
<1>2. Voided(t) \in SUBSET match.orders
  BY DEF Voided, OpenOrders
<1> DEFINE count == Cardinality(Voided(t))
<1>3. count \in Nat
  BY <1>1, <1>2, CardinalityType DEF Sound
<1>4. RotationPenalty(t) = Greatest(IF match.disclosed[t] THEN ExpiredOrder ELSE 0, ExpiredOrder * count)
  BY DEF RotationPenalty
<1> HIDE DEF count
<1>5. ExpiredOrder * count \in Nat /\ ExpiredOrder \in Nat
  BY <1>3, AmountsAssumption
<1>6. RotationPenalty(t) \in Nat /\ RotationPenalty(t) >= ExpiredOrder * count
  BY <1>4, <1>5 DEF Greatest
<1> QED BY <1>3, <1>5, <1>6 DEF count

LEMMA FlooredNat == \A x \in Int : Floored(x) \in Nat /\ Floored(x) >= x
  BY DEF Floored

LEMMA HintPriceType ==
    ASSUME NEW t \in Teams, NEW level \in DOMAIN HintCosts
    PROVE  HintPrice(t, level) \in Nat /\ HintCosts[level] \in Nat
BY HintsAssumption DEF HintPrice

LEMMA OrderShown ==
    ASSUME Inv, Row(match), NEW o \in match.orders
    PROVE  ProjectOrder(o) \in ContractProjection
<1>1. /\ match \in CryptoBattleState /\ match.now \in Nat /\ Now(match) = match.now
  BY ShowFields
<1>2. /\ o \in Contract /\ o.team \in Teams /\ o.seq \in Nat /\ o.rush \in BOOLEAN
      /\ o.task \in Tasks /\ o.issued \in Nat /\ o.expires \in Nat /\ o.gen \in Nat \ {0}
      /\ o.status \in {"open", "completed", "expired"} /\ o.failed \in BOOLEAN
      /\ o.how \in {"none", "deadline", "rotate"} \cup Answers /\ o.hints \in Nat
      /\ Reward(o) \in Nat
  BY InvFields, HintsAssumption, <1>1, OrderFields DEF Contract
<1>3. ProjectTask(o) \in OrderTaskProjection
  BY <1>1, <1>2, RowFields DEF ProjectTask, OrderTaskProjection, Optional
<1>4. ProjectHints(o) \in [DOMAIN HintCosts -> HintProjection]
  BY <1>2, HintPriceType DEF ProjectHints, HintProjection
<1>5. Eligible(o) \in BOOLEAN
  BY DEF Eligible
<1>6. Methods(o.task) \in SUBSET Answers
  BY <1>2 DEF Methods, Answers, Tasks
<1>7. o.expires - o.issued \in Nat /\ Floored(o.expires - match.now) \in Nat
  BY <1>1, <1>2, FlooredNat DEF Row, Dated
<1> DEFINE task == ProjectTask(o)
           hints == ProjectHints(o)
           points == Reward(o)
           eligible == Eligible(o)
           methods == Methods(o.task)
           duration == o.expires - o.issued
           remaining == Floored(o.expires - match.now)
<1>8. ProjectOrder(o) =
        [seq |-> o.seq, task |-> task, rush |-> o.rush, status |-> o.status, how |-> o.how,
         points |-> points, leakPoints |-> LeakPoints, failed |-> o.failed,
         eligible |-> eligible, methods |-> methods, duration |-> duration,
         remaining |-> remaining, hints |-> hints]
  BY DEF ProjectOrder
<1>9. /\ task \in OrderTaskProjection /\ hints \in [DOMAIN HintCosts -> HintProjection]
      /\ points \in Nat /\ eligible \in BOOLEAN /\ methods \in SUBSET Answers /\ duration \in Nat
      /\ remaining \in Nat /\ LeakPoints \in Nat
  BY <1>2, <1>3, <1>4, <1>5, <1>6, <1>7, AmountsAssumption
<1> HIDE DEF task, hints, points, eligible, methods, duration, remaining
<1> QED BY <1>2, <1>8, <1>9 DEF ContractProjection

LEMMA BoosterShown ==
    ASSUME Inv, Row(match), NEW t \in Teams
    PROVE  ProjectBooster(t) \in
               [status : BoosterStates, startsIn : Optional(Nat), remaining : Nat]
<1>1. /\ Started(match) => match.now \in Nat /\ End(match) \in Nat /\ BoundaryAt(match) \in Nat
      /\ match.awarded => Started(match)
  BY ShowFields
<1>2. StartsIn(match) \in Optional(Nat)
  <2>1. CASE Started(match)
    <3>1. BoundaryAt(match) - match.now \in Int
      BY <1>1, <2>1
    <3> QED BY <2>1, <3>1, FlooredNat DEF StartsIn, Optional
  <2>2. CASE ~Started(match)
    BY <2>2 DEF StartsIn, Optional
  <2> QED BY <2>1, <2>2
<1> DEFINE status == IF ~match.awarded THEN Undistributed(match)
                     ELSE IF t \notin match.boosted THEN "ineligible"
                     ELSE IF Boosted(t) THEN "active" ELSE "expired"
           remaining == IF Boosted(t)
                        THEN Least(BoundaryAt(match) + BoostFor, End(match)) - match.now ELSE 0
<1>3. status \in BoosterStates
  BY DEF Undistributed, BoosterStates
<1>4. remaining \in Nat
  <2>1. CASE Boosted(t)
    BY <1>1, <2>1, PausesAssumption DEF Boosted, Least
  <2>2. CASE ~Boosted(t)
    BY <2>2
  <2> QED BY <2>1, <2>2
<1>5. ProjectBooster(t) = [status |-> status, startsIn |-> StartsIn(match), remaining |-> remaining]
  BY DEF ProjectBooster
<1> HIDE DEF status, remaining
<1> QED BY <1>2, <1>3, <1>4, <1>5

LEMMA LightningShown ==
    ASSUME Inv, Row(match), NEW t \in Teams
    PROVE  LET card == ProjectLightning(match, t)
           IN  /\ card \in [status : CardStates, startsIn : Optional(Nat), seq : Optional(Nat),
                            points : Nat, result : Verdicts, remaining : Nat]
               /\ card.status \in {"armed", "spent"} => card.seq \in Nat
               /\ card.status = "spent" => card.result # "none"
<1> DEFINE card == match.cards[t]
           status == IF match.awarded THEN card.st ELSE Undistributed(match)
           remaining == IF card.st = "armed"
                        THEN Floored(Least(card.expires, End(match)) - match.now) ELSE 0
<1>1. /\ Started(match) => match.now \in Nat /\ End(match) \in Nat /\ BoundaryAt(match) \in Nat
      /\ match.awarded => Started(match)
      /\ match \in CryptoBattleState
  BY ShowFields
<1>2. StartsIn(match) \in Optional(Nat)
  <2>1. CASE Started(match)
    <3>1. BoundaryAt(match) - match.now \in Int
      BY <1>1, <2>1
    <3> QED BY <2>1, <3>1, FlooredNat DEF StartsIn, Optional
  <2>2. CASE ~Started(match)
    BY <2>2 DEF StartsIn, Optional
  <2> QED BY <2>1, <2>2
<1>3. /\ card.st \in {"none", "available", "armed", "spent", "unused"} /\ card.seq \in Optional(Nat)
      /\ card.points \in Nat /\ card.expires \in Nat /\ card.result \in Verdicts
  BY <1>1, RowFields DEF LightningCard, Verdicts
<1>4. CardTrue(match, t)
  BY DEF Row, CardsTrue
<1>5. /\ card.st \in {"armed", "spent"} => card.seq \in Nat /\ match.awarded
      /\ card.st = "spent" => card.result # "none"
  BY <1>4 DEF CardTrue
<1> HIDE DEF card
<1>6. status \in CardStates
  BY <1>3 DEF Undistributed, CardStates
<1>7. /\ status \in {"armed", "spent"} => card.seq \in Nat
      /\ status = "spent" => card.result # "none"
  BY <1>5 DEF Undistributed
<1>8. remaining \in Nat
  <2>1. CASE card.st = "armed"
    BY <1>1, <1>5, <2>1, <1>3, FlooredNat DEF Least
  <2>2. CASE card.st # "armed"
    BY <2>2
  <2> QED BY <2>1, <2>2
<1>9. ProjectLightning(match, t) =
        [status |-> status, startsIn |-> StartsIn(match), seq |-> card.seq, points |-> card.points,
         result |-> card.result, remaining |-> remaining]
  BY DEF ProjectLightning, card
<1> HIDE DEF status, remaining
<1> QED BY <1>2, <1>3, <1>6, <1>7, <1>8, <1>9

LEMMA VaultShown ==
    ASSUME Inv, Row(match), Unrotated(match), NEW t \in Teams
    PROVE  /\ Vault(t) \in VaultProjection /\ Vault(t).generation = match.gen[t]
           /\ match.rotated[t] # None =>
                 /\ match.now \in Nat /\ match.rotated[t] \in Nat
                 /\ Vault(t).rotateIn >= Cooldown - (match.now - match.rotated[t])
           /\ Vault(t).rotatePenalty >= Least(match.score[t], ExpiredOrder * Cardinality(Voided(t)))
<1>1. /\ match \in CryptoBattleState /\ (Started(match) => match.now \in Nat)
  BY ShowFields
<1>2. /\ match.gen[t] \in Nat \ {0} /\ match.score[t] \in Nat /\ match.rotated[t] \in Nat \cup {None}
  BY <1>1, RowFields DEF CryptoBattleState, Optional
<1>3. match.rotated[t] # None => match.now \in Nat /\ match.rotated[t] \in Nat
  BY <1>1, <1>2 DEF Unrotated
<1>4. /\ RotateIn(t) \in Nat
      /\ match.rotated[t] # None => RotateIn(t) >= Cooldown - (match.now - match.rotated[t])
  <2>1. CASE match.rotated[t] = None
    BY <2>1 DEF RotateIn
  <2>2. CASE match.rotated[t] # None
    BY <1>3, <2>2, PausesAssumption, FlooredNat DEF RotateIn
  <2> QED BY <2>1, <2>2
<1> DEFINE minimum == IF match.disclosed[t] THEN ExpiredOrder ELSE 0
           penalty == Least(match.score[t], RotationPenalty(t))
<1>5. minimum \in Nat
  BY AmountsAssumption
<1>6. penalty \in Nat /\ penalty >= Least(match.score[t], ExpiredOrder * Cardinality(Voided(t)))
  BY <1>2, RotationCost DEF Least
<1>7. Vault(t) = [generation |-> match.gen[t], rotateIn |-> RotateIn(t),
                  rotateMinimum |-> minimum, rotatePenalty |-> penalty]
  BY DEF Vault
<1> HIDE DEF minimum, penalty
<1>8. Vault(t) \in VaultProjection
  BY <1>2, <1>4, <1>5, <1>6, <1>7 DEF VaultProjection
<1> QED BY <1>3, <1>4, <1>6, <1>7, <1>8

LEMMA LeftType ==
    ASSUME Inv, Row(match)
    PROVE  MatchRemaining \in Nat /\ (Started(match) => MatchRemaining = Floored(End(match) - match.now))
<1>1. /\ Started(match) => match.now \in Nat /\ End(match) \in Nat
      /\ match \in CryptoBattleState /\ Clock \in Nat
  BY ShowFields
<1>2. CASE Started(match)
  BY <1>1, <1>2, FlooredNat DEF MatchRemaining
<1>3. CASE ~Started(match)
  BY <1>1, RowFields, <1>3, FlooredNat DEF CryptoBattleState, Optional, MatchRemaining
<1> QED BY <1>2, <1>3

LEMMA EachShown ==
    ASSUME Inv, Row(match), Unrotated(match), NEW t \in Teams
    PROVE  ProjectForTeam(t) \in CryptoBattleProjection
<1>1. /\ match \in CryptoBattleState /\ IsFiniteSet(match.orders)
  BY ShowFields DEF Sound
<1>2. match.now \in Optional(Nat) /\ match.phase \in Phases /\ match.ready \in SUBSET Teams
  BY <1>1 DEF CryptoBattleState
<1> DEFINE count == Cardinality(match.ready)
           total == Cardinality(Teams)
           ready == [count |-> count, total |-> total, me |-> t \in match.ready]
           vault == Vault(t)
           orders == {ProjectOrder(o) : o \in {p \in match.orders : p.team = t}}
           others == Cardinality({o \in OpenOrders(match) : o.team # t})
           teams == [u \in Teams |-> [score |-> match.score[u], generation |-> match.gen[u]]]
           booster == ProjectBooster(t)
           lightning == ProjectLightning(match, t)
           left == MatchRemaining
<1>3. count \in Nat /\ total \in Nat
  BY <1>2, TeamsFinite, CardinalityType, FS_CardinalityType
<1>4. ready \in [count : Nat, total : Nat, me : BOOLEAN]
  <2> HIDE DEF count, total
  <2> QED BY <1>3
<1>5. orders \in SUBSET ContractProjection
  BY OrderShown
<1>6. others \in Nat
  BY <1>1, CardinalityType DEF OpenOrders
<1>7. teams \in [Teams -> TeamSummaryProjection]
  BY <1>1, RowFields DEF TeamSummaryProjection
<1>8. vault \in VaultProjection
  BY VaultShown
<1>9. booster \in [status : BoosterStates, startsIn : Optional(Nat), remaining : Nat]
  BY BoosterShown
<1>10. lightning \in [status : CardStates, startsIn : Optional(Nat), seq : Optional(Nat),
                      points : Nat, result : Verdicts, remaining : Nat]
  BY LightningShown
<1>11. left \in Nat
  BY LeftType
<1>12. ProjectForTeam(t) =
         [clock |-> match.now, phase |-> match.phase, left |-> left, ready |-> ready,
          vault |-> vault, orders |-> orders, others |-> others, teams |-> teams,
          booster |-> booster, lightning |-> lightning]
  BY DEF ProjectForTeam
<1> HIDE DEF left, ready, vault, orders, others, teams, booster, lightning
<1> QED BY <1>2, <1>4, <1>5, <1>6, <1>7, <1>8, <1>9, <1>10, <1>11, <1>12 DEF CryptoBattleProjection

LEMMA ShownParts ==
    ASSUME NEW t
    PROVE  LET p == ProjectForTeam(t)
           IN  /\ p.clock = match.now /\ p.phase = match.phase /\ p.left = MatchRemaining
               /\ p.vault = Vault(t) /\ p.booster = ProjectBooster(t)
               /\ p.lightning = ProjectLightning(match, t)
               /\ p.orders = {ProjectOrder(o) : o \in {x \in match.orders : x.team = t}}
               /\ p.teams = [u \in Teams |-> [score |-> match.score[u], generation |-> match.gen[u]]]
  BY DEF ProjectForTeam

LEMMA DurationType == \A n \in Nat : Duration(n)
  BY AmountsAssumption DEF Duration

LEMMA EachKnown ==
    ASSUME Inv, Row(match), Unrotated(match), NEW t \in Teams
    PROVE  IsCryptoBattleProjection(ProjectForTeam(t))
<1> DEFINE p == ProjectForTeam(t)
<1>1. p \in CryptoBattleProjection
  BY EachShown
<1>2. p.booster = ProjectBooster(t) /\ p.lightning = ProjectLightning(match, t)
  BY ShownParts
<1> HIDE DEF p
<1>3. /\ p.phase \in Phases /\ p.clock \in Optional(Nat) /\ p.orders \in SUBSET ContractProjection
  BY <1>1 DEF CryptoBattleProjection
<1>4. p.booster \in [status : BoosterStates, startsIn : Optional(Nat), remaining : Nat]
  BY <1>2, BoosterShown
<1>5. BoosterKnown(p)
  <2>1. /\ p.booster.status \in BoosterStates /\ p.booster.remaining \in Nat
        /\ p.booster.startsIn \in Nat \cup {None}
    BY <1>4 DEF Optional
  <2>2. ASSUME NEW q \in p.orders, NEW level \in DOMAIN q.hints
        PROVE  Duration(q.hints[level].regular)
    BY <1>3, DurationType DEF ContractProjection, HintProjection
  <2> QED BY <2>1, <2>2, DurationType DEF BoosterKnown
<1> DEFINE card == p.lightning
<1>6. /\ card \in [status : CardStates, startsIn : Optional(Nat), seq : Optional(Nat),
                   points : Nat, result : Verdicts, remaining : Nat]
      /\ card.status \in {"armed", "spent"} => card.seq \in Nat
      /\ card.status = "spent" => card.result # "none"
  BY <1>2, LightningShown
<1> HIDE DEF card
<1>7. LightningKnown(card)
  BY <1>6, DurationType, AmountsAssumption DEF Optional, LightningKnown
<1>8. p.phase \in KnownPhases /\ (p.clock # None => Duration(p.clock))
  BY <1>3, DurationType DEF KnownPhases, Phases, Optional
<1> QED BY <1>5, <1>7, <1>8 DEF IsCryptoBattleProjection, card, p

-----------------------------------------------------------------------------
(* What stays true of a page, however old it is.                             *)

VaultTrue(m, s) ==
    /\ s.vault.generation <= m.gen[Reader]
    /\ s.vault.generation = m.gen[Reader] /\ m.rotated[Reader] # None =>
           s.vault.rotateIn >= Cooldown - (s.clock - m.rotated[Reader])
BoosterTrue(m, s) ==
    s.booster.status = "active" =>
        s.clock + s.booster.remaining >= Least(BoundaryAt(m) + BoostFor, s.clock + s.left)

\* The orders shown open that a rotation voids pay for the rotation.
ShownVoided(s) == {q \in s.orders : q.status = "open" /\ q.task.kind # "duel"}
PenaltyTrue(s) ==
    s.vault.rotatePenalty >=
        Least(s.teams[Reader].score, ExpiredOrder * Cardinality(ShownVoided(s)))

\* The reward shown is the order's, or twice that under the card that was declared on it.
PointsTrue(m, q, o) ==
    \/ o.failed
    \/ q.points = Points(o)
    \/ q.points = 2 * Points(o) /\ m.cards[Reader].st = "armed" /\ m.cards[Reader].seq = o.seq
OrderTrue(m, q) ==
    /\ q.seq < m.count[Reader]
    /\ \A o \in OpenOrders(m) : o.team = Reader /\ o.seq = q.seq =>
          /\ q.status = "open" /\ q.task.kind = o.task
          /\ q.task.key # None => q.task.key = o.gen /\ o.task # "duel"
          /\ PointsTrue(m, q, o)
OrdersTrue(m, s) ==
    /\ IsFiniteSet(s.orders)
    /\ \A a, b \in s.orders : a.seq = b.seq => a = b
    /\ \A q \in s.orders : OrderTrue(m, q)

PageTrue(m, w, p) ==
    /\ Started(m) /\ p.at \in Nat /\ p.at <= w
    /\ p.shown \in CryptoBattleProjection /\ p.shown.clock \in Nat /\ p.shown.clock <= p.at
    /\ VaultTrue(m, p.shown) /\ BoosterTrue(m, p.shown) /\ PenaltyTrue(p.shown)
    /\ OrdersTrue(m, p.shown)

ViewOf(m, w, p) ==
    /\ Row(m) /\ Unrotated(m)
    /\ w \in Nat /\ (m.now # None => m.now <= w)
    /\ p # None => PageTrue(m, w, p)
ViewInv == Inv /\ ViewOf(match, wall, page)

\* A page that was true stays true under every step, and as time passes.
LEMMA PageStands ==
    ASSUME NEW m, Sound(m), Row(m), NEW r \in CryptoBattleState, Honest(m, r), NEW w \in Nat,
           NEW v \in Nat, w <= v, NEW p, PageTrue(m, w, p)
    PROVE  PageTrue(r, v, p)
<1> DEFINE s == p.shown
<1>1. /\ m \in CryptoBattleState /\ Reader \in Teams
      /\ m.count[Reader] \in Nat /\ r.count[Reader] \in Nat
      /\ m.gen[Reader] \in Nat /\ r.gen[Reader] \in Nat
  BY ReaderAssumption, RowFields DEF Sound
<1>2. Tells(m, r) /\ CardTrue(r, Reader)
  BY <1>1 DEF Honest, Row, CardsTrue
<1>3. /\ s \in CryptoBattleProjection /\ s.clock \in Nat /\ s.clock <= p.at
      /\ VaultTrue(m, s) /\ BoosterTrue(m, s) /\ PenaltyTrue(s) /\ OrdersTrue(m, s)
      /\ Started(m) /\ p.at \in Nat /\ p.at <= w
  BY DEF PageTrue
<1> HIDE DEF s
<1>4. /\ s.vault.generation \in Nat /\ s.orders \in SUBSET ContractProjection
  BY <1>3 DEF CryptoBattleProjection, VaultProjection
<1>5. Started(r) /\ BoundaryAt(r) = BoundaryAt(m)
  BY <1>2, <1>3 DEF Tells, Started, BoundaryAt
<1>6. /\ m.gen[Reader] <= r.gen[Reader] /\ m.count[Reader] <= r.count[Reader]
      /\ r.gen[Reader] = m.gen[Reader] => r.rotated[Reader] = m.rotated[Reader]
  BY <1>1, <1>2 DEF Tells
<1>7. VaultTrue(r, s)
  BY <1>1, <1>3, <1>4, <1>6 DEF VaultTrue
<1>8. BoosterTrue(r, s)
  BY <1>3, <1>5 DEF BoosterTrue
<1>9. ASSUME NEW q \in s.orders PROVE OrderTrue(r, q)
  <2>1. q.seq \in Nat /\ q.seq < m.count[Reader] /\ OrderTrue(m, q)
    BY <1>3, <1>4 DEF OrdersTrue, OrderTrue, ContractProjection
  <2>2. q.seq < r.count[Reader]
    BY <1>1, <1>6, <2>1
  <2>3. ASSUME NEW x \in OpenOrders(r), x.team = Reader, x.seq = q.seq
        PROVE  /\ q.status = "open" /\ q.task.kind = x.task
               /\ q.task.key # None => q.task.key = x.gen /\ x.task # "duel"
               /\ PointsTrue(r, q, x)
    <3>1. ~(x.seq >= m.count[x.team])
      BY <1>1, <2>1, <2>3
    <3>2. PICK o \in m.orders : Grows(o, x)
      BY <1>2, <3>1 DEF Tells, OpenOrders
    <3>3. o \in OpenOrders(m) /\ o.team = Reader /\ o.seq = q.seq
      BY <2>3, <3>2 DEF Grows, OpenOrders
    <3>4. /\ q.status = "open" /\ q.task.kind = o.task
          /\ q.task.key # None => q.task.key = o.gen /\ o.task # "duel"
          /\ PointsTrue(m, q, o)
      BY <2>1, <3>3 DEF OrderTrue
    <3>5. PointsTrue(r, q, x)
      <4>1. CASE m.cards[Reader].st = "armed" /\ m.cards[Reader].seq = o.seq
        <5>1. r.cards[Reader].st \in {"armed", "spent"} /\ r.cards[Reader].seq = x.seq
          BY <1>1, <1>2, <3>2, <4>1 DEF Tells, CardsStand, Grows
        <5>2. r.cards[Reader].st # "spent"
          BY <1>2, <2>3, <5>1 DEF CardTrue
        <5> QED BY <3>2, <3>4, <5>1, <5>2 DEF PointsTrue, Grows, Points
      <4>2. CASE ~(m.cards[Reader].st = "armed" /\ m.cards[Reader].seq = o.seq)
        BY <3>2, <3>4, <4>2 DEF PointsTrue, Grows, Points
      <4> QED BY <4>1, <4>2
    <3> QED BY <3>2, <3>4, <3>5 DEF Grows
  <2> QED BY <2>2, <2>3 DEF OrderTrue
<1>10. OrdersTrue(r, s)
  BY <1>3, <1>9 DEF OrdersTrue
<1>11. p.at <= v
  BY <1>3
<1> QED BY <1>3, <1>5, <1>7, <1>8, <1>10, <1>11 DEF PageTrue, s

LEMMA LeastTimes ==
    ASSUME NEW c \in Nat, NEW a \in Nat, NEW b \in Nat, a <= b
    PROVE  c * a <= c * b /\ c * a \in Nat /\ c * b \in Nat
  OBVIOUS

\* What is shown of an order.
LEMMA ShownOrder ==
    ASSUME NEW o
    PROVE  LET q == ProjectOrder(o)
           IN  /\ q.seq = o.seq /\ q.status = o.status /\ q.points = Reward(o)
               /\ q.task = ProjectTask(o) /\ q.task.kind = o.task
               /\ q.task.key = ProjectTask(o).key
  BY DEF ProjectOrder, ProjectTask

\* A page is true of the row it is made of.
LEMMA PageMade ==
    ASSUME Inv, Row(match), Unrotated(match), Started(match), NEW w \in Nat, match.now <= w
    PROVE  PageTrue(match, w, [at |-> w, shown |-> ProjectForTeam(Reader)])
<1> DEFINE s == ProjectForTeam(Reader)
           mine == {x \in match.orders : x.team = Reader}
<1>1. /\ match \in CryptoBattleState /\ Sound(match) /\ match.now \in Nat /\ End(match) \in Nat
      /\ BoundaryAt(match) \in Nat /\ Reader \in Teams
  BY ShowFields, ReaderAssumption
<1>2. s \in CryptoBattleProjection
  BY <1>1, EachShown
<1>3. /\ s.clock = match.now /\ s.left = MatchRemaining /\ s.vault = Vault(Reader)
      /\ s.booster = ProjectBooster(Reader) /\ s.orders = {ProjectOrder(o) : o \in mine}
      /\ s.teams = [u \in Teams |-> [score |-> match.score[u], generation |-> match.gen[u]]]
  BY ShownParts
<1>4. s.teams[Reader].score = match.score[Reader]
  BY <1>1, <1>3
<1> HIDE DEF s, mine
<1>5. VaultTrue(match, s)
  BY <1>1, RowFields, VaultShown, <1>3 DEF VaultTrue
<1>6. BoosterTrue(match, s)
  <2> SUFFICES ASSUME ProjectBooster(Reader).status = "active"
               PROVE  match.now + ProjectBooster(Reader).remaining
                        >= Least(BoundaryAt(match) + BoostFor, match.now + MatchRemaining)
    BY <1>3 DEF BoosterTrue
  <2>1. Boosted(Reader)
    BY DEF ProjectBooster, Undistributed
  <2>2. ProjectBooster(Reader).remaining =
          Least(BoundaryAt(match) + BoostFor, End(match)) - match.now
    BY <2>1 DEF ProjectBooster
  <2>3. /\ MatchRemaining = Floored(End(match) - match.now)
        /\ match.now < Least(BoundaryAt(match) + BoostFor, End(match))
    BY <2>1, LeftType DEF Boosted
  <2> HIDE DEF Boosted
  <2> QED BY <1>1, <2>2, <2>3, PausesAssumption DEF Least, Floored
<1>7. ASSUME NEW o \in mine PROVE o \in match.orders /\ o.team = Reader
  BY DEF mine
<1>8. IsFiniteSet(mine) /\ IsFiniteSet(s.orders)
  <2>1. mine \in SUBSET match.orders
    BY <1>7
  <2>2. IsFiniteSet(mine)
    BY <1>1, <2>1, FS_Subset DEF Sound
  <2> DEFINE f == [o \in mine |-> ProjectOrder(o)]
  <2>3. f \in Surjection(mine, s.orders)
    BY <1>3 DEF Surjection
  <2> HIDE DEF f
  <2> QED BY <2>2, <2>3, FS_Surjection
<1>9. PenaltyTrue(s)
  <2>1. ShownVoided(s) \in SUBSET {ProjectOrder(o) : o \in Voided(Reader)}
    BY <1>3, ShownOrder, <1>7 DEF ShownVoided, Voided, OpenOrders, IsOpen
  <2>2. IsFiniteSet(Voided(Reader))
    BY <1>1, FS_Subset DEF Voided, OpenOrders, Sound
  <2>3. Cardinality(ShownVoided(s)) <= Cardinality(Voided(Reader))
        /\ Cardinality(ShownVoided(s)) \in Nat /\ Cardinality(Voided(Reader)) \in Nat
    <3> DEFINE I == {ProjectOrder(o) : o \in Voided(Reader)}
    <3>1. IsFiniteSet(I) /\ Cardinality(I) <= Cardinality(Voided(Reader))
      <4> DEFINE f == [o \in Voided(Reader) |-> ProjectOrder(o)]
      <4>1. f \in Surjection(Voided(Reader), I)
        BY DEF Surjection
      <4> HIDE DEF f, I
      <4> QED BY <2>2, <4>1, FS_Surjection
    <3>2. I = {ProjectOrder(o) : o \in Voided(Reader)}
      OBVIOUS
    <3> HIDE DEF I
    <3>3. Cardinality(ShownVoided(s)) <= Cardinality(I) /\ IsFiniteSet(ShownVoided(s))
      BY <2>1, <3>1, <3>2, FS_Subset
    <3>4. /\ Cardinality(I) \in Nat /\ Cardinality(ShownVoided(s)) \in Nat
          /\ Cardinality(Voided(Reader)) \in Nat
      BY <2>2, <3>1, <3>3, FS_CardinalityType
    <3> QED BY <3>1, <3>3, <3>4
  <2>4. Vault(Reader).rotatePenalty
          >= Least(match.score[Reader], ExpiredOrder * Cardinality(Voided(Reader)))
    BY <1>1, VaultShown
  <2>5. match.score[Reader] \in Nat /\ Vault(Reader).rotatePenalty \in Nat
    BY <1>1, VaultShown, RowFields DEF VaultProjection
  <2> DEFINE a == Cardinality(ShownVoided(s))
             b == Cardinality(Voided(Reader))
  <2>6. ExpiredOrder * a <= ExpiredOrder * b /\ ExpiredOrder * a \in Nat /\ ExpiredOrder * b \in Nat
    <3>1. a \in Nat /\ b \in Nat /\ a <= b /\ ExpiredOrder \in Nat
      BY <2>3, AmountsAssumption
    <3> HIDE DEF a, b
    <3> QED BY <3>1, LeastTimes
  <2> HIDE DEF a, b
  <2>7. Vault(Reader).rotatePenalty >= Least(match.score[Reader], ExpiredOrder * a)
    BY <2>4, <2>5, <2>6 DEF Least, b
  <2> QED BY <1>3, <1>4, <2>7 DEF PenaltyTrue, a
<1>10. ASSUME NEW a \in s.orders, NEW b \in s.orders, a.seq = b.seq PROVE a = b
  BY <1>3, <1>10, ShownOrder, <1>1, <1>7 DEF Sound, Numbered
<1>11. ASSUME NEW q \in s.orders PROVE OrderTrue(match, q)
  <2>1. PICK x \in mine : q = ProjectOrder(x)
    BY <1>3
  <2>2. x \in match.orders /\ x.team = Reader /\ q.seq = x.seq
    BY <1>7, <2>1, ShownOrder
  <2>3. q.seq < match.count[Reader]
    BY <1>1, <2>2 DEF Sound, Numbered
  <2>4. ASSUME NEW o \in OpenOrders(match), o.team = Reader, o.seq = q.seq
        PROVE  /\ q.status = "open" /\ q.task.kind = o.task
               /\ q.task.key # None => q.task.key = o.gen /\ o.task # "duel"
               /\ PointsTrue(match, q, o)
    <3>1. x = o
      BY <1>1, <2>2, <2>4 DEF Sound, Numbered, OpenOrders
    <3>2. q.status = "open" /\ q.task.kind = o.task
      BY <2>1, <3>1, ShownOrder DEF OpenOrders, IsOpen
    <3>3. q.task.key # None => q.task.key = o.gen /\ o.task # "duel"
      BY <2>1, <3>1, ShownOrder DEF ProjectTask, Row, KeysTrue, Keyed
    <3>4. PointsTrue(match, q, o)
      <4>1. q.points = Reward(o) /\ Points(o) \in Nat /\ CardTrue(match, Reader)
        BY <1>1, <2>1, <2>2, <3>1, ShownOrder, OrderFields DEF Row, CardsTrue
      <4>2. CASE o.failed
        BY <4>2 DEF PointsTrue
      <4>3. CASE ~o.failed /\ match.cards[Reader].st = "armed" /\ match.cards[Reader].seq = o.seq
        BY <2>4, <4>1, <4>3 DEF CardTrue, Bonus, Reward, PointsTrue
      <4>4. CASE ~o.failed /\ ~(match.cards[Reader].st = "armed" /\ match.cards[Reader].seq = o.seq)
        BY <2>4, <4>1, <4>4 DEF CardTrue, Bonus, PointsTrue, Reward
      <4> QED BY <4>2, <4>3, <4>4
    <3> QED BY <3>2, <3>3, <3>4
  <2> QED BY <2>3, <2>4 DEF OrderTrue
<1>12. OrdersTrue(match, s)
  BY <1>8, <1>10, <1>11 DEF OrdersTrue
<1> DEFINE p == [at |-> w, shown |-> s]
<1>13. p.at = w /\ p.shown = s
  OBVIOUS
<1> HIDE DEF p
<1>14. PageTrue(match, w, p)
  BY <1>1, <1>2, <1>3, <1>5, <1>6, <1>9, <1>12, <1>13 DEF PageTrue
<1> QED BY <1>14 DEF p, s

-----------------------------------------------------------------------------
(* The invariant of a page and its row, and what every step does to it.       *)

LEMMA ViewStarts ==
    ASSUME ViewInit
    PROVE  ViewInv
<1>1. Inv /\ wall = 0 /\ page = None
  BY InitHolds DEF ViewInit
<1>2. PICK seed \in DOMAIN Seeds : match = InitialMatch(seed)
  BY DEF ViewInit, Init
<1>3. /\ match.orders = {} /\ match.now = None /\ ~match.awarded
      /\ \A t \in Teams : match.rotated[t] = None /\ match.cards[t].st = "none"
  BY <1>2 DEF InitialMatch, NoCard
<1>4. Row(match)
  BY <1>3 DEF Row, CardsTrue, CardTrue, Dated, KeysTrue, OpenOrders
<1> QED BY <1>1, <1>3, <1>4 DEF ViewInv, ViewOf, Unrotated

\* A step of the match while the page waits.
LEMMA StepView ==
    ASSUME ViewInv, Inv', Row(match'), Unrotated(match'), Started(match) => Honest(match, match'),
           match'.now \in {match.now, Clock, wall}, wall' = wall, page' = page
    PROVE  ViewInv'
<1>1. /\ Inv /\ Row(match) /\ wall \in Nat /\ (match.now # None => match.now <= wall)
      /\ (page # None => PageTrue(match, wall, page))
  BY DEF ViewInv, ViewOf
<1>2. Sound(match) /\ match' \in CryptoBattleState
  BY <1>1 DEF Inv, InvOf, Settled, Sound
<1>3. match'.now # None => match'.now <= wall
  BY <1>1 DEF Clock
<1>4. ASSUME page # None PROVE PageTrue(match', wall, page)
  BY <1>1, <1>4, <1>2, PageStands DEF PageTrue
<1>5. ViewOf(match', wall, page)
  BY <1>1, <1>3, <1>4 DEF ViewOf
<1> QED BY <1>5 DEF ViewInv

LEMMA ViewSteps ==
    ASSUME ViewInv, [ViewNext]_viewVars
    PROVE  ViewInv'
<1>1. /\ Inv /\ Row(match) /\ Unrotated(match) /\ wall \in Nat
      /\ (match.now # None => match.now <= wall) /\ (page # None => PageTrue(match, wall, page))
  BY DEF ViewInv, ViewOf
<1>2. CASE UNCHANGED viewVars
  BY <1>2 DEF viewVars, vars, ViewInv, ViewOf, Inv
<1>3. CASE Pass
  <2>1. wall' = wall + 1 /\ UNCHANGED <<match, closed, page>>
    BY <1>3 DEF Pass
  <2>2. wall + 1 \in Nat /\ (match.now # None => match.now <= wall + 1)
    BY <1>1, ShowFields
  <2>3. page # None => PageTrue(match, wall + 1, page)
    BY <1>1, <2>2 DEF PageTrue
  <2>4. ViewOf(match, wall + 1, page)
    BY <1>1, <2>2, <2>3 DEF ViewOf
  <2> QED BY <1>1, <2>1, <2>4 DEF ViewInv, Inv
<1>4. CASE Poll
  BY <1>4, <1>1, ShowFields, AmountsAssumption, PageMade DEF Poll, ViewOf, ViewInv, Inv
<1>5. CASE PlatformTicks
  BY <1>5, <1>1, TickView, StepView DEF PlatformTicks, Fair
<1>6. CASE Moves /\ UNCHANGED <<wall, page>>
  BY <1>1, <1>6, StepKeeps, MovesView, StepView DEF Next, Fair
<1>7. ASSUME NEW q \in ShownOpen, OpenHint(q) PROVE ViewInv'
  <2>1. PICK o \in Shown(q) : Hint(o)
    BY <1>7 DEF OpenHint
  <2>2. o \in match.orders /\ UNCHANGED <<wall, page>>
    BY <1>7 DEF OpenHint, Shown
  <2>3. Inv'
    BY <1>1, <2>1, <2>2, HintKeeps
  <2>4. Honest(match, match') /\ match'.rotated = match.rotated /\ match'.now = match.now
    BY <1>1, <2>1, <2>2, <2>3, HintView
  <2>5. Unrotated(match')
    BY <1>1, <2>4 DEF Unrotated, Honest, Tells, Started
  <2> QED BY <2>2, <2>3, <2>4, <2>5, StepView DEF Honest
<1> QED BY <1>2, <1>3, <1>4, <1>5, <1>6, <1>7 DEF ViewNext

-----------------------------------------------------------------------------
(* What the invariant says of the page.                                      *)

\* What a page that is true says of an order that is still open.
LEMMA StillTrue ==
    ASSUME ViewInv, NEW q \in ShownOpen, NEW o \in StillOpen(q)
    PROVE  /\ page # None /\ q \in page.shown.orders /\ OrderTrue(match, q)
           /\ o \in OpenOrders(match) /\ o.team = Reader /\ o.seq = q.seq
           /\ q.task.kind = o.task /\ (q.task.key # None => q.task.key = o.gen /\ o.task # "duel")
           /\ PointsTrue(match, q, o)
<1>1. page # None /\ q \in page.shown.orders
  BY DEF ShownOpen
<1>2. OrderTrue(match, q)
  BY <1>1 DEF ViewInv, ViewOf, PageTrue, OrdersTrue
<1>3. o \in OpenOrders(match) /\ o.team = Reader /\ o.seq = q.seq
  BY DEF StillOpen, Shown, OpenOrders
<1> QED BY <1>1, <1>2, <1>3 DEF OrderTrue

LEMMA ViewHolds ==
    ASSUME ViewInv
    PROVE  ViewSound
<1>1. /\ Inv /\ Row(match) /\ Unrotated(match) /\ wall \in Nat
      /\ (match.now # None => match.now <= wall) /\ (page # None => PageTrue(match, wall, page))
  BY DEF ViewInv, ViewOf
<1>2. KeysCurrent
  BY StillTrue, <1>1 DEF KeysCurrent, Row, KeysTrue
<1>3. NeverAhead
  <2> SUFFICES ASSUME page # None
               PROVE  /\ Dropped(page.shown.vault.rotateIn) = 0
                         /\ page.shown.vault.generation = match.gen[Reader]
                           => match.rotated[Reader] = None \/ wall - match.rotated[Reader] >= Cooldown
                      /\ BoostOver => wall >= Least(BoundaryAt(match) + BoostFor,
                                                    page.shown.clock + page.shown.left)
    BY DEF NeverAhead
  <2> DEFINE s == page.shown
  <2>1. /\ page.at \in Nat /\ page.at <= wall /\ s.clock \in Nat /\ s.clock <= page.at
        /\ VaultTrue(match, s) /\ BoosterTrue(match, s) /\ s \in CryptoBattleProjection
        /\ Started(match)
    BY <1>1 DEF PageTrue
  <2> HIDE DEF s
  <2>2. s.vault.rotateIn \in Nat /\ s.booster.remaining \in Nat /\ s.left \in Nat
    BY <2>1 DEF CryptoBattleProjection, VaultProjection
  <2>3. ASSUME Dropped(s.vault.rotateIn) = 0, s.vault.generation = match.gen[Reader],
               match.rotated[Reader] # None
        PROVE  wall - match.rotated[Reader] >= Cooldown
    <3>1. match.rotated[Reader] \in Nat
      BY <1>1, <2>3, VaultShown, ReaderAssumption
    <3>2. s.vault.rotateIn >= Cooldown - (s.clock - match.rotated[Reader])
      BY <2>1, <2>3 DEF VaultTrue
    <3>3. s.vault.rotateIn - (wall - page.at) <= 0
      BY <1>1, <2>1, <2>2, <2>3 DEF Dropped, Floored, Age
    <3> QED BY <1>1, <2>1, <2>2, <3>1, <3>2, <3>3, PausesAssumption
  <2>4. ASSUME BoostOver
        PROVE  wall >= Least(BoundaryAt(match) + BoostFor, s.clock + s.left)
    <3>1. s.booster.status = "active" /\ wall - page.at >= s.booster.remaining
      BY <2>4 DEF BoostOver, Age, s
    <3>2. s.clock + s.booster.remaining >= Least(BoundaryAt(match) + BoostFor, s.clock + s.left)
      BY <2>1, <3>1 DEF BoosterTrue
    <3>3. BoundaryAt(match) \in Nat
      BY <1>1, <2>1, ShowFields
    <3> QED BY <1>1, <2>1, <2>2, <3>1, <3>2, <3>3, PausesAssumption DEF Least
  <2> QED BY <2>3, <2>4 DEF s
<1>4. RewardKept
  <2> SUFFICES ASSUME NEW q \in ShownOpen, NEW o \in StillOpen(q), ~o.failed
               PROVE  Reward(o) >= q.points
    BY DEF RewardKept
  <2>1. o \in OpenOrders(match) /\ o.team = Reader /\ PointsTrue(match, q, o)
    BY StillTrue
  <2>2. /\ Points(o) \in Nat /\ Bonus(o) \in Nat /\ CardTrue(match, Reader)
    BY <1>1, <2>1, InvFields, ReaderAssumption DEF OpenOrders, Row, CardsTrue
  <2>3. Reward(o) = Points(o) + Bonus(o)
    BY DEF Reward
  <2>4. CASE q.points = Points(o)
    BY <2>2, <2>3, <2>4
  <2>5. CASE /\ q.points = 2 * Points(o) /\ match.cards[Reader].st = "armed"
             /\ match.cards[Reader].seq = o.seq
    BY <2>1, <2>2, <2>5, <2>3 DEF CardTrue, Bonus
  <2> QED BY <2>1, <2>4, <2>5 DEF PointsTrue
<1>5. EveryPhaseShown
  BY <1>1, EachShown, EachKnown DEF EveryPhaseShown
<1> QED BY <1>2, <1>3, <1>4, <1>5 DEF ViewSound

\* Through teammates' moves, late ticks and reports of the end, a page shows the key its open
\* orders are judged with, offers no rotation that would be refused, keeps the boost as long as it
\* lasts and promises no more than an answer earns; and what is projected of any phase has the
\* type the page takes (reducer.ts projectForTeam, portal/FastMovePanel.tsx ageProjection).
THEOREM ViewIsSound == ViewSpec => []ViewSound
<1>1. ViewInit => ViewInv
  BY ViewStarts
<1>2. ViewInv /\ [ViewNext]_viewVars => ViewInv'
  BY ViewSteps
<1>3. ViewInv => ViewSound
  BY ViewHolds
<1> QED BY <1>1, <1>2, <1>3, PTL DEF ViewSpec

-----------------------------------------------------------------------------
(* What a page says is what happens.                                         *)

LEMMA ReceiptTrue ==
    ASSUME ViewInv, Honest(match, match'), NEW q \in ShownOpen, Answered(q)
    PROVE  OrderReward(q, ProjectLightning(match', Reader)) = Paid
<1>1. PICK o \in StillOpen(q), p \in match'.orders :
         /\ p.team = o.team /\ p.seq = o.seq /\ p.status = "completed"
         /\ p.how \notin {"leak", "duel"} /\ p.step # "missed" /\ ~o.failed
  BY DEF Answered
<1>2. o \in OpenOrders(match) /\ o.team = Reader /\ o.seq = q.seq /\ PointsTrue(match, q, o)
  BY StillTrue
<1>3. Receipt(match, match', o)
  BY <1>1, <1>2 DEF Honest, Earned, Judged
<1>4. CardTrue(match', Reader)
  BY ReaderAssumption DEF Honest, Row, CardsTrue
<1> DEFINE card == match'.cards[Reader]
           shown == ProjectLightning(match', Reader)
<1>5. /\ shown.status = IF match'.awarded THEN card.st ELSE Undistributed(match')
      /\ shown.seq = card.seq /\ shown.points = card.points /\ shown.result = card.result
  BY DEF ProjectLightning
<1>6. (shown.status = "spent" /\ shown.result = "hit" /\ shown.seq = q.seq) <=> Hit(card, o)
  <2>1. CASE match'.awarded
    BY <1>2, <1>5, <2>1 DEF Hit
  <2>2. CASE ~match'.awarded
    BY <1>4, <2>2, <1>5 DEF CardTrue, Undistributed, Hit
  <2> QED BY <2>1, <2>2
<1>7. /\ Paid = IF Hit(card, o) THEN card.points ELSE Points(o)
      /\ match.cards[Reader].st = "armed" /\ match.cards[Reader].seq = o.seq => Hit(card, o)
  BY <1>2, <1>3 DEF Receipt, Paid
<1> HIDE DEF card, shown
<1>8. CASE Hit(card, o)
  BY <1>5, <1>6, <1>7, <1>8 DEF OrderReward, shown
<1>9. CASE ~Hit(card, o)
  BY <1>1, <1>2, <1>7, <1>9, <1>6 DEF PointsTrue, OrderReward, shown
<1> QED BY <1>8, <1>9

LEMMA NoHintOpened ==
    ASSUME ViewInv, SameHints(match, match'), NEW q \in ShownOpen
    PROVE  ~HintOpened(q)
<1> SUFFICES ASSUME NEW o \in StillOpen(q), NEW p \in match'.orders, p.team = o.team,
                    p.seq = o.seq, p.hints > o.hints
             PROVE  FALSE
  BY DEF HintOpened
<1>1. o \in OpenOrders(match)
  BY StillTrue
<1>2. p.hints = o.hints
  BY <1>1 DEF SameHints
<1>3. o \in Contract
  BY <1>1 DEF ViewInv, Inv, InvOf, Settled, Sound, CryptoBattleState, OpenOrders
<1>4. o.hints \in Nat
  BY <1>3, HintsAssumption DEF Contract
<1> QED BY <1>2, <1>4

\* A hint that is opened from a page costs what the page showed, or what is left.
LEMMA HintPaid ==
    ASSUME ViewInv, Inv', NEW q \in ShownOpen, OpenHint(q), NEW x \in ShownOpen, HintOpened(x)
    PROVE  -Paid <= AgedCost(NextHint(x))
<1>1. PICK o \in Shown(q) : Asked(q, o) /\ Hint(o)
  BY DEF OpenHint
<1>2. o \in match.orders /\ o.team = Reader /\ o.seq = q.seq
  BY DEF Shown
<1>3. Inv /\ Row(match)
  BY DEF ViewInv, ViewOf
<1>4. /\ match'.score[o.team] >= match.score[o.team] - HintPrice(o.team, o.hints + 1)
      /\ \A y \in OpenOrders(match), p \in match'.orders :
            p.team = y.team /\ p.seq = y.seq => p.hints = y.hints \/ y = o
  BY <1>1, <1>2, <1>3, HintView
<1>5. PICK y \in StillOpen(x), p \in match'.orders :
         p.team = y.team /\ p.seq = y.seq /\ p.hints > y.hints
  BY DEF HintOpened
<1>6. y \in OpenOrders(match) /\ y.team = Reader /\ y.seq = x.seq /\ x \in page.shown.orders
      /\ page # None
  BY StillTrue
<1>7. y.hints \in Nat
  BY <1>3, <1>6, InvFields, HintsAssumption DEF OpenOrders, Contract
<1>8. y = o
  BY <1>4, <1>5, <1>6, <1>7
<1>9. x = q
  BY <1>6, <1>2, <1>8 DEF ShownOpen, ViewInv, ViewOf, PageTrue, OrdersTrue
<1>10. AgedCost(NextHint(x)) = HintPrice(o.team, o.hints + 1)
  BY <1>1, <1>9 DEF Asked
<1>11. HintPrice(o.team, o.hints + 1) \in Nat
  <2>1. o.hints < Len(HintCosts) /\ o \in Contract
    BY <1>1, <1>2, <1>3, InvFields DEF Hint
  <2>2. HintCosts \in Seq(Nat) /\ Len(HintCosts) \in Nat /\ o.hints \in 0..Len(HintCosts)
    BY <2>1, HintsAssumption DEF Contract
  <2>3. o.hints + 1 \in DOMAIN HintCosts
    BY <2>1, <2>2
  <2> QED BY <1>2, <2>3, HintPriceType, ReaderAssumption
<1>12. match.score[Reader] \in Nat /\ match'.score[Reader] \in Nat
  BY <1>3, RowFields, ReaderAssumption DEF Inv, InvOf, Settled, Sound
<1> QED BY <1>2, <1>4, <1>10, <1>11, <1>12 DEF Paid

\* A rotation costs what the page showed, as long as every order it voids was shown.
LEMMA RotationPaid ==
    ASSUME ViewInv, Inv', Rotate(Reader), page # None,
           ~(match.score[Reader] > page.shown.teams[Reader].score), ~match.disclosed[Reader],
           ~(\E o \in Voided(Reader) : \A q \in page.shown.orders : q.seq # o.seq)
    PROVE  -Paid <= page.shown.vault.rotatePenalty
<1> DEFINE s == page.shown
           V == Voided(Reader)
           S == ShownVoided(s)
           a == Cardinality(V)
           b == Cardinality(S)
           f == [o \in V |-> CHOOSE q \in S : q.seq = o.seq]
<1>1. Inv /\ Row(match) /\ Sound(match) /\ match \in CryptoBattleState /\ Reader \in Teams
  BY InvFields, ReaderAssumption DEF ViewInv, ViewOf
<1>2. /\ s \in CryptoBattleProjection /\ OrdersTrue(match, s) /\ PenaltyTrue(s)
  BY DEF ViewInv, ViewOf, PageTrue
<1>3. /\ RotationPenalty(Reader) \in Nat
      /\ match'.score[Reader] = Floored(match.score[Reader] - RotationPenalty(Reader))
  BY <1>1, RotateView
<1>4. ASSUME NEW o \in V PROVE o \in OpenOrders(match) /\ o.team = Reader /\ o.task # "duel"
  BY DEF Voided
<1>5. ASSUME NEW o \in V PROVE \E q \in S : q.seq = o.seq
  BY <1>5, <1>2, <1>4 DEF OrdersTrue, OrderTrue, ShownVoided
<1>6. f \in Injection(V, S)
  <2>1. \A o \in V : f[o] \in S /\ f[o].seq = o.seq
    BY <1>5
  <2>2. \A o, p \in V : o.seq = p.seq => o = p
    BY <1>1, <1>4 DEF Sound, Numbered, OpenOrders
  <2>3. f \in [V -> S]
    BY <2>1
  <2> HIDE DEF f, V, S
  <2> QED BY <2>1, <2>2, <2>3 DEF Injection, IsInjective
<1>7. IsFiniteSet(S) /\ b \in Nat
  BY <1>2, FS_Subset, FS_CardinalityType DEF ShownVoided, OrdersTrue
<1>8. a \in Nat /\ a <= b
  <2>1. a \in Nat
    BY <1>1, RotationCost
  <2> HIDE DEF V, S, f
  <2> QED BY <1>6, <1>7, <2>1, FS_Injection
<1>9. RotationPenalty(Reader) = ExpiredOrder * a
  <2>1. RotationPenalty(Reader) = Greatest(0, ExpiredOrder * a)
    BY DEF RotationPenalty
  <2>2. ExpiredOrder * a \in Nat
    BY <1>1, RotationCost
  <2> HIDE DEF a
  <2> QED BY <2>1, <2>2 DEF Greatest
<1> HIDE DEF a, b, f, V
<1>10. ExpiredOrder * a <= ExpiredOrder * b /\ ExpiredOrder * a \in Nat /\ ExpiredOrder * b \in Nat
  BY <1>7, <1>8, LeastTimes, AmountsAssumption
<1>11. /\ match.score[Reader] \in Nat /\ s.teams[Reader].score \in Nat
       /\ s.vault.rotatePenalty \in Nat
  BY <1>2, <1>1, RowFields DEF CryptoBattleProjection, TeamSummaryProjection, VaultProjection
<1>12. s.vault.rotatePenalty >= Least(s.teams[Reader].score, ExpiredOrder * b)
  BY <1>2 DEF PenaltyTrue, b
<1>13. match.score[Reader] <= s.teams[Reader].score
  BY <1>11
<1>14. Paid = Floored(match.score[Reader] - ExpiredOrder * a) - match.score[Reader]
  BY <1>3, <1>9 DEF Paid
<1> HIDE DEF s
<1>15. -Paid <= s.vault.rotatePenalty
  BY <1>10, <1>11, <1>12, <1>13, <1>14 DEF Floored, Least
<1> QED BY <1>15 DEF s

LEMMA PagesPaid ==
    ASSUME ViewInv, ViewNext
    PROVE  ShownIsPaid
<1>1. Inv /\ Row(match) /\ Unrotated(match) /\ wall \in Nat /\ Sound(match)
  BY InvFields DEF ViewInv, ViewOf
<1>2. Inv'
  BY ViewSteps DEF ViewInv
<1>3. CASE page = None
  BY <1>3 DEF ShownIsPaid, ShownOpen
<1>4. ASSUME page # None, Honest(match, match'), SameHints(match, match'),
             Rotate(Reader) \/ match'.gen[Reader] = match.gen[Reader]
      PROVE  ShownIsPaid
  BY <1>2, <1>4, ReceiptTrue, NoHintOpened, RotationPaid DEF ShownIsPaid
<1>5. page # None => Started(match)
  BY DEF ViewInv, ViewOf, PageTrue
<1>6. CASE page # None /\ (Pass \/ Poll)
  <2>1. match' = match
    BY <1>6 DEF Pass, Poll
  <2>2. Honest(match, match) /\ SameHints(match, match)
    BY <1>1, LetsSelf, LetsHonest DEF Sound
  <2> QED BY <1>4, <1>6, <2>1, <2>2
<1>7. CASE page # None /\ PlatformTicks
  BY <1>7, <1>1, TickView, <1>4, <1>5 DEF PlatformTicks, Fair
<1>8. CASE page # None /\ Moves
  <2>1. Fair(match, match') /\ Spares(match.gen, match'.gen)
    BY <1>1, <1>2, <1>8, MovesView
  <2> QED BY <1>4, <1>5, <1>8, <2>1, ReaderAssumption DEF Fair, Spares
<1>9. ASSUME page # None, NEW q \in ShownOpen, OpenHint(q) PROVE ShownIsPaid
  BY <1>9, <1>1, <1>2, HintView, HintPaid, ReceiptTrue DEF OpenHint, Shown, ShownIsPaid
<1> QED BY <1>3, <1>6, <1>7, <1>8, <1>9 DEF ViewNext

LEMMA PagesEnd ==
    ASSUME ViewInv, ViewNext
    PROVE  EndStays
<1>1. Inv /\ wall \in Nat
  BY DEF ViewInv, ViewOf
<1> SUFFICES ASSUME match.phase = "ended" PROVE EndStays
  BY DEF EndStays
<1>2. Settled(match)
  BY <1>1, InvFields
<1>3. CASE Pass \/ Poll
  BY <1>3 DEF Pass, Poll, EndStays
<1>4. CASE PlatformTicks
  BY <1>4, <1>1, <1>2, EndedTick DEF PlatformTicks, TickAt, Write, EndStays
<1>5. ASSUME [Next]_vars PROVE EndStays
  BY <1>1, <1>5, EndedStep DEF EndStays, vars
<1>6. CASE Moves
  BY <1>5, <1>6 DEF Next
<1>7. ASSUME NEW q \in ShownOpen, OpenHint(q) PROVE EndStays
  BY <1>5, <1>7 DEF Next, OpenHint, Shown
<1> QED BY <1>3, <1>4, <1>6, <1>7 DEF ViewNext

\* Whatever teammates did and however long ago a page came, a hint that is opened from it costs no
\* more than it showed, the receipt of an answer is what the answer earned, and a rotation costs no
\* more than was shown of the orders it voids; and the result is final (reducer.ts applyMethodOp,
\* portal/FastMovePanel.tsx orderReward).
THEOREM PagesAreHonest == ViewSpec => BeltForward
<1>1. ViewInit => ViewInv
  BY ViewStarts
<1>2. ViewInv /\ [ViewNext]_viewVars => ViewInv'
  BY ViewSteps
<1>3. ViewInv /\ [ViewNext]_viewVars => [EndStays /\ ShownIsPaid]_viewVars
  BY PagesPaid, PagesEnd
<1> QED BY <1>1, <1>2, <1>3, PTL DEF ViewSpec, BeltForward
=============================================================================
