--------------------------- MODULE ScoreItemProofs ---------------------------
(***************************************************************************)
(* For any teams, prices and lengths: the types (no negative score), that   *)
(* an item follows its order, that a team gains and loses at most once, that *)
(* protecting victims strands at most one item, that a lapsed item is not   *)
(* offered again, and that points are moved and never made.  Of the HUNTs:  *)
(* that the log is read back in the order of the successes, and that a      *)
(* secret pays once, budgets are exact and breaches are told.               *)
(***************************************************************************)
EXTENDS ScoreItem, HuntRecords, SequenceTheorems, FiniteSetTheorems, SumTheorems, TLAPS

IInv == TypeOK /\ ItemFollowsOrder /\ OncePerTeam

-----------------------------------------------------------------------------
(* Operators.                                                              *)

LEMMA FlooredType == ASSUME NEW x \in Int PROVE Floored(x) \in Nat
BY DEF Floored

LEMMA OrderAfterType ==
    ASSUME NEW t \in Teams, NEW at \in 0..MatchEnd, NEW slots,
           order[t] \in Orders \cup {None}
    PROVE  OrderAfter(t, at, slots) \in Orders \cup {None}
<1>1. CASE t \in slots
  <2>1. Least(at + Ttl, MatchEnd) \in 0..MatchEnd
    BY ClockAssumption DEF Least
  <2> QED BY <1>1, <2>1 DEF OrderAfter, Orders
<1>2. CASE t \notin slots /\ Lapses(t, at)
  BY <1>2 DEF OrderAfter, Lapses, OpenFor, Orders
<1>3. CASE t \notin slots /\ ~Lapses(t, at)
  BY <1>3 DEF OrderAfter
<1> QED BY <1>1, <1>2, <1>3

-----------------------------------------------------------------------------
(* The inductive invariant.                                                *)

LEMMA InitIInv == Init => IInv
<1> SUFFICES ASSUME Init PROVE IInv
  OBVIOUS
<1>1. transfers = <<>> /\ transfers \in Seq(Transfers) /\ DOMAIN transfers = {}
  <2>1. transfers = <<>> /\ transfers \in Seq(Transfers) /\ Len(transfers) = 0
    BY EmptySeq DEF Init
  <2>2. DOMAIN transfers = 1..0
    BY <2>1
  <2> QED BY <2>1, <2>2
<1>2. TypeOK
  <2>1. started \in BOOLEAN
    BY DEF Init
  <2>3. now \in 0..MatchEnd
    BY ClockAssumption DEF Init
  <2>2. /\ score \in [Teams -> Nat] /\ own \in [Teams -> Int]
        /\ status \in [Teams -> Statuses]
        /\ order \in [Teams -> Orders \cup {None}]
    BY DEF Init, Statuses
  <2> QED BY <1>1, <2>1, <2>2, <2>3 DEF TypeOK
<1>3. ItemFollowsOrder
  BY DEF Init, ItemFollowsOrder
<1>4. OncePerTeam
  BY <1>1 DEF Init, OncePerTeam, Gained
<1> QED BY <1>2, <1>3, <1>4 DEF IInv

\* Only Use appends to the transfers, and no other action makes an item spent.
LEMMA OnceUnchanged ==
    ASSUME OncePerTeam, UNCHANGED transfers,
           \A t \in Teams : status'[t] = "spent" <=> status[t] = "spent"
    PROVE  OncePerTeam'
BY DEF OncePerTeam, Gained

LEMMA StartIInv == ASSUME IInv, Start PROVE IInv'
BY OnceUnchanged DEF IInv, TypeOK, ItemFollowsOrder, Start

LEMMA PlayIInv == ASSUME IInv, NEW t \in Teams, Play(t) PROVE IInv'
<1>1. TypeOK'
  BY PriceAssumption DEF IInv, TypeOK, Play
<1>2. ItemFollowsOrder'
  BY DEF IInv, ItemFollowsOrder, Play
<1>3. OncePerTeam'
  BY OnceUnchanged DEF IInv, Play
<1> QED BY <1>1, <1>2, <1>3 DEF IInv

LEMMA TickIInv == ASSUME IInv, Tick PROVE IInv'
<1> PICK slots \in SUBSET {t \in Teams : MayOffer(t, now + 1)} :
      /\ status' = [t \in Teams |-> StatusAfter(t, slots)]
      /\ order' = [t \in Teams |-> OrderAfter(t, now + 1, slots)]
  BY DEF Tick
<1>1. now + 1 \in 0..MatchEnd
  BY ClockAssumption DEF IInv, TypeOK, Tick, Playing, Ended
<1>2. \A t \in slots : t \in Teams /\ status[t] = "waiting"
  BY DEF MayOffer
<1>3. TypeOK'
  <2>1. started' \in BOOLEAN /\ now' \in 0..MatchEnd /\ transfers' \in Seq(Transfers)
    BY <1>1 DEF IInv, TypeOK, Tick
  <2>2. score' \in [Teams -> Nat]
    <3>1. ASSUME NEW t \in Teams PROVE Floored(score[t] - ExpiredOrder) \in Nat
      <4>1. score[t] - ExpiredOrder \in Int
        BY PriceAssumption DEF IInv, TypeOK
      <4> QED BY <4>1, FlooredType
    <3> QED BY <3>1 DEF IInv, TypeOK, Tick
  <2>3. own' \in [Teams -> Int]
    BY <2>2 DEF IInv, TypeOK, Tick
  <2>4. status' \in [Teams -> Statuses]
    BY DEF IInv, TypeOK, StatusAfter, Statuses
  <2>5. order' \in [Teams -> Orders \cup {None}]
    BY <1>1, OrderAfterType DEF IInv, TypeOK
  <2> QED BY <2>1, <2>2, <2>3, <2>4, <2>5 DEF TypeOK
<1>4. ItemFollowsOrder'
  <2> SUFFICES ASSUME NEW t \in Teams
               PROVE  /\ status'[t] = "waiting" <=> order'[t] = None
                      /\ status'[t] \in {"held", "spent"} <=>
                           order'[t] # None /\ order'[t].status = "completed"
    BY DEF ItemFollowsOrder
  <2>1. status'[t] = StatusAfter(t, slots) /\ order'[t] = OrderAfter(t, now + 1, slots)
    OBVIOUS
  <2>2. order'[t] \in Orders \cup {None}
    BY <1>3 DEF TypeOK
  <2>3. CASE t \in slots
    <3>1. Least(now + 1 + Ttl, MatchEnd) \in 0..MatchEnd
      BY <1>1, ClockAssumption DEF Least
    <3>2. order'[t] # None /\ order'[t].status = "open"
      BY <2>1, <2>3, <3>1, NoneAssumption DEF OrderAfter, Orders
    <3> QED BY <2>1, <2>3, <3>2 DEF StatusAfter
  <2>4. CASE t \notin slots /\ Lapses(t, now + 1)
    <3>1. order[t] \in Orders
      BY <2>4 DEF IInv, TypeOK, Lapses, OpenFor
    <3>2. order'[t] \in Orders /\ order'[t].status = "expired"
      BY <2>1, <2>4, <3>1 DEF OrderAfter, Orders
    <3>3. order'[t] # None
      BY <3>2, NoneAssumption
    <3> QED BY <2>1, <2>4, <3>2, <3>3 DEF IInv, ItemFollowsOrder, StatusAfter, Lapses, OpenFor
  <2>5. CASE t \notin slots /\ ~Lapses(t, now + 1)
    BY <2>1, <2>5 DEF IInv, ItemFollowsOrder, StatusAfter, OrderAfter
  <2> QED BY <2>3, <2>4, <2>5
<1>5. OncePerTeam'
  <2>1. \A t \in Teams : status'[t] = "spent" <=> status[t] = "spent"
    BY <1>2 DEF StatusAfter
  <2> QED BY <2>1, OnceUnchanged DEF IInv, Tick
<1> QED BY <1>3, <1>4, <1>5 DEF IInv

LEMMA ClaimRightIInv == ASSUME IInv, NEW t \in Teams, ClaimRight(t) PROVE IInv'
<1>1. order[t] \in Orders /\ status[t] = "offered"
  BY DEF IInv, TypeOK, ClaimRight, MayClaim, OpenFor
<1>2. /\ order' = [order EXCEPT ![t] = [order[t] EXCEPT !.status = "completed"]]
      /\ status' = [status EXCEPT ![t] = "held"]
  BY DEF ClaimRight
<1>3. [order[t] EXCEPT !.status = "completed"] \in Orders
  BY <1>1 DEF Orders
<1>4. TypeOK'
  BY <1>2, <1>3 DEF IInv, TypeOK, ClaimRight, Statuses
<1>5. order'[t] # None /\ order'[t].status = "completed" /\ status'[t] = "held"
  BY <1>1, <1>2, <1>3, NoneAssumption DEF IInv, TypeOK, Orders
<1>6. ItemFollowsOrder'
  BY <1>2, <1>5 DEF IInv, TypeOK, ItemFollowsOrder
<1>7. OncePerTeam'
  <2>1. \A u \in Teams : status'[u] = "spent" <=> status[u] = "spent"
    BY <1>1, <1>2 DEF IInv, TypeOK
  <2> QED BY <2>1, OnceUnchanged DEF IInv, ClaimRight
<1> QED BY <1>4, <1>6, <1>7 DEF IInv

LEMMA ClaimWrongIInv == ASSUME IInv, NEW t \in Teams, ClaimWrong(t) PROVE IInv'
<1>1. Floored(score[t] - WrongProve) \in Nat
  <2>1. score[t] - WrongProve \in Int
    BY PriceAssumption DEF IInv, TypeOK
  <2> QED BY <2>1, FlooredType
<1>2. score' \in [Teams -> Nat]
  BY <1>1 DEF IInv, TypeOK, ClaimWrong
<1>3. TypeOK'
  BY <1>2 DEF IInv, TypeOK, ClaimWrong
<1>4. ItemFollowsOrder'
  BY DEF IInv, ItemFollowsOrder, ClaimWrong
<1>5. OncePerTeam'
  BY OnceUnchanged DEF IInv, ClaimWrong
<1> QED BY <1>3, <1>4, <1>5 DEF IInv

\* The new transfer names a victim that has not lost and a taker that has not
\* gained: the first by the check, the second because its item was unspent.
LEMMA UseIInv ==
    ASSUME IInv, NEW t \in Teams, NEW victim \in Teams, Use(t, victim)
    PROVE  IInv'
<1> DEFINE new == [from |-> victim, to |-> t, points |-> Amount(victim), at |-> now]
           n == Len(transfers)
<1>1. Amount(victim) \in 1..Loot /\ Amount(victim) <= score[victim]
  BY PriceAssumption DEF IInv, TypeOK, Use, MayTake, Amount, Least
<1>2. new \in Transfers
  BY <1>1 DEF IInv, TypeOK, Transfers
<1>3. /\ transfers' = Append(transfers, new) /\ n \in Nat /\ Len(transfers') = n + 1
      /\ transfers'[n + 1] = new /\ \A i \in 1..n : transfers'[i] = transfers[i]
      /\ transfers' \in Seq(Transfers)
      /\ DOMAIN transfers = 1..n /\ DOMAIN transfers' = 1..(n + 1)
  BY <1>2, AppendProperties DEF IInv, TypeOK, Use
<1> HIDE DEF new
<1>4. new.from = victim /\ new.to = t
  BY DEF new
<1>5. status[t] = "held" /\ victim # t /\ victim \notin Lost
  BY DEF Use, MayTake
<1>6. status' = [status EXCEPT ![t] = "spent"]
  BY DEF Use
<1>7. TypeOK'
  <2>1. score' \in [Teams -> Nat]
    <3>1. score[t] + Amount(victim) \in Nat /\ score[victim] - Amount(victim) \in Nat
      BY <1>1, PriceAssumption DEF IInv, TypeOK
    <3> QED BY <1>5, <3>1 DEF IInv, TypeOK, Use, Moved
  <2> QED BY <1>3, <1>6, <2>1 DEF IInv, TypeOK, Use, Statuses
<1>8. ItemFollowsOrder'
  BY <1>5, <1>6 DEF IInv, TypeOK, ItemFollowsOrder, Use
<1>9. t \notin Gained
  BY <1>5 DEF IInv, OncePerTeam
<1>10. \A i \in 1..n : transfers[i].from # victim /\ transfers[i].to # t
  BY <1>3, <1>5, <1>9 DEF Lost, Gained
<1>11. \A i, j \in DOMAIN transfers' :
         transfers'[i].from = transfers'[j].from \/ transfers'[i].to = transfers'[j].to => i = j
  <2> SUFFICES ASSUME NEW i \in 1..(n + 1), NEW j \in 1..(n + 1),
                      transfers'[i].from = transfers'[j].from \/ transfers'[i].to = transfers'[j].to
               PROVE  i = j
    BY <1>3
  <2>1. CASE i \in 1..n /\ j \in 1..n
    BY <2>1, <1>3 DEF IInv, OncePerTeam
  <2>2. CASE i \in 1..n /\ j = n + 1
    BY <2>2, <1>3, <1>4, <1>10
  <2>3. CASE i = n + 1 /\ j \in 1..n
    BY <2>3, <1>3, <1>4, <1>10
  <2> QED BY <1>3, <2>1, <2>2, <2>3
<1>12. Gained' = Gained \cup {t}
  <2>1. Gained' = {transfers'[i].to : i \in 1..(n + 1)}
    BY <1>3 DEF Gained
  <2>2. Gained = {transfers[i].to : i \in 1..n}
    BY <1>3 DEF Gained
  <2>3. 1..(n + 1) = 1..n \cup {n + 1}
    BY <1>3
  <2> QED BY <1>3, <1>4, <2>1, <2>2, <2>3
<1>13. \A u \in Teams : status'[u] = "spent" <=> u \in Gained'
  BY <1>6, <1>12 DEF IInv, TypeOK, OncePerTeam
<1> QED BY <1>7, <1>8, <1>11, <1>13 DEF IInv, OncePerTeam

LEMMA StepIInv == IInv /\ [Next]_vars => IInv'
<1> SUFFICES ASSUME IInv, [Next]_vars PROVE IInv'
  OBVIOUS
<1>1. CASE Start
  BY <1>1, StartIInv
<1>2. CASE Tick
  BY <1>2, TickIInv
<1>3. ASSUME NEW t \in Teams, Play(t) \/ ClaimRight(t) \/ ClaimWrong(t) PROVE IInv'
  BY <1>3, PlayIInv, ClaimRightIInv, ClaimWrongIInv
<1>4. ASSUME NEW t \in Teams, NEW victim \in Teams, Use(t, victim) PROVE IInv'
  BY <1>4, UseIInv
<1>5. CASE UNCHANGED vars
  BY <1>5, OnceUnchanged DEF IInv, TypeOK, ItemFollowsOrder, vars
<1> QED BY <1>1, <1>2, <1>3, <1>4, <1>5 DEF Next

\* In every match: the types, and no score below zero.
LEMMA ItemTypes == Spec => []TypeOK
<1>1. IInv => TypeOK
  BY DEF IInv
<1> QED BY InitIInv, StepIInv, <1>1, PTL DEF Spec

\* The item is held or spent exactly when its order was completed.
LEMMA ItemTracksOrder == Spec => []ItemFollowsOrder
<1>1. IInv => ItemFollowsOrder
  BY DEF IInv
<1> QED BY InitIInv, StepIInv, <1>1, PTL DEF Spec

\* No team gains twice, and no team loses twice, however uses interleave.
LEMMA GainAndLoseOnce == Spec => []OncePerTeam
<1>1. IInv => OncePerTeam
  BY DEF IInv
<1> QED BY InitIInv, StepIInv, <1>1, PTL DEF Spec

\* What a step may not do to a lapsed order.
LEMMA LapsedStep ==
    ASSUME IInv, [Next]_vars, NEW t \in Teams, order[t] # None, order[t].status = "expired"
    PROVE  status'[t] = "offered" /\ order'[t] = order[t]
<1>1. status[t] = "offered"
  BY DEF IInv, TypeOK, ItemFollowsOrder, Statuses
<1>2. ~OpenFor(t)
  BY DEF OpenFor
<1>3. CASE Start
  BY <1>1, <1>3 DEF Start
<1>4. CASE Tick
  <2> PICK slots \in SUBSET {u \in Teams : MayOffer(u, now + 1)} :
        /\ status' = [u \in Teams |-> StatusAfter(u, slots)]
        /\ order' = [u \in Teams |-> OrderAfter(u, now + 1, slots)]
    BY <1>4 DEF Tick
  <2>1. t \notin slots
    BY <1>1 DEF MayOffer
  <2> QED BY <1>1, <1>2, <2>1 DEF StatusAfter, OrderAfter, Lapses
<1>5. ASSUME NEW u \in Teams, Play(u) PROVE status'[t] = "offered" /\ order'[t] = order[t]
  BY <1>1, <1>5 DEF Play
<1>6. ASSUME NEW u \in Teams, ClaimRight(u)
      PROVE  status'[t] = "offered" /\ order'[t] = order[t]
  <2>1. u # t
    BY <1>2, <1>6 DEF ClaimRight, MayClaim
  <2> QED BY <1>1, <1>6, <2>1 DEF ClaimRight, IInv, TypeOK
<1>7. ASSUME NEW u \in Teams, ClaimWrong(u)
      PROVE  status'[t] = "offered" /\ order'[t] = order[t]
  BY <1>1, <1>7 DEF ClaimWrong
<1>8. ASSUME NEW u \in Teams, NEW victim \in Teams, Use(u, victim)
      PROVE  status'[t] = "offered" /\ order'[t] = order[t]
  <2>1. u # t
    BY <1>1, <1>8 DEF Use
  <2> QED BY <1>1, <1>8, <2>1 DEF Use, IInv, TypeOK
<1>9. CASE UNCHANGED vars
  BY <1>1, <1>9 DEF vars
<1> QED BY <1>3, <1>4, <1>5, <1>6, <1>7, <1>8, <1>9 DEF Next

\* A team that let its order lapse never gets the item.
THEOREM NoSecondChance == Spec => LapsedForGood
<1>1. IInv /\ [Next]_vars =>
        [\A t \in Teams : order[t] # None /\ order[t].status = "expired" =>
           status'[t] = "offered" /\ order'[t] = order[t]]_vars
  BY LapsedStep
<1> QED BY InitIInv, StepIInv, <1>1, PTL DEF Spec, LapsedForGood

-----------------------------------------------------------------------------
(* Stranded items.  Each transfer has its own victim and its own taker, so  *)
(* there are as many victims as teams that have gained.  Two holders have   *)
(* not gained: at least two teams are no victims, one of them not oneself.  *)

LEMMA AsManyVictims ==
    ASSUME IInv
    PROVE  /\ IsFiniteSet(Lost) /\ IsFiniteSet(Gained)
           /\ Lost \subseteq Teams /\ Gained \subseteq Teams
           /\ Cardinality(Lost) = Cardinality(Gained)
<1> DEFINE I == DOMAIN transfers
           f == [i \in I |-> transfers[i].from]
           g == [i \in I |-> transfers[i].to]
<1>1. IsFiniteSet(I)
  <2>1. Len(transfers) \in Nat /\ I = 1..Len(transfers)
    BY DEF IInv, TypeOK
  <2> QED BY <2>1, FS_Interval
<1>2. \A i \in I : transfers[i].from \in Teams /\ transfers[i].to \in Teams
  <2>1. \A i \in I : transfers[i] \in Transfers
    BY DEF IInv, TypeOK
  <2> QED BY <2>1 DEF Transfers
<1>3. f \in Bijection(I, Lost)
  BY DEF Bijection, Injection, Surjection, IsInjective, Lost, IInv, OncePerTeam
<1>4. g \in Bijection(I, Gained)
  BY DEF Bijection, Injection, Surjection, IsInjective, Gained, IInv, OncePerTeam
<1>5. ExistsBijection(I, Lost) /\ ExistsBijection(I, Gained)
  BY <1>3, <1>4 DEF ExistsBijection
<1>6. Lost \subseteq Teams /\ Gained \subseteq Teams
  BY <1>2 DEF Lost, Gained
<1> QED BY <1>1, <1>5, <1>6, FS_Bijection

LEMMA TwoHolders == IInv => VictimsLast
<1> SUFFICES ASSUME IInv, NEW t \in Teams, NEW u \in Teams, t # u,
                    status[t] = "held", status[u] = "held",
                    Teams \ {t} \subseteq Lost
             PROVE  FALSE
  BY DEF VictimsLast
<1>1. Gained \subseteq (Teams \ {t}) \ {u}
  BY AsManyVictims DEF IInv, OncePerTeam
<1>2. /\ IsFiniteSet(Teams \ {t}) /\ Cardinality(Teams \ {t}) \in Nat
      /\ IsFiniteSet((Teams \ {t}) \ {u})
      /\ Cardinality((Teams \ {t}) \ {u}) = Cardinality(Teams \ {t}) - 1
  BY TeamAssumption, FS_RemoveElement, FS_CardinalityType
<1>3. Cardinality(Gained) <= Cardinality(Teams \ {t}) - 1
  BY <1>1, <1>2, FS_Subset
<1>4. Cardinality(Teams \ {t}) <= Cardinality(Lost)
  BY AsManyVictims, FS_Subset
<1>5. Cardinality(Lost) \in Nat /\ Cardinality(Lost) = Cardinality(Gained)
  BY AsManyVictims, FS_CardinalityType
<1> QED BY <1>2, <1>3, <1>4, <1>5

\* While two teams hold their items, each has a team it may still take from.
LEMMA HoldersHaveVictims == Spec => []VictimsLast
BY InitIInv, StepIInv, TwoHolders, PTL DEF Spec

\* However claims and uses interleave, nobody gains twice, nobody loses twice, and no
\* two items are stranded.
LEMMA TransfersAreSound == Spec => []TransfersSound
<1>1. OncePerTeam /\ VictimsLast => TransfersSound
  BY DEF TransfersSound
<1> QED BY GainAndLoseOnce, HoldersHaveVictims, <1>1, PTL

\* An item is held or spent exactly when its order was completed, and what items move
\* is fair, in every match.
THEOREM ItemIsSafe == Spec => []ItemSafe
<1>1. TypeOK /\ ItemFollowsOrder /\ TransfersSound => ItemSafe
  BY DEF ItemSafe
<1> QED BY ItemTypes, ItemTracksOrder, TransfersAreSound, <1>1, PTL

-----------------------------------------------------------------------------
(* What moved.                                                             *)

PointsOf(s) == [i \in DOMAIN s |-> s[i].points]
ToTeam(s, t) == {i \in DOMAIN s : s[i].to = t}
FromTeam(s, t) == {i \in DOMAIN s : s[i].from = t}

\* What the transfers of a set moved is the total of their points.
LEMMA PointsTotal ==
    ASSUME NEW s \in Seq(Transfers), NEW S \in SUBSET DOMAIN s
    PROVE  /\ IsFiniteSet(S) /\ \A i \in S : PointsOf(s)[i] \in Nat
           /\ MapThenFoldSet(+, 0, LAMBDA i : s[i].points, LAMBDA T : CHOOSE i \in T : TRUE, S)
                = Total(PointsOf(s), S)
<1> DEFINE Iter(f) == f = [T \in SUBSET S |->
                              IF T = {} THEN 0
                              ELSE s[CHOOSE i \in T : TRUE].points
                                     + f[T \ {CHOOSE i \in T : TRUE}]]
<1>1. IsFiniteSet(S)
  <2>1. Len(s) \in Nat /\ DOMAIN s = 1..Len(s)
    OBVIOUS
  <2>2. IsFiniteSet(DOMAIN s)
    BY <2>1, FS_Interval
  <2> QED BY <2>2, FS_Subset
<1>2. \A i \in DOMAIN s : s[i].points \in Nat
  <2>1. \A i \in DOMAIN s : s[i] \in Transfers
    OBVIOUS
  <2> QED BY <2>1, PriceAssumption DEF Transfers
<1>3. \A i \in S : PointsOf(s)[i] = s[i].points /\ PointsOf(s)[i] \in Nat
  BY <1>2 DEF PointsOf
<1>4. \A f : Iter(f) <=> AddsUp(f, PointsOf(s), S)
  <2>1. \A T \in SUBSET S : T # {} => One(T) \in S /\ PointsOf(s)[One(T)] = s[One(T)].points
    BY <1>3, OneIn
  <2>2. \A T \in SUBSET S : (CHOOSE i \in T : TRUE) = One(T)
    BY DEF One
  <2> SUFFICES ASSUME NEW f PROVE Iter(f) <=> AddsUp(f, PointsOf(s), S)
    OBVIOUS
  <2> DEFINE A == [T \in SUBSET S |-> IF T = {} THEN 0
                                      ELSE s[CHOOSE i \in T : TRUE].points
                                             + f[T \ {CHOOSE i \in T : TRUE}]]
             B == [T \in SUBSET S |-> IF T = {} THEN 0
                                      ELSE PointsOf(s)[One(T)] + f[T \ {One(T)}]]
  <2>3. \A T \in SUBSET S : T # {} =>
          s[CHOOSE i \in T : TRUE].points + f[T \ {CHOOSE i \in T : TRUE}]
            = PointsOf(s)[One(T)] + f[T \ {One(T)}]
    BY <2>1 DEF One
  <2>4. A = B
    BY <2>3
  <2> QED BY <2>4 DEF AddsUp
<1>5. Iter(CHOOSE f : Iter(f))
  <2> PICK f : AddsUp(f, PointsOf(s), S)
    BY <1>1, <1>3, AddsUpExists
  <2> HIDE DEF Iter
  <2>1. Iter(f)
    BY <1>4
  <2> QED BY <2>1
<1>6. Total(PointsOf(s), S) = (CHOOSE f : Iter(f))[S]
  BY <1>1, <1>3, <1>4, <1>5, TotalIs
<1> QED BY <1>1, <1>3, <1>6 DEF MapThenFoldSet

Balanced(s) ==
    \A t \in Teams : score[t] = own[t] + Total(PointsOf(s), ToTeam(s, t))
                                       - Total(PointsOf(s), FromTeam(s, t))

LEMMA ExplainedIsBalanced == TypeOK => (ScoreExplained <=> Balanced(transfers))
<1> SUFFICES ASSUME TypeOK PROVE ScoreExplained <=> Balanced(transfers)
  OBVIOUS
<1>1. transfers \in Seq(Transfers)
  BY DEF TypeOK
<1>2. \A S \in SUBSET DOMAIN transfers : Sum(S) = Total(PointsOf(transfers), S)
  BY <1>1, PointsTotal DEF Sum
<1>3. \A t \in Teams : /\ ToTeam(transfers, t) \in SUBSET DOMAIN transfers
                       /\ FromTeam(transfers, t) \in SUBSET DOMAIN transfers
  BY DEF ToTeam, FromTeam
<1>4. \A t \in Teams : /\ Sum(ToTeam(transfers, t))
                            = Total(PointsOf(transfers), ToTeam(transfers, t))
                       /\ Sum(FromTeam(transfers, t))
                            = Total(PointsOf(transfers), FromTeam(transfers, t))
  BY <1>2, <1>3
<1> QED BY <1>4 DEF ScoreExplained, Balanced, ToTeam, FromTeam

\* A transfer more moves its points, and changes nothing else.
LEMMA OneMoreTransfer ==
    ASSUME NEW s \in Seq(Transfers), NEW x \in Transfers, NEW t \in Teams
    PROVE  LET r == Append(s, x)
           IN  /\ Total(PointsOf(s), ToTeam(s, t)) \in Nat
               /\ Total(PointsOf(s), FromTeam(s, t)) \in Nat
               /\ Total(PointsOf(r), ToTeam(r, t)) =
                    Total(PointsOf(s), ToTeam(s, t)) + IF x.to = t THEN x.points ELSE 0
               /\ Total(PointsOf(r), FromTeam(r, t)) =
                    Total(PointsOf(s), FromTeam(s, t)) + IF x.from = t THEN x.points ELSE 0
<1> DEFINE r == Append(s, x)
           n == Len(s) + 1
<1>1. /\ r \in Seq(Transfers) /\ DOMAIN r = DOMAIN s \cup {n} /\ n \notin DOMAIN s
      /\ r[n] = x /\ \A i \in DOMAIN s : r[i] = s[i]
  <2>1. Len(s) \in Nat /\ DOMAIN s = 1..Len(s) /\ DOMAIN r = 1..n
    OBVIOUS
  <2>2. 1..n = 1..Len(s) \cup {n} /\ n \notin 1..Len(s)
    BY <2>1
  <2> QED BY <2>1, <2>2
<1> HIDE DEF r, n
<1>2. PointsOf(r)[n] = x.points /\ \A i \in DOMAIN s : PointsOf(r)[i] = PointsOf(s)[i]
  BY <1>1 DEF PointsOf
<1>3. ASSUME NEW S \in SUBSET DOMAIN s
      PROVE  /\ Total(PointsOf(s), S) \in Nat
             /\ Total(PointsOf(r), S) = Total(PointsOf(s), S)
             /\ Total(PointsOf(r), S \cup {n}) = Total(PointsOf(s), S) + x.points
  <2>1. IsFiniteSet(S) /\ \A i \in S : PointsOf(s)[i] \in Nat
    BY PointsTotal
  <2>2. Total(PointsOf(s), S) \in Nat /\ Total(PointsOf(r), S) = Total(PointsOf(s), S)
    BY <1>2, <2>1, TotalSame
  <2>3. S \cup {n} \in SUBSET DOMAIN r /\ n \notin S
    BY <1>1
  <2>4. \A i \in S \cup {n} : PointsOf(r)[i] \in Nat
    BY <1>1, <2>3, PointsTotal
  <2> QED BY <1>2, <2>1, <2>2, <2>3, <2>4, TotalPut
<1>4. /\ ToTeam(s, t) \in SUBSET DOMAIN s
      /\ ToTeam(r, t) = IF x.to = t THEN ToTeam(s, t) \cup {n} ELSE ToTeam(s, t)
  BY <1>1 DEF ToTeam
<1>5. /\ FromTeam(s, t) \in SUBSET DOMAIN s
      /\ FromTeam(r, t) = IF x.from = t THEN FromTeam(s, t) \cup {n} ELSE FromTeam(s, t)
  BY <1>1 DEF FromTeam
<1>6. /\ Total(PointsOf(s), ToTeam(s, t)) \in Nat
      /\ Total(PointsOf(r), ToTeam(r, t)) =
           Total(PointsOf(s), ToTeam(s, t)) + IF x.to = t THEN x.points ELSE 0
  <2>1. CASE x.to = t
    BY <1>3, <1>4, <2>1
  <2>2. CASE x.to # t
    <3>1. Total(PointsOf(s), ToTeam(s, t)) \in Nat
      BY <1>3, <1>4
    <3>2. Total(PointsOf(r), ToTeam(r, t)) = Total(PointsOf(s), ToTeam(s, t))
      BY <1>3, <1>4, <2>2
    <3> QED BY <2>2, <3>1, <3>2
  <2> QED BY <2>1, <2>2
<1>7. /\ Total(PointsOf(s), FromTeam(s, t)) \in Nat
      /\ Total(PointsOf(r), FromTeam(r, t)) =
           Total(PointsOf(s), FromTeam(s, t)) + IF x.from = t THEN x.points ELSE 0
  <2>1. CASE x.from = t
    BY <1>3, <1>5, <2>1
  <2>2. CASE x.from # t
    <3>1. Total(PointsOf(s), FromTeam(s, t)) \in Nat
      BY <1>3, <1>5
    <3>2. Total(PointsOf(r), FromTeam(r, t)) = Total(PointsOf(s), FromTeam(s, t))
      BY <1>3, <1>5, <2>2
    <3> QED BY <2>2, <3>1, <3>2
  <2> QED BY <2>1, <2>2
<1> QED BY <1>6, <1>7 DEF r

LEMMA UseBalanced ==
    ASSUME TypeOK, TypeOK', Balanced(transfers), NEW t \in Teams, NEW victim \in Teams,
           Use(t, victim)
    PROVE  Balanced(transfers)'
<1> DEFINE x == [from |-> victim, to |-> t, points |-> Amount(victim), at |-> now]
<1>1. transfers' = Append(transfers, x) /\ own' = own /\ score' = Moved(t, victim, Amount(victim))
      /\ victim # t
  BY DEF Use, MayTake
<1>2. transfers \in Seq(Transfers) /\ x \in Transfers
  <2>1. Amount(victim) \in 1..Loot
    BY PriceAssumption DEF TypeOK, Use, MayTake, Amount, Least
  <2> QED BY <2>1 DEF TypeOK, Transfers
<1>3. x.to = t /\ x.from = victim /\ x.points = Amount(victim) /\ Amount(victim) \in Int
  BY PriceAssumption DEF TypeOK, Amount, Least
<1> HIDE DEF x
<1> SUFFICES ASSUME NEW u \in Teams
             PROVE  score'[u] = own'[u] + Total(PointsOf(transfers'), ToTeam(transfers', u))
                                        - Total(PointsOf(transfers'), FromTeam(transfers', u))
  BY DEF Balanced, PointsOf, ToTeam, FromTeam
<1> DEFINE gained == Total(PointsOf(transfers), ToTeam(transfers, u))
           lost == Total(PointsOf(transfers), FromTeam(transfers, u))
<1>4. gained \in Nat /\ lost \in Nat /\ own[u] \in Int /\ score[u] = own[u] + gained - lost
  BY <1>2, OneMoreTransfer DEF Balanced, TypeOK
<1>5. Total(PointsOf(transfers'), ToTeam(transfers', u))
        = gained + IF u = t THEN Amount(victim) ELSE 0
  BY <1>1, <1>2, <1>3, OneMoreTransfer
<1>6. Total(PointsOf(transfers'), FromTeam(transfers', u))
        = lost + IF u = victim THEN Amount(victim) ELSE 0
  BY <1>1, <1>2, <1>3, OneMoreTransfer
<1>7. score'[u] = score[u] + (IF u = t THEN Amount(victim) ELSE 0)
                           - (IF u = victim THEN Amount(victim) ELSE 0)
  BY <1>1, <1>3 DEF Moved, TypeOK
<1> HIDE DEF gained, lost
<1> QED BY <1>1, <1>3, <1>4, <1>5, <1>6, <1>7

LEMMA StepBalanced == IInv /\ IInv' /\ Balanced(transfers) /\ [Next]_vars => Balanced(transfers)'
<1> SUFFICES ASSUME TypeOK, TypeOK', Balanced(transfers), [Next]_vars
             PROVE  Balanced(transfers)'
  BY DEF IInv
<1>1. ASSUME NEW t \in Teams, NEW victim \in Teams, Use(t, victim) PROVE Balanced(transfers)'
  BY <1>1, UseBalanced
<1>2. ASSUME transfers' = transfers, \A t \in Teams : own'[t] - own[t] = score'[t] - score[t]
      PROVE  Balanced(transfers)'
  <2> SUFFICES ASSUME NEW u \in Teams
               PROVE  score'[u] = own'[u] + Total(PointsOf(transfers), ToTeam(transfers, u))
                                          - Total(PointsOf(transfers), FromTeam(transfers, u))
    BY <1>2 DEF Balanced, PointsOf, ToTeam, FromTeam
  <2> DEFINE gained == Total(PointsOf(transfers), ToTeam(transfers, u))
             lost == Total(PointsOf(transfers), FromTeam(transfers, u))
  <2>1. gained \in Nat /\ lost \in Nat
    <3>1. /\ ToTeam(transfers, u) \in SUBSET DOMAIN transfers
          /\ FromTeam(transfers, u) \in SUBSET DOMAIN transfers
      BY DEF ToTeam, FromTeam
    <3> QED BY <3>1, PointsTotal, TotalSame DEF TypeOK
  <2>2. score[u] = own[u] + gained - lost
    BY DEF Balanced
  <2>3. own[u] \in Int /\ own'[u] \in Int /\ score[u] \in Int /\ score'[u] \in Int
    BY DEF TypeOK
  <2> HIDE DEF gained, lost
  <2>4. score'[u] = own'[u] + gained - lost
    BY <1>2, <2>1, <2>2, <2>3
  <2> QED BY <2>4 DEF gained, lost
<1>3. ASSUME UNCHANGED <<transfers, own, score>> PROVE Balanced(transfers)'
  BY <1>2, <1>3 DEF TypeOK
<1>4. CASE Tick
  BY <1>2, <1>4 DEF Tick, TypeOK
<1>5. ASSUME NEW t \in Teams, Play(t) \/ ClaimWrong(t) PROVE Balanced(transfers)'
  <2>1. transfers' = transfers /\ score \in [Teams -> Int] /\ own \in [Teams -> Int]
    BY <1>5 DEF Play, ClaimWrong, TypeOK
  <2>2. CASE Play(t)
    <3>1. \A u \in Teams : own'[u] - own[u] = score'[u] - score[u]
      BY <2>1, <2>2, PriceAssumption DEF Play
    <3> QED BY <1>2, <2>1, <3>1
  <2>3. CASE ClaimWrong(t)
    <3>1. score' \in [Teams -> Int] /\ \A u \in Teams : u # t => score'[u] = score[u]
      BY <2>1, <2>3 DEF ClaimWrong, TypeOK
    <3>2. own' = [own EXCEPT ![t] = own[t] + (score'[t] - score[t])]
      BY <2>3 DEF ClaimWrong
    <3>3. \A u \in Teams : own'[u] - own[u] = score'[u] - score[u]
      BY <2>1, <3>1, <3>2
    <3> QED BY <1>2, <2>1, <3>3
  <2> QED BY <1>5, <2>2, <2>3
<1>6. ASSUME NEW t \in Teams, ClaimRight(t) PROVE Balanced(transfers)'
  BY <1>3, <1>6 DEF ClaimRight
<1> QED BY <1>1, <1>3, <1>4, <1>5, <1>6 DEF Next, Start, vars

\* The item moves points and makes none: in every match, what separates the score of a
\* team from what its own moves were worth is what it took less what was taken from it.
THEOREM ScoreIsExplained == Spec => []ScoreExplained
<1>1. Init => Balanced(transfers)
  <2> SUFFICES ASSUME Init, NEW t \in Teams
               PROVE  score[t] = own[t] + Total(PointsOf(transfers), ToTeam(transfers, t))
                                        - Total(PointsOf(transfers), FromTeam(transfers, t))
    BY DEF Balanced
  <2>1. score[t] = 0 /\ own[t] = 0 /\ ToTeam(transfers, t) = {} /\ FromTeam(transfers, t) = {}
    BY DEF Init, ToTeam, FromTeam
  <2> QED BY <2>1, TotalEmpty
<1>2. IInv /\ IInv' /\ Balanced(transfers) /\ [Next]_vars => Balanced(transfers)'
  BY StepBalanced
<1>3. IInv /\ Balanced(transfers) => ScoreExplained
  BY ExplainedIsBalanced DEF IInv
<1> QED BY InitIInv, StepIInv, <1>1, <1>2, <1>3, PTL DEF Spec

-----------------------------------------------------------------------------
(* The log of HUNTs: how a log is read.                                    *)

\* Sets of whole numbers.
LEMMA Highest ==
    ASSUME NEW S, IsFiniteSet(S), S \in SUBSET Int, S # {}
    PROVE  Max(S) \in S /\ \A y \in S : Max(S) >= y
<1> DEFINE HasMax(T) == \E x \in T : \A y \in T : x >= y
           Good == {n \in Nat : \A T \in SUBSET S : T # {} /\ Cardinality(T) = n => HasMax(T)}
<1>1. 0 \in Good
  <2>1. \A T \in SUBSET S : Cardinality(T) = 0 => T = {}
    BY FS_Subset, FS_EmptySet
  <2> QED BY <2>1
<1>2. ASSUME NEW n \in Good PROVE n + 1 \in Good
  <2> SUFFICES ASSUME NEW T \in SUBSET S, T # {}, Cardinality(T) = n + 1 PROVE HasMax(T)
    OBVIOUS
  <2>1. PICK x : x \in T
    OBVIOUS
  <2>2. Cardinality(T \ {x}) = n
    <3>1. n \in Nat
      OBVIOUS
    <3>2. Cardinality(T \ {x}) = Cardinality(T) - 1
      BY <2>1, Smaller
    <3> HIDE DEF Good
    <3> QED BY <3>1, <3>2
  <2>3. CASE T \ {x} = {}
    BY <2>1, <2>3
  <2>4. CASE T \ {x} # {}
    <3>1. PICK z \in T \ {x} : \A y \in T \ {x} : z >= y
      BY <2>2, <2>4
    <3>2. z \in Int /\ x \in Int
      BY <2>1
    <3>3. CASE z >= x
      BY <3>1, <3>3
    <3>4. CASE ~(z >= x)
      <4>1. \A y \in T : y \in Int /\ (y = x \/ z >= y)
        BY <3>1
      <4> QED BY <3>2, <3>4, <4>1, <2>1
    <3> QED BY <3>3, <3>4
  <2> QED BY <2>3, <2>4
<1> HIDE DEF Good, HasMax
<1>3. Good = Nat
  <2>1. Good \in SUBSET Nat
    BY DEF Good
  <2> QED BY <1>1, <1>2, <2>1, NatSteps
<1>4. HasMax(S)
  <2>1. Cardinality(S) \in Nat
    BY FS_CardinalityType
  <2> QED BY <2>1, <1>3 DEF Good
<1> QED BY <1>4 DEF HasMax, Max

\* Ranking the elements of a finite set by how many come before.
Ordered(S, R) ==
    /\ \A c \in S : <<c, c>> \notin R
    /\ \A c, d \in S : c # d => <<c, d>> \in R \/ <<d, c>> \in R
    /\ \A c, d, e \in S : <<c, d>> \in R /\ <<d, e>> \in R => <<c, e>> \in R

Below(S, R, c) == {d \in S : <<d, c>> \in R}

LEMMA Ranked ==
    ASSUME NEW S, IsFiniteSet(S), NEW R, Ordered(S, R)
    PROVE  /\ Cardinality(S) \in Nat
           /\ \A c \in S : Cardinality(Below(S, R, c)) \in 0..(Cardinality(S) - 1)
           /\ \A c, d \in S : <<c, d>> \in R =>
                Cardinality(Below(S, R, c)) < Cardinality(Below(S, R, d))
           /\ \A n \in 0..(Cardinality(S) - 1) : \E c \in S : Cardinality(Below(S, R, c)) = n
<1> DEFINE N == Cardinality(S)
           rank == [c \in S |-> Cardinality(Below(S, R, c))]
<1>1. N \in Nat
  BY FS_CardinalityType
<1>2. ASSUME NEW c \in S PROVE IsFiniteSet(Below(S, R, c)) /\ Cardinality(Below(S, R, c)) \in 0..(N - 1)
  <2>1. Below(S, R, c) \in SUBSET (S \ {c})
    BY DEF Below, Ordered
  <2>2. IsFiniteSet(S \ {c}) /\ Cardinality(S \ {c}) = N - 1
    BY FS_RemoveElement
  <2>3. IsFiniteSet(Below(S, R, c)) /\ Cardinality(Below(S, R, c)) <= N - 1
    BY <2>1, <2>2, FS_Subset
  <2>4. Cardinality(Below(S, R, c)) \in Nat
    BY <2>3, FS_CardinalityType
  <2> QED BY <2>3, <2>4, <1>1
<1>3. ASSUME NEW c \in S, NEW d \in S, <<c, d>> \in R
      PROVE  Cardinality(Below(S, R, c)) < Cardinality(Below(S, R, d))
  <2>1. Below(S, R, c) \in SUBSET Below(S, R, d)
    BY <1>3 DEF Below, Ordered
  <2>2. c \in Below(S, R, d) /\ c \notin Below(S, R, c)
    BY <1>3 DEF Below, Ordered
  <2>3. /\ Cardinality(Below(S, R, c)) <= Cardinality(Below(S, R, d))
        /\ Cardinality(Below(S, R, c)) # Cardinality(Below(S, R, d))
    BY <2>1, <2>2, <1>2, FS_Subset
  <2> QED BY <2>3, <1>2, <1>1
<1>4. rank \in Injection(S, 0..(N - 1))
  <2>1. rank \in [S -> 0..(N - 1)]
    BY <1>2
  <2>2. \A c, d \in S : rank[c] = rank[d] => c = d
    <3> SUFFICES ASSUME NEW c \in S, NEW d \in S, c # d PROVE rank[c] # rank[d]
      OBVIOUS
    <3>1. rank[c] \in Int /\ rank[d] \in Int
      BY <2>1, <1>1
    <3>2. rank[c] < rank[d] \/ rank[d] < rank[c]
      BY <1>3 DEF Ordered
    <3> QED BY <3>1, <3>2
  <2> QED BY <2>1, <2>2 DEF Injection, IsInjective
<1>5. IsFiniteSet(0..(N - 1)) /\ Cardinality(0..(N - 1)) = N
  BY <1>1, FS_Interval
<1>6. rank \in Surjection(S, 0..(N - 1))
  BY <1>4, <1>5, FS_Injection
<1>7. \A n \in 0..(N - 1) : \E c \in S : rank[c] = n
  BY <1>6 DEF Surjection
<1> QED BY <1>1, <1>2, <1>3, <1>7

-----------------------------------------------------------------------------
(* The log of HUNTs.                                                        *)

LEMMA RowShapes ==
    /\ \A row \in Rows : IsDense(row)
    /\ \A row \in Objects : ~IsDense(row)
<1>1. ASSUME NEW row \in Rows PROVE IsDense(row)
  BY DEF Rows, IsDense
<1>2. ASSUME NEW row \in Objects PROVE ~IsDense(row)
  <2>1. DOMAIN row = {"kind", "by", "on", "gen", "at"}
    BY DEF Objects
  <2> QED BY <2>1 DEF IsDense
<1> QED BY <1>1, <1>2

LEMMA SlotsOfTeams ==
    /\ \A by, on \in Roster : by # on =>
         Slot(by, on) \in 1..(NTeams - 1) /\ Attacker(Slot(by, on), on) = by
    /\ \A slot \in 1..(NTeams - 1), on \in Roster :
         /\ Attacker(slot, on) \in Roster /\ Attacker(slot, on) # on
         /\ Slot(Attacker(slot, on), on) = slot
BY HuntBounds DEF Slot, Attacker, Roster

LEMMA RowsOfLog ==
    ASSUME NEW rows, WellFormed(rows)
    PROVE  /\ Len(rows) \in Nat /\ DOMAIN rows = 1..Len(rows)
           /\ \A i \in 1..Len(rows) : IF IsDense(rows[i]) THEN rows[i] \in Rows ELSE rows[i] \in Objects
<1>1. rows \in Seq(Rows \cup Objects)
  BY DEF WellFormed
<1>2. Len(rows) \in Nat /\ DOMAIN rows = 1..Len(rows)
  BY <1>1
<1>3. \A i \in 1..Len(rows) : rows[i] \in Rows \cup Objects
  BY <1>1
<1> QED BY <1>2, <1>3, RowShapes

LEMMA CellTypes ==
    ASSUME NEW rows, WellFormed(rows), NEW c \in Cells(rows)
    PROVE  /\ c[1] \in 1..Len(rows) /\ c[2] \in 0..(NTeams - 1) /\ c = <<c[1], c[2]>>
           /\ Held(rows, c) \in Objects /\ RankOf(rows, c) \in Nat
<1> DEFINE row == rows[c[1]]
<1>1. c \in (DOMAIN rows) \X (0..(NTeams - 1))
  BY DEF Cells
<1>2. c[1] \in 1..Len(rows) /\ c[2] \in 0..(NTeams - 1) /\ c = <<c[1], c[2]>>
  BY <1>1, RowsOfLog
<1>3. CASE IsDense(row)
  <2>1. row \in Rows
    BY <1>2, <1>3, RowsOfLog
  <2>2. c[2] # 0
    BY <1>3 DEF Cells
  <2>3. c[2] \in 1..(NTeams - 1)
    BY <2>2, <1>2, HuntBounds
  <2>4. /\ row.kind \in Logged /\ row.on \in Roster /\ row.gen \in Nat \ {0} /\ row.base \in Int
        /\ row.times[c[2]] \in Nat /\ row.ranks[c[2]] \in Nat
    BY <2>1, <2>3 DEF Rows
  <2>5. Attacker(c[2], row.on) \in Roster /\ Attacker(c[2], row.on) # row.on
    BY <2>3, <2>4, SlotsOfTeams
  <2>6. Held(rows, c) = [kind |-> row.kind, by |-> Attacker(c[2], row.on), on |-> row.on,
                         gen |-> row.gen, at |-> row.base + row.times[c[2]] - 1]
    BY <1>3 DEF Held, Success
  <2>7. row.base + row.times[c[2]] - 1 \in Int
    BY <2>4
  <2>8. Held(rows, c) \in Objects
    BY <2>4, <2>5, <2>6, <2>7 DEF Objects
  <2> QED BY <1>2, <1>3, <2>4, <2>8 DEF RankOf
<1>4. CASE ~IsDense(row)
  BY <1>2, <1>4, RowsOfLog DEF Held, RankOf
<1> QED BY <1>3, <1>4

LEMMA CellsFinite ==
    ASSUME NEW rows, WellFormed(rows)
    PROVE  IsFiniteSet(Cells(rows)) /\ Cardinality(Cells(rows)) \in Nat
<1>1. IsFiniteSet((1..Len(rows)) \X (0..(NTeams - 1)))
  <2>1. Len(rows) \in Int /\ NTeams - 1 \in Int
    BY RowsOfLog, HuntBounds
  <2>2. IsFiniteSet(1..Len(rows)) /\ IsFiniteSet(0..(NTeams - 1))
    BY <2>1, FS_Interval
  <2> QED BY <2>2, FS_Product
<1>2. Cells(rows) \in SUBSET ((1..Len(rows)) \X (0..(NTeams - 1)))
  BY RowsOfLog DEF Cells
<1> QED BY <1>1, <1>2, FS_Subset, FS_CardinalityType

\* Time, then rank, then row, then slot.
LEMMA EarlierIs ==
    ASSUME NEW rows, WellFormed(rows), NEW c \in Cells(rows), NEW d \in Cells(rows)
    PROVE  Earlier(rows, c, d) <=>
             \/ Held(rows, c).at < Held(rows, d).at
             \/ /\ Held(rows, c).at = Held(rows, d).at
                /\ \/ RankOf(rows, c) < RankOf(rows, d)
                   \/ RankOf(rows, c) = RankOf(rows, d) /\ c[1] < d[1]
                   \/ RankOf(rows, c) = RankOf(rows, d) /\ c[1] = d[1] /\ c[2] < d[2]
<1> DEFINE Place(cell) == <<Held(rows, cell).at, RankOf(rows, cell), cell[1], cell[2]>>
           Ahead(k) == /\ Place(c)[k] < Place(d)[k]
                       /\ \A m \in 1..(k - 1) : Place(c)[m] = Place(d)[m]
<1>1. Earlier(rows, c, d) <=> Ahead(1) \/ Ahead(2) \/ Ahead(3) \/ Ahead(4)
  <2>1. 1..4 = {1, 2, 3, 4}
    OBVIOUS
  <2>2. Earlier(rows, c, d) <=> \E k \in 1..4 : Ahead(k)
    BY DEF Earlier
  <2> HIDE DEF Ahead
  <2> QED BY <2>1, <2>2
<1>2. 1..(1 - 1) = {} /\ 1..(2 - 1) = {1} /\ 1..(3 - 1) = {1, 2} /\ 1..(4 - 1) = {1, 2, 3}
  OBVIOUS
<1>3. \A cell : /\ Place(cell)[1] = Held(rows, cell).at /\ Place(cell)[2] = RankOf(rows, cell)
                /\ Place(cell)[3] = cell[1] /\ Place(cell)[4] = cell[2]
  OBVIOUS
<1> HIDE DEF Place
<1>4. Ahead(1) <=> Held(rows, c).at < Held(rows, d).at
  BY <1>2, <1>3
<1>5. Ahead(2) <=> Held(rows, c).at = Held(rows, d).at /\ RankOf(rows, c) < RankOf(rows, d)
  BY <1>2, <1>3
<1>6. Ahead(3) <=> /\ Held(rows, c).at = Held(rows, d).at /\ RankOf(rows, c) = RankOf(rows, d)
                   /\ c[1] < d[1]
  BY <1>2, <1>3
<1>7. Ahead(4) <=> /\ Held(rows, c).at = Held(rows, d).at /\ RankOf(rows, c) = RankOf(rows, d)
                   /\ c[1] = d[1] /\ c[2] < d[2]
  <2> DEFINE Tie(m) == Place(c)[m] = Place(d)[m]
  <2>1. Ahead(4) <=> Place(c)[4] < Place(d)[4] /\ \A m \in {1, 2, 3} : Tie(m)
    BY <1>2
  <2>2. (\A m \in {1, 2, 3} : Tie(m)) <=> Tie(1) /\ Tie(2) /\ Tie(3)
    <3> HIDE DEF Tie
    <3> QED OBVIOUS
  <2>3. /\ Tie(1) <=> Held(rows, c).at = Held(rows, d).at
        /\ Tie(2) <=> RankOf(rows, c) = RankOf(rows, d)
        /\ Tie(3) <=> c[1] = d[1]
    <3>1. /\ Tie(1) <=> Place(c)[1] = Place(d)[1]
          /\ Tie(2) <=> Place(c)[2] = Place(d)[2]
          /\ Tie(3) <=> Place(c)[3] = Place(d)[3]
      OBVIOUS
    <3> HIDE DEF Tie
    <3> QED BY <1>3, <3>1
  <2>4. Place(c)[4] < Place(d)[4] <=> c[2] < d[2]
    BY <1>3
  <2> HIDE DEF Tie, Ahead
  <2> QED BY <2>1, <2>2, <2>3, <2>4
<1> HIDE DEF Ahead
<1> QED BY <1>1, <1>4, <1>5, <1>6, <1>7

Sorting(rows) == {p \in Cells(rows) \X Cells(rows) : Earlier(rows, p[1], p[2])}

LEMMA EarlierOrders ==
    ASSUME NEW rows, WellFormed(rows)
    PROVE  /\ Ordered(Cells(rows), Sorting(rows))
           /\ \A c \in Cells(rows) : Below(Cells(rows), Sorting(rows), c) = Before(rows, c)
<1>1. \A c, d \in Cells(rows) : <<c, d>> \in Sorting(rows) <=> Earlier(rows, c, d)
  BY DEF Sorting
<1>2. \A c \in Cells(rows) : /\ Held(rows, c).at \in Int /\ RankOf(rows, c) \in Int
                             /\ c[1] \in Int /\ c[2] \in Int /\ c = <<c[1], c[2]>>
  <2> TAKE c \in Cells(rows)
  <2>1. Held(rows, c) \in Objects
    BY CellTypes
  <2>2. Held(rows, c).at \in Int
    BY <2>1 DEF Objects
  <2> QED BY <2>2, CellTypes
<1>3. ASSUME NEW c \in Cells(rows) PROVE ~Earlier(rows, c, c)
  BY <1>2, EarlierIs
<1>4. ASSUME NEW c \in Cells(rows), NEW d \in Cells(rows), c # d
      PROVE  Earlier(rows, c, d) \/ Earlier(rows, d, c)
  <2>1. c[1] # d[1] \/ c[2] # d[2]
    BY <1>2, <1>4
  <2> QED BY <2>1, <1>2, EarlierIs
<1>5. ASSUME NEW c \in Cells(rows), NEW d \in Cells(rows), NEW e \in Cells(rows),
             Earlier(rows, c, d), Earlier(rows, d, e)
      PROVE  Earlier(rows, c, e)
  BY <1>2, <1>5, EarlierIs
<1>6. Ordered(Cells(rows), Sorting(rows))
  BY <1>1, <1>3, <1>4, <1>5 DEF Ordered
<1>7. \A c \in Cells(rows) : Below(Cells(rows), Sorting(rows), c) = Before(rows, c)
  BY <1>1 DEF Below, Before
<1> QED BY <1>6, <1>7

\* A success is read at the position after those that come before it.
PlaceOf(rows, c) == Cardinality(Before(rows, c)) + 1

LEMMA Reading ==
    ASSUME NEW rows, WellFormed(rows)
    PROVE  /\ Cardinality(Cells(rows)) \in Nat
           /\ Decoded(rows) \in Seq(Objects) /\ Len(Decoded(rows)) = Cardinality(Cells(rows))
           /\ \A c \in Cells(rows) : /\ PlaceOf(rows, c) \in 1..Cardinality(Cells(rows))
                                     /\ Decoded(rows)[PlaceOf(rows, c)] = Held(rows, c)
           /\ \A n \in 1..Cardinality(Cells(rows)) : \E c \in Cells(rows) : PlaceOf(rows, c) = n
           /\ \A c, d \in Cells(rows) : PlaceOf(rows, c) = PlaceOf(rows, d) => c = d
<1> DEFINE N == Cardinality(Cells(rows))
           R == Sorting(rows)
           B(c) == Below(Cells(rows), R, c)
<1>1. /\ N \in Nat
      /\ \A c \in Cells(rows) : Cardinality(B(c)) \in 0..(N - 1)
      /\ \A c, d \in Cells(rows) : <<c, d>> \in R => Cardinality(B(c)) < Cardinality(B(d))
      /\ \A n \in 0..(N - 1) : \E c \in Cells(rows) : Cardinality(B(c)) = n
  BY CellsFinite, EarlierOrders, Ranked
<1>2. \A c \in Cells(rows) : PlaceOf(rows, c) = Cardinality(B(c)) + 1
  BY EarlierOrders DEF PlaceOf
<1>3. \A c, d \in Cells(rows) : c # d => <<c, d>> \in R \/ <<d, c>> \in R
  BY EarlierOrders DEF Ordered
<1> HIDE DEF N, B, R
<1>4. \A c \in Cells(rows) : PlaceOf(rows, c) \in 1..N
  BY <1>1, <1>2
<1>5. ASSUME NEW c \in Cells(rows), NEW d \in Cells(rows), PlaceOf(rows, c) = PlaceOf(rows, d)
      PROVE  c = d
  <2>1. Cardinality(B(c)) \in Int /\ Cardinality(B(d)) \in Int
    BY <1>1
  <2>2. Cardinality(B(c)) = Cardinality(B(d))
    BY <2>1, <1>2, <1>5
  <2>3. <<c, d>> \notin R /\ <<d, c>> \notin R
    BY <2>1, <2>2, <1>1
  <2> QED BY <2>3, <1>3
<1>6. ASSUME NEW n \in 1..N PROVE \E c \in Cells(rows) : PlaceOf(rows, c) = n
  <2>1. n - 1 \in 0..(N - 1)
    BY <1>1
  <2>2. PICK c \in Cells(rows) : Cardinality(B(c)) = n - 1
    BY <2>1, <1>1
  <2> QED BY <2>2, <1>2
<1>7. ASSUME NEW c \in Cells(rows) PROVE Nth(rows, PlaceOf(rows, c)) = c
  <2> DEFINE n == PlaceOf(rows, c)
             Fits(d) == Cardinality(Before(rows, d)) = n - 1
  <2>1. \A d \in Cells(rows) : PlaceOf(rows, d) \in Nat /\ Cardinality(Before(rows, d)) = PlaceOf(rows, d) - 1
    <3>1. \A d \in Cells(rows) : Cardinality(Before(rows, d)) = Cardinality(B(d))
      BY EarlierOrders DEF B, R
    <3> QED BY <3>1, <1>1, <1>2
  <2>2. \A d \in Cells(rows) : Fits(d) <=> d = c
    BY <2>1, <1>5
  <2>3. Nth(rows, n) = CHOOSE d \in Cells(rows) : Fits(d)
    BY DEF Nth
  <2> HIDE DEF Fits
  <2> QED BY <2>2, <2>3
<1>8. Decoded(rows) = [n \in 1..N |-> Held(rows, Nth(rows, n))]
  BY DEF Decoded, N
<1>9. \A c \in Cells(rows) : Decoded(rows)[PlaceOf(rows, c)] = Held(rows, c)
  BY <1>4, <1>7, <1>8
<1>10. \A n \in 1..N : Decoded(rows)[n] \in Objects
  BY <1>6, <1>9, CellTypes
<1>11. Decoded(rows) \in Seq(Objects) /\ Len(Decoded(rows)) = N
  <2>1. Decoded(rows) \in [1..N -> Objects]
    BY <1>8, <1>10
  <2> QED BY <2>1, <1>1
<1> QED BY <1>1, <1>4, <1>5, <1>6, <1>9, <1>11 DEF N

-----------------------------------------------------------------------------
(* A success is appended.                                                  *)

LEMMA LesserIs ==
    ASSUME NEW a \in Int, NEW b \in Int
    PROVE  /\ Min({a, b}) \in {a, b} /\ Min({a, b}) <= a /\ Min({a, b}) <= b
<1>1. \E x \in {a, b} : \A y \in {a, b} : x =< y
  <2>1. CASE a <= b
    BY <2>1
  <2>2. CASE ~(a <= b)
    BY <2>2
  <2> QED BY <2>1, <2>2
<1>2. Min({a, b}) \in {a, b} /\ \A y \in {a, b} : Min({a, b}) =< y
  BY <1>1 DEF Min
<1> QED BY <1>2

LEMMA NextRankIs ==
    ASSUME NEW rows, WellFormed(rows), NEW at
    PROVE  /\ NextRank(rows, at) \in Nat
           /\ \A c \in Cells(rows) : Held(rows, c).at = at => RankOf(rows, c) < NextRank(rows, at)
<1> DEFINE same == {c \in Cells(rows) : Held(rows, c).at = at}
           f == [c \in same |-> RankOf(rows, c) + 1]
           ranks == {RankOf(rows, c) + 1 : c \in same}
           S == {Cardinality(same)} \cup ranks
<1>1. IsFiniteSet(same) /\ Cardinality(same) \in Nat
  <2>1. same \in SUBSET Cells(rows)
    OBVIOUS
  <2> HIDE DEF same
  <2> QED BY <2>1, CellsFinite, FS_Subset, FS_CardinalityType
<1>2. \A c \in same : RankOf(rows, c) \in Nat /\ RankOf(rows, c) + 1 \in Nat
  BY CellTypes
<1>3. ranks \in SUBSET Nat /\ IsFiniteSet(ranks)
  <2>1. f \in Surjection(same, ranks)
    BY DEF Surjection
  <2>2. IsFiniteSet(ranks)
    <3> HIDE DEF f, same, ranks
    <3> QED BY <2>1, <1>1, FS_Surjection
  <2> QED BY <2>2, <1>2
<1>4. IsFiniteSet(S) /\ S \in SUBSET Int /\ S \in SUBSET Nat /\ S # {}
  <2>1. S = ranks \cup {Cardinality(same)}
    OBVIOUS
  <2> HIDE DEF S, same, ranks
  <2>2. IsFiniteSet(S)
    BY <2>1, <1>3, FS_AddElement
  <2>3. S \in SUBSET Nat
    BY <2>1, <1>1, <1>3
  <2>4. S \in SUBSET Int
    BY <2>3
  <2>5. S # {}
    BY <2>1
  <2> QED BY <2>2, <2>3, <2>4, <2>5
<1>5. NextRank(rows, at) = Max(S)
  BY DEF NextRank
<1>6. Max(S) \in S /\ \A y \in S : Max(S) >= y
  <2> HIDE DEF S
  <2> QED BY <1>4, Highest
<1>7. ASSUME NEW c \in Cells(rows), Held(rows, c).at = at PROVE RankOf(rows, c) < NextRank(rows, at)
  <2>1. c \in same
    BY <1>7
  <2>2. RankOf(rows, c) + 1 \in S /\ RankOf(rows, c) \in Nat
    BY <2>1, <1>2
  <2>3. Max(S) \in Nat /\ Max(S) >= RankOf(rows, c) + 1
    <3> HIDE DEF S
    <3> QED BY <2>2, <1>4, <1>6
  <2> QED BY <2>2, <2>3, <1>5
<1>8. NextRank(rows, at) \in Nat
  <2> HIDE DEF S
  <2> QED BY <1>4, <1>5, <1>6
<1> QED BY <1>7, <1>8

-----------------------------------------------------------------------------
(* Appending a success.                                                     *)

FoundRow(rows, s) == RowOf(rows, s.kind, s.on, s.gen)

OldRow(rows, s) ==
    IF FoundRow(rows, s) # {} THEN rows[CHOOSE i \in FoundRow(rows, s) : TRUE]
    ELSE [kind |-> s.kind, on |-> s.on, gen |-> s.gen, base |-> s.at, times |-> Blank, ranks |-> Blank]

BaseOf(rows, s) == Min({OldRow(rows, s).base, s.at})

NewRow(rows, s) ==
    [kind |-> s.kind, on |-> s.on, gen |-> s.gen, base |-> BaseOf(rows, s),
     times |-> [t \in 1..(NTeams - 1) |->
        IF t = Slot(s.by, s.on) THEN s.at - BaseOf(rows, s) + 1
        ELSE IF OldRow(rows, s).times[t] = 0 THEN 0
        ELSE OldRow(rows, s).times[t] + OldRow(rows, s).base - BaseOf(rows, s)],
     ranks |-> [t \in 1..(NTeams - 1) |->
        IF t = Slot(s.by, s.on) THEN NextRank(rows, s.at) ELSE OldRow(rows, s).ranks[t]]]

\* Where the success is put.
RowFor(rows, s) ==
    IF FoundRow(rows, s) # {} THEN CHOOSE i \in FoundRow(rows, s) : TRUE ELSE Len(rows) + 1

LEMMA OldRowIs ==
    ASSUME NEW rows, WellFormed(rows), NEW s \in Objects
    PROVE  /\ OldRow(rows, s) \in Rows
           /\ OldRow(rows, s).kind = s.kind /\ OldRow(rows, s).on = s.on /\ OldRow(rows, s).gen = s.gen
           /\ \A t \in 1..(NTeams - 1) : OldRow(rows, s).times[t] = 0 => OldRow(rows, s).ranks[t] = 0
           /\ IF FoundRow(rows, s) # {}
              THEN /\ RowFor(rows, s) \in 1..Len(rows) /\ rows[RowFor(rows, s)] = OldRow(rows, s)
                   /\ FoundRow(rows, s) = {RowFor(rows, s)}
              ELSE /\ RowFor(rows, s) = Len(rows) + 1
                   /\ \A t \in 1..(NTeams - 1) : OldRow(rows, s).times[t] = 0
<1> DEFINE F == FoundRow(rows, s)
           q == RowFor(rows, s)
<1>0. /\ s.kind \in Logged /\ s.on \in Roster /\ s.gen \in Nat \ {0} /\ s.at \in Int
  BY DEF Objects
<1>1. CASE F # {}
  <2>1. q \in F
    BY <1>1 DEF RowFor
  <2>2. /\ q \in 1..Len(rows) /\ IsDense(rows[q]) /\ rows[q].kind = s.kind
        /\ rows[q].on = s.on /\ rows[q].gen = s.gen
    BY <2>1, RowsOfLog DEF FoundRow, RowOf
  <2>3. rows[q] = OldRow(rows, s)
    BY <1>1 DEF OldRow, RowFor
  <2>4. OldRow(rows, s) \in Rows
    BY <2>2, <2>3, RowsOfLog
  <2>5. \A t \in 1..(NTeams - 1) : OldRow(rows, s).times[t] = 0 => OldRow(rows, s).ranks[t] = 0
    BY <2>2, <2>3, RowsOfLog DEF WellFormed
  <2>6. ASSUME NEW i \in F PROVE i = q
    <3>1. /\ i \in DOMAIN rows /\ IsDense(rows[i]) /\ rows[i].kind = s.kind
          /\ rows[i].on = s.on /\ rows[i].gen = s.gen
      BY DEF FoundRow, RowOf
    <3>2. q \in DOMAIN rows
      BY <2>2, RowsOfLog
    <3>3. <<rows[i].kind, rows[i].on, rows[i].gen>> = <<rows[q].kind, rows[q].on, rows[q].gen>>
      BY <3>1, <2>2
    <3> QED BY <3>1, <3>2, <3>3, <2>2 DEF WellFormed
  <2>7. F = {q}
    BY <2>1, <2>6
  <2> QED BY <1>1, <2>2, <2>3, <2>4, <2>5, <2>7
<1>2. CASE F = {}
  <2>1. OldRow(rows, s) = [kind |-> s.kind, on |-> s.on, gen |-> s.gen, base |-> s.at,
                           times |-> Blank, ranks |-> Blank]
    BY <1>2 DEF OldRow
  <2>2. Blank \in [1..(NTeams - 1) -> Nat] /\ \A t \in 1..(NTeams - 1) : Blank[t] = 0
    BY DEF Blank
  <2>3. OldRow(rows, s) \in Rows
    BY <2>1, <2>2, <1>0 DEF Rows
  <2> QED BY <1>2, <2>1, <2>2, <2>3 DEF RowFor
<1> QED BY <1>1, <1>2

LEMMA NewRowIs ==
    ASSUME NEW rows, WellFormed(rows), NEW s \in Objects
    PROVE  /\ NewRow(rows, s) \in Rows
           /\ BaseOf(rows, s) \in Int /\ BaseOf(rows, s) <= s.at
           /\ BaseOf(rows, s) <= OldRow(rows, s).base
           /\ Slot(s.by, s.on) \in 1..(NTeams - 1)
           /\ \A t \in 1..(NTeams - 1) : NewRow(rows, s).times[t] = 0 => NewRow(rows, s).ranks[t] = 0
<1> DEFINE old == OldRow(rows, s)
           new == NewRow(rows, s)
           base == BaseOf(rows, s)
           slot == Slot(s.by, s.on)
<1>1. /\ s.kind \in Logged /\ s.by \in Roster /\ s.on \in Roster /\ s.gen \in Nat \ {0}
      /\ s.at \in Int /\ s.by # s.on
  BY DEF Objects
<1>2. /\ old \in Rows /\ old.base \in Int
      /\ \A t \in 1..(NTeams - 1) : old.times[t] \in Nat /\ old.ranks[t] \in Nat
      /\ \A t \in 1..(NTeams - 1) : old.times[t] = 0 => old.ranks[t] = 0
  <2>1. old \in Rows /\ \A t \in 1..(NTeams - 1) : old.times[t] = 0 => old.ranks[t] = 0
    BY OldRowIs
  <2> HIDE DEF old
  <2> QED BY <2>1 DEF Rows
<1>3. base \in Int /\ base <= s.at /\ base <= old.base
  <2>1. base = Min({old.base, s.at})
    BY DEF BaseOf
  <2> HIDE DEF base, old
  <2> QED BY <2>1, <1>1, <1>2, LesserIs
<1>4. slot \in 1..(NTeams - 1)
  BY <1>1, SlotsOfTeams
<1>5. NextRank(rows, s.at) \in Nat
  BY NextRankIs
<1> DEFINE T(t) == IF t = slot THEN s.at - base + 1
                   ELSE IF old.times[t] = 0 THEN 0 ELSE old.times[t] + old.base - base
           K(t) == IF t = slot THEN NextRank(rows, s.at) ELSE old.ranks[t]
<1>6. new = [kind |-> s.kind, on |-> s.on, gen |-> s.gen, base |-> base,
             times |-> [t \in 1..(NTeams - 1) |-> T(t)], ranks |-> [t \in 1..(NTeams - 1) |-> K(t)]]
  BY DEF NewRow
<1> HIDE DEF new, old, base, slot
<1>7. \A t \in 1..(NTeams - 1) : T(t) \in Nat /\ K(t) \in Nat /\ (T(t) = 0 => K(t) = 0)
  <2> TAKE t \in 1..(NTeams - 1)
  <2>1. CASE t = slot
    BY <2>1, <1>1, <1>3, <1>5
  <2>2. CASE t # slot /\ old.times[t] = 0
    BY <2>2, <1>2
  <2>3. CASE t # slot /\ old.times[t] # 0
    BY <2>3, <1>2, <1>3
  <2> QED BY <2>1, <2>2, <2>3
<1> HIDE DEF T, K
<1>8. new \in Rows
  BY <1>1, <1>3, <1>6, <1>7 DEF Rows
<1>9. \A t \in 1..(NTeams - 1) : new.times[t] = 0 => new.ranks[t] = 0
  BY <1>6, <1>7
<1> QED BY <1>3, <1>4, <1>8, <1>9 DEF new, old, base, slot

LEMMA AppendedIs ==
    ASSUME NEW rows, WellFormed(rows), NEW s \in Objects
    PROVE  Appended(rows, s) = IF FoundRow(rows, s) = {} THEN Append(rows, NewRow(rows, s))
                               ELSE [i \in DOMAIN rows |-> IF i \in FoundRow(rows, s) THEN NewRow(rows, s)
                                                          ELSE rows[i]]
<1> DEFINE old == OldRow(rows, s)
           base == BaseOf(rows, s)
           slot == Slot(s.by, s.on)
           counted == [t \in DOMAIN old.times |->
                         IF old.times[t] = 0 THEN 0 ELSE old.times[t] + old.base - base]
           row == [old EXCEPT
                     !.base = base,
                     !.times = [[t \in DOMAIN @ |-> IF @[t] = 0 THEN 0 ELSE @[t] + old.base - base]
                                EXCEPT ![slot] = s.at - base + 1],
                     !.ranks[slot] = NextRank(rows, s.at)]
<1>1. Appended(rows, s) = IF FoundRow(rows, s) = {} THEN Append(rows, row)
                          ELSE [i \in DOMAIN rows |-> IF i \in FoundRow(rows, s) THEN row ELSE rows[i]]
  BY DEF Appended, FoundRow, OldRow, BaseOf
<1>2. old \in Rows /\ old.kind = s.kind /\ old.on = s.on /\ old.gen = s.gen
  BY OldRowIs
<1>3. slot \in 1..(NTeams - 1)
  BY NewRowIs
<1>4. row = NewRow(rows, s)
  <2>1. old = [kind |-> s.kind, on |-> s.on, gen |-> s.gen, base |-> old.base,
               times |-> old.times, ranks |-> old.ranks]
    <3> HIDE DEF old
    <3> QED BY <1>2 DEF Rows
  <2>2. DOMAIN old.times = 1..(NTeams - 1) /\ DOMAIN old.ranks = 1..(NTeams - 1)
    <3> HIDE DEF old
    <3> QED BY <1>2 DEF Rows
  <2>3. [counted EXCEPT ![slot] = s.at - base + 1]
          = [t \in 1..(NTeams - 1) |-> IF t = slot THEN s.at - base + 1
               ELSE IF old.times[t] = 0 THEN 0 ELSE old.times[t] + old.base - base]
    <3> HIDE DEF old, base, slot
    <3> QED BY <2>2, <1>3
  <2>4. [old.ranks EXCEPT ![slot] = NextRank(rows, s.at)]
          = [t \in 1..(NTeams - 1) |-> IF t = slot THEN NextRank(rows, s.at) ELSE old.ranks[t]]
    <3> HIDE DEF old, base, slot
    <3> QED BY <2>2, <1>3
  <2>5. row = [kind |-> s.kind, on |-> s.on, gen |-> s.gen, base |-> base,
               times |-> [counted EXCEPT ![slot] = s.at - base + 1],
               ranks |-> [old.ranks EXCEPT ![slot] = NextRank(rows, s.at)]]
    <3>1. row = [old EXCEPT !.base = base, !.times = [counted EXCEPT ![slot] = s.at - base + 1],
                            !.ranks = [old.ranks EXCEPT ![slot] = NextRank(rows, s.at)]]
      <4> HIDE DEF old, base, slot
      <4> QED BY <1>2 DEF Rows
    <3> DEFINE times == [counted EXCEPT ![slot] = s.at - base + 1]
               ranks == [old.ranks EXCEPT ![slot] = NextRank(rows, s.at)]
               b == old.base
               t == old.times
               r == old.ranks
    <3>2. old = [kind |-> s.kind, on |-> s.on, gen |-> s.gen, base |-> b, times |-> t, ranks |-> r]
      BY <2>1
    <3> HIDE DEF old, base, slot, counted, row, times, ranks, b, t, r
    <3>3. [old EXCEPT !.base = base, !.times = times, !.ranks = ranks]
            = [kind |-> s.kind, on |-> s.on, gen |-> s.gen, base |-> base, times |-> times, ranks |-> ranks]
      <4> DEFINE moved == [old EXCEPT !.base = base]
                 timed == [moved EXCEPT !.times = times]
      <4>1. moved = [kind |-> s.kind, on |-> s.on, gen |-> s.gen, base |-> base, times |-> t,
                     ranks |-> r]
        BY <3>2
      <4> HIDE DEF moved
      <4>2. timed = [kind |-> s.kind, on |-> s.on, gen |-> s.gen, base |-> base, times |-> times,
                     ranks |-> r]
        BY <4>1
      <4> HIDE DEF timed
      <4>3. [timed EXCEPT !.ranks = ranks]
              = [kind |-> s.kind, on |-> s.on, gen |-> s.gen, base |-> base, times |-> times,
                 ranks |-> ranks]
        BY <4>2
      <4>4. [old EXCEPT !.base = base, !.times = times, !.ranks = ranks] = [timed EXCEPT !.ranks = ranks]
        BY DEF moved, timed
      <4> QED BY <4>3, <4>4
    <3>4. row = [old EXCEPT !.base = base, !.times = times, !.ranks = ranks]
      BY <3>1 DEF times, ranks
    <3> QED BY <3>3, <3>4 DEF times, ranks
  <2> QED BY <2>3, <2>4, <2>5 DEF NewRow
<1> HIDE DEF row
<1> QED BY <1>1, <1>4

\* One row is the success's, the others stay.
LEMMA AppendedRows ==
    ASSUME NEW rows, WellFormed(rows), NEW s \in Objects
    PROVE  LET q == RowFor(rows, s)
               more == Appended(rows, s)
           IN  /\ q \in 1..Len(more) /\ Len(rows) <= Len(more)
               /\ more \in Seq(Rows \cup Objects) /\ DOMAIN more = 1..Len(more)
               /\ more[q] = NewRow(rows, s)
               /\ \A i \in 1..Len(more) : i # q => i \in 1..Len(rows) /\ more[i] = rows[i]
               /\ q \in 1..Len(rows) => /\ q \in FoundRow(rows, s)
                                       /\ rows[q] = OldRow(rows, s)
               /\ q \notin 1..Len(rows) => FoundRow(rows, s) = {}
<1> DEFINE q == RowFor(rows, s)
           more == Appended(rows, s)
           new == NewRow(rows, s)
           F == FoundRow(rows, s)
<1>1. Len(rows) \in Nat /\ DOMAIN rows = 1..Len(rows) /\ rows \in Seq(Rows \cup Objects)
  BY RowsOfLog DEF WellFormed
<1>2. new \in Rows
  BY NewRowIs
<1>3. CASE F = {}
  <2>1. q = Len(rows) + 1 /\ more = Append(rows, new)
    BY <1>3, OldRowIs, AppendedIs
  <2> HIDE DEF q, more, new, F
  <2>2. more \in Seq(Rows \cup Objects) /\ Len(more) = Len(rows) + 1 /\ DOMAIN more = 1..Len(more)
    BY <2>1, <1>1, <1>2
  <2>3. /\ more[Len(rows) + 1] = new
        /\ \A i \in 1..Len(rows) : more[i] = rows[i]
    BY <2>1, <1>1, <1>2
  <2>4. \A i \in 1..Len(more) : i # q => i \in 1..Len(rows) /\ more[i] = rows[i]
    BY <2>1, <2>2, <2>3, <1>1
  <2>5. q \in 1..Len(more) /\ q \notin 1..Len(rows) /\ Len(rows) <= Len(more)
    BY <2>1, <2>2, <1>1
  <2> QED BY <2>1, <2>2, <2>3, <2>4, <2>5, <1>3 DEF q, more, new, F
<1>4. CASE F # {}
  <2>1. /\ q \in 1..Len(rows) /\ rows[q] = OldRow(rows, s) /\ F = {q}
        /\ more = [i \in DOMAIN rows |-> IF i \in F THEN new ELSE rows[i]]
    BY <1>4, OldRowIs, AppendedIs
  <2> HIDE DEF q, more, new, F
  <2>2. \A i \in 1..Len(rows) : more[i] \in Rows \cup Objects /\ more[i] = IF i = q THEN new ELSE rows[i]
    BY <2>1, <1>1, <1>2
  <2>3. more \in [1..Len(rows) -> Rows \cup Objects]
    BY <2>1, <2>2, <1>1
  <2>4. more \in Seq(Rows \cup Objects) /\ Len(more) = Len(rows) /\ DOMAIN more = 1..Len(more)
    BY <2>3, <1>1
  <2> QED BY <2>1, <2>2, <2>4, <1>1, <1>4 DEF q, more, new, F
<1> QED BY <1>3, <1>4

LEMMA AppendedWellFormed ==
    ASSUME NEW rows, WellFormed(rows), NEW s \in Objects
    PROVE  WellFormed(Appended(rows, s))
<1> DEFINE q == RowFor(rows, s)
           more == Appended(rows, s)
<1>1. /\ q \in 1..Len(more) /\ more \in Seq(Rows \cup Objects) /\ DOMAIN more = 1..Len(more)
      /\ more[q] = NewRow(rows, s)
      /\ \A i \in 1..Len(more) : i # q => i \in 1..Len(rows) /\ more[i] = rows[i]
      /\ q \in 1..Len(rows) => q \in FoundRow(rows, s)
      /\ q \notin 1..Len(rows) => FoundRow(rows, s) = {}
  BY AppendedRows
<1>2. \A i \in 1..Len(rows) : i \in FoundRow(rows, s) => i = q
  BY OldRowIs
<1>3. /\ \A t \in 1..(NTeams - 1) : more[q].times[t] = 0 => more[q].ranks[t] = 0
      /\ more[q].kind = s.kind /\ more[q].on = s.on /\ more[q].gen = s.gen
  <2>1. \A t \in 1..(NTeams - 1) : NewRow(rows, s).times[t] = 0 => NewRow(rows, s).ranks[t] = 0
    BY NewRowIs
  <2>2. /\ NewRow(rows, s).kind = s.kind /\ NewRow(rows, s).on = s.on /\ NewRow(rows, s).gen = s.gen
    BY DEF NewRow
  <2> HIDE DEF q, more
  <2> QED BY <1>1, <2>1, <2>2
<1>4. DOMAIN rows = 1..Len(rows)
  BY RowsOfLog
<1> HIDE DEF q, more
<1>5. ASSUME NEW i \in DOMAIN more, IsDense(more[i]), NEW t \in 1..(NTeams - 1), more[i].times[t] = 0
      PROVE  more[i].ranks[t] = 0
  <2>1. CASE i = q
    BY <2>1, <1>3, <1>5
  <2>2. CASE i # q
    BY <2>2, <1>1, <1>4, <1>5 DEF WellFormed
  <2> QED BY <2>1, <2>2
<1>6. ASSUME NEW i \in 1..Len(more), i # q, IsDense(more[i]),
             <<more[i].kind, more[i].on, more[i].gen>> = <<s.kind, s.on, s.gen>>
      PROVE  FALSE
  <2>1. i \in 1..Len(rows) /\ more[i] = rows[i]
    BY <1>1, <1>6
  <2>2. i \in FoundRow(rows, s)
    BY <2>1, <1>4, <1>6 DEF FoundRow, RowOf
  <2> QED BY <2>1, <2>2, <1>2, <1>6
<1>7. ASSUME NEW i \in DOMAIN more, NEW j \in DOMAIN more, IsDense(more[i]), IsDense(more[j]),
             <<more[i].kind, more[i].on, more[i].gen>> = <<more[j].kind, more[j].on, more[j].gen>>
      PROVE  i = j
  <2>1. CASE i = q
    BY <2>1, <1>1, <1>3, <1>6, <1>7
  <2>2. CASE j = q
    BY <2>2, <1>1, <1>3, <1>6, <1>7
  <2>3. CASE i # q /\ j # q
    <3>1. i \in DOMAIN rows /\ j \in DOMAIN rows /\ more[i] = rows[i] /\ more[j] = rows[j]
      BY <2>3, <1>1, <1>4
    <3> QED BY <3>1, <1>7 DEF WellFormed
  <2> QED BY <2>1, <2>2, <2>3
<1>8. WellFormed(more)
  BY <1>1, <1>5, <1>7 DEF WellFormed
<1> QED BY <1>8 DEF more

\* The slot is free: nothing that is held says this secret.
Free(rows, s) == \A c \in Cells(rows) : SecretOf(Held(rows, c)) # SecretOf(s)

LEMMA AppendedCells ==
    ASSUME NEW rows, WellFormed(rows), NEW s \in Objects, Free(rows, s)
    PROVE  LET new == <<RowFor(rows, s), Slot(s.by, s.on)>>
               more == Appended(rows, s)
           IN  /\ new \notin Cells(rows) /\ Cells(more) = Cells(rows) \cup {new}
               /\ \A c \in Cells(rows) : Held(more, c) = Held(rows, c) /\ RankOf(more, c) = RankOf(rows, c)
               /\ Held(more, new) = s /\ RankOf(more, new) = NextRank(rows, s.at)
<1> DEFINE q == RowFor(rows, s)
           slot == Slot(s.by, s.on)
           new == <<q, slot>>
           more == Appended(rows, s)
           row == NewRow(rows, s)
           old == OldRow(rows, s)
           base == BaseOf(rows, s)
<1>1. /\ q \in 1..Len(more) /\ DOMAIN more = 1..Len(more) /\ Len(rows) <= Len(more)
      /\ more[q] = row
      /\ \A i \in 1..Len(more) : i # q => i \in 1..Len(rows) /\ more[i] = rows[i]
      /\ q \in 1..Len(rows) => q \in FoundRow(rows, s) /\ rows[q] = old
      /\ q \notin 1..Len(rows) => FoundRow(rows, s) = {}
      /\ Len(more) \in Nat
  BY AppendedRows, AppendedWellFormed, RowsOfLog
<1>2. DOMAIN rows = 1..Len(rows) /\ Len(rows) \in Nat
  BY RowsOfLog
<1>3. /\ s.kind \in Logged /\ s.by \in Roster /\ s.on \in Roster /\ s.by # s.on /\ s.at \in Int
      /\ s = [kind |-> s.kind, by |-> s.by, on |-> s.on, gen |-> s.gen, at |-> s.at]
  BY DEF Objects
<1>4. slot \in 1..(NTeams - 1) /\ slot \in 0..(NTeams - 1) /\ slot # 0 /\ Attacker(slot, s.on) = s.by
  <2>1. slot \in 1..(NTeams - 1) /\ Attacker(slot, s.on) = s.by
    BY <1>3, SlotsOfTeams
  <2> HIDE DEF slot
  <2> QED BY <2>1, HuntBounds
<1>5. /\ row \in Rows /\ IsDense(row) /\ base \in Int /\ base <= s.at /\ base <= old.base
      /\ old \in Rows /\ old.base \in Int /\ old.kind = s.kind /\ old.on = s.on /\ old.gen = s.gen
      /\ \A t \in 1..(NTeams - 1) : old.times[t] \in Nat
  <2>1. row \in Rows /\ base \in Int /\ base <= s.at /\ base <= old.base
    BY NewRowIs
  <2>2. old \in Rows /\ old.kind = s.kind /\ old.on = s.on /\ old.gen = s.gen
    BY OldRowIs
  <2>3. IsDense(row)
    BY <2>1, RowShapes
  <2>4. old.base \in Int /\ \A t \in 1..(NTeams - 1) : old.times[t] \in Nat
    <3> HIDE DEF old
    <3> QED BY <2>2 DEF Rows
  <2> QED BY <2>1, <2>2, <2>3, <2>4
<1>6. /\ row.kind = s.kind /\ row.on = s.on /\ row.gen = s.gen /\ row.base = base
      /\ row.times[slot] = s.at - base + 1 /\ row.ranks[slot] = NextRank(rows, s.at)
      /\ \A t \in 1..(NTeams - 1) : t # slot =>
           /\ row.times[t] = IF old.times[t] = 0 THEN 0 ELSE old.times[t] + old.base - base
           /\ row.ranks[t] = old.ranks[t]
  BY <1>4 DEF NewRow
<1>7. q \notin 1..Len(rows) => \A t \in 1..(NTeams - 1) : old.times[t] = 0
  BY <1>1, OldRowIs
<1>8. q \in 1..Len(rows) => IsDense(rows[q])
  BY <1>1 DEF FoundRow, RowOf
<1> HIDE DEF q, slot, more, row, old, base
<1>9. new[1] = q /\ new[2] = slot
  OBVIOUS
<1>10. new \notin Cells(rows)
  <2> SUFFICES ASSUME new \in Cells(rows) PROVE FALSE
    OBVIOUS
  <2>1. q \in 1..Len(rows)
    BY <1>2, <1>9 DEF Cells
  <2>2. Held(rows, new) = [kind |-> s.kind, by |-> s.by, on |-> s.on, gen |-> s.gen,
                           at |-> old.base + old.times[slot] - 1]
    BY <2>1, <1>1, <1>4, <1>5, <1>8, <1>9 DEF Held, Success
  <2>3. SecretOf(Held(rows, new)) = SecretOf(s)
    BY <2>2 DEF SecretOf
  <2> QED BY <2>3 DEF Free
<1>11. old.times[slot] = 0
  <2>1. CASE q \in 1..Len(rows)
    <3>1. new \in (DOMAIN rows) \X (0..(NTeams - 1))
      BY <2>1, <1>2, <1>4
    <3>2. IsDense(rows[new[1]]) /\ new[2] # 0 /\ rows[new[1]] = old
      BY <2>1, <1>1, <1>4, <1>8, <1>9
    <3> HIDE DEF new
    <3> QED BY <3>1, <3>2, <1>9, <1>10 DEF Cells
  <2>2. CASE q \notin 1..Len(rows)
    BY <2>2, <1>4, <1>7
  <2> QED BY <2>1, <2>2
\* A cell of another row, a cell of the row, and the new one.
<1>12. ASSUME NEW i \in 1..Len(rows), NEW t \in 0..(NTeams - 1), i # q
       PROVE  /\ <<i, t>> \in Cells(more) <=> <<i, t>> \in Cells(rows)
              /\ Held(more, <<i, t>>) = Held(rows, <<i, t>>)
              /\ RankOf(more, <<i, t>>) = RankOf(rows, <<i, t>>)
  <2>1. more[i] = rows[i] /\ i \in DOMAIN more /\ i \in DOMAIN rows
    BY <1>1, <1>2, <1>12
  <2> QED BY <2>1 DEF Cells, Held, RankOf
<1>13. ASSUME NEW t \in 1..(NTeams - 1), t # slot
       PROVE  /\ <<q, t>> \in Cells(more) <=> old.times[t] # 0
              /\ old.times[t] # 0 => q \in 1..Len(rows) /\ <<q, t>> \in Cells(rows)
              /\ <<q, t>> \in Cells(rows) => old.times[t] # 0
              /\ old.times[t] # 0 => /\ Held(more, <<q, t>>) = Held(rows, <<q, t>>)
                                     /\ RankOf(more, <<q, t>>) = RankOf(rows, <<q, t>>)
  <2>1. t \in 0..(NTeams - 1) /\ t # 0 /\ old.times[t] \in Nat
    BY <1>5, HuntBounds
  <2>2. row.times[t] # 0 <=> old.times[t] # 0
    BY <2>1, <1>5, <1>6, <1>13
  <2>3. <<q, t>> \in Cells(more) <=> old.times[t] # 0
    BY <2>1, <2>2, <1>1, <1>5 DEF Cells
  <2>4. old.times[t] # 0 => q \in 1..Len(rows) /\ <<q, t>> \in Cells(rows)
    BY <2>1, <1>1, <1>2, <1>7, <1>8 DEF Cells
  <2>5. <<q, t>> \in Cells(rows) => old.times[t] # 0
    BY <2>1, <1>1, <1>2, <1>8 DEF Cells
  <2>6. ASSUME old.times[t] # 0
        PROVE  /\ Held(more, <<q, t>>) = Held(rows, <<q, t>>)
               /\ RankOf(more, <<q, t>>) = RankOf(rows, <<q, t>>)
    <3>1. q \in 1..Len(rows) /\ rows[q] = old /\ IsDense(old) /\ more[q] = row /\ IsDense(row)
      BY <2>4, <2>6, <1>1, <1>5, <1>8
    <3>2. row.base + row.times[t] - 1 = old.base + old.times[t] - 1
      BY <2>1, <2>6, <1>5, <1>6, <1>13
    <3>3. row.ranks[t] = old.ranks[t]
      BY <1>6, <1>13
    <3> QED BY <3>1, <3>2, <3>3, <1>5, <1>6 DEF Held, RankOf
  <2> QED BY <2>3, <2>4, <2>5, <2>6
<1>14. /\ new \in Cells(more) /\ Held(more, new) = s /\ RankOf(more, new) = NextRank(rows, s.at)
  <2>1. row.times[slot] # 0
    BY <1>3, <1>5, <1>6
  <2>2. row.base + row.times[slot] - 1 = s.at
    BY <1>3, <1>5, <1>6
  <2>3. new \in Cells(more)
    BY <2>1, <1>1, <1>4, <1>5 DEF Cells
  <2>4. Held(more, new) = Success(s.kind, s.by, s.on, s.gen, s.at)
    BY <2>2, <1>1, <1>4, <1>5, <1>6, <1>9 DEF Held
  <2>5. RankOf(more, new) = NextRank(rows, s.at)
    BY <1>1, <1>5, <1>6, <1>9 DEF RankOf
  <2> QED BY <2>3, <2>4, <2>5, <1>3 DEF Success
<1>15. ASSUME NEW c \in Cells(rows)
       PROVE  /\ c \in Cells(more) /\ Held(more, c) = Held(rows, c) /\ RankOf(more, c) = RankOf(rows, c)
  <2>1. c[1] \in 1..Len(rows) /\ c[2] \in 0..(NTeams - 1) /\ c = <<c[1], c[2]>>
    BY CellTypes
  <2>2. CASE c[1] # q
    BY <2>1, <2>2, <1>12
  <2>3. CASE c[1] = q
    <3>1. c[2] # 0 /\ c[2] # slot
      BY <2>1, <2>3, <1>8, <1>9, <1>10 DEF Cells
    <3>2. c[2] \in 1..(NTeams - 1)
      BY <2>1, <3>1, HuntBounds
    <3>3. c = <<q, c[2]>>
      BY <2>1, <2>3
    <3> QED BY <3>1, <3>2, <3>3, <1>13
  <2> QED BY <2>2, <2>3
<1>16. ASSUME NEW c \in Cells(more) PROVE c \in Cells(rows) \cup {new}
  <2>1. c[1] \in 1..Len(more) /\ c[2] \in 0..(NTeams - 1) /\ c = <<c[1], c[2]>>
    BY CellTypes, AppendedWellFormed DEF more
  <2>2. CASE c[1] # q
    BY <2>1, <2>2, <1>1, <1>12
  <2>3. CASE c[1] = q
    <3>1. c[2] # 0
      BY <2>3, <1>1, <1>5 DEF Cells
    <3>2. c[2] \in 1..(NTeams - 1)
      BY <2>1, <3>1, HuntBounds
    <3>3. c = <<q, c[2]>>
      BY <2>1, <2>3
    <3> QED BY <3>2, <3>3, <1>13
  <2> QED BY <2>2, <2>3
<1> HIDE DEF new
<1>17. Cells(more) = Cells(rows) \cup {new}
  BY <1>14, <1>15, <1>16
<1> QED BY <1>10, <1>14, <1>15, <1>17 DEF new, q, slot, more

\* A success that nothing precedes in time is read last.
LEMMA AppendedReads ==
    ASSUME NEW rows, WellFormed(rows), NEW s \in Objects, Free(rows, s),
           \A c \in Cells(rows) : Held(rows, c).at <= s.at
    PROVE  Decoded(Appended(rows, s)) = Append(Decoded(rows), s)
<1> DEFINE new == <<RowFor(rows, s), Slot(s.by, s.on)>>
           more == Appended(rows, s)
           N == Cardinality(Cells(rows))
<1>1. WellFormed(more)
  BY AppendedWellFormed
<1>2. /\ new \notin Cells(rows) /\ Cells(more) = Cells(rows) \cup {new}
      /\ \A c \in Cells(rows) : Held(more, c) = Held(rows, c) /\ RankOf(more, c) = RankOf(rows, c)
      /\ Held(more, new) = s /\ RankOf(more, new) = NextRank(rows, s.at)
  BY AppendedCells
<1> HIDE DEF new, more
<1>3. /\ \A c \in Cells(rows) : Held(rows, c).at \in Int /\ RankOf(rows, c) \in Nat
      /\ s.at \in Int /\ NextRank(rows, s.at) \in Nat
      /\ \A c \in Cells(rows) : Held(rows, c).at = s.at => RankOf(rows, c) < NextRank(rows, s.at)
  <2>1. \A c \in Cells(rows) : Held(rows, c) \in Objects /\ RankOf(rows, c) \in Nat
    BY CellTypes
  <2>2. \A o \in Objects : o.at \in Int
    BY DEF Objects
  <2> QED BY <2>1, <2>2, NextRankIs
<1>4. ASSUME NEW c \in Cells(rows), NEW d \in Cells(rows)
      PROVE  Earlier(more, c, d) <=> Earlier(rows, c, d)
  <2>1. c \in Cells(more) /\ d \in Cells(more)
    BY <1>2
  <2>2. /\ Held(more, c) = Held(rows, c) /\ RankOf(more, c) = RankOf(rows, c)
        /\ Held(more, d) = Held(rows, d) /\ RankOf(more, d) = RankOf(rows, d)
    BY <1>2
  <2>3. Earlier(rows, c, d) <=>
             \/ Held(rows, c).at < Held(rows, d).at
             \/ /\ Held(rows, c).at = Held(rows, d).at
                /\ \/ RankOf(rows, c) < RankOf(rows, d)
                   \/ RankOf(rows, c) = RankOf(rows, d) /\ c[1] < d[1]
                   \/ RankOf(rows, c) = RankOf(rows, d) /\ c[1] = d[1] /\ c[2] < d[2]
    BY EarlierIs
  <2>4. Earlier(more, c, d) <=>
             \/ Held(more, c).at < Held(more, d).at
             \/ /\ Held(more, c).at = Held(more, d).at
                /\ \/ RankOf(more, c) < RankOf(more, d)
                   \/ RankOf(more, c) = RankOf(more, d) /\ c[1] < d[1]
                   \/ RankOf(more, c) = RankOf(more, d) /\ c[1] = d[1] /\ c[2] < d[2]
    BY <1>1, <2>1, EarlierIs
  <2> QED BY <2>2, <2>3, <2>4
<1>5. ASSUME NEW c \in Cells(rows) PROVE Earlier(more, c, new) /\ ~Earlier(more, new, c)
  <2>1. c \in Cells(more) /\ new \in Cells(more)
    BY <1>2
  <2>2. /\ Held(more, c).at \in Int /\ RankOf(more, c) \in Int /\ Held(more, new).at \in Int
        /\ RankOf(more, new) \in Int /\ Held(more, c).at <= Held(more, new).at
        /\ Held(more, c).at = Held(more, new).at => RankOf(more, c) < RankOf(more, new)
    BY <1>2, <1>3
  <2>3. Earlier(more, c, new)
    BY <1>1, <2>1, <2>2, EarlierIs
  <2>4. ~Earlier(more, new, c)
    BY <1>1, <2>1, <2>2, EarlierIs
  <2> QED BY <2>3, <2>4
<1>6. ~Earlier(more, new, new)
  <2>1. new \in Cells(more) /\ Ordered(Cells(more), Sorting(more))
    BY <1>1, <1>2, EarlierOrders
  <2>2. <<new, new>> \notin Sorting(more)
    BY <2>1 DEF Ordered
  <2> QED BY <2>1, <2>2 DEF Sorting
<1>7. \A c \in Cells(rows) : Before(more, c) = Before(rows, c)
  BY <1>2, <1>4, <1>5 DEF Before
<1>8. Before(more, new) = Cells(rows)
  BY <1>2, <1>5, <1>6 DEF Before
<1>9. \A c \in Cells(rows) : PlaceOf(more, c) = PlaceOf(rows, c)
  BY <1>7 DEF PlaceOf
<1>10. PlaceOf(more, new) = N + 1
  BY <1>8 DEF PlaceOf
<1>11. N \in Nat /\ Cardinality(Cells(more)) = N + 1
  BY <1>2, CellsFinite, FS_AddElement
<1>12. /\ Decoded(rows) \in Seq(Objects) /\ Len(Decoded(rows)) = N
       /\ Decoded(more) \in Seq(Objects) /\ Len(Decoded(more)) = N + 1
  BY <1>1, <1>11, Reading
<1>13. ASSUME NEW n \in 1..N PROVE Decoded(more)[n] = Decoded(rows)[n]
  <2>1. PICK c \in Cells(rows) : PlaceOf(rows, c) = n
    BY Reading
  <2>2. Decoded(rows)[n] = Held(rows, c)
    BY <2>1, Reading
  <2>3. Decoded(more)[PlaceOf(more, c)] = Held(more, c)
    BY <1>1, <1>2, Reading
  <2> QED BY <2>1, <2>2, <2>3, <1>2, <1>9
<1>14. Decoded(more)[N + 1] = s
  <2>1. new \in Cells(more)
    BY <1>2
  <2>2. Decoded(more)[PlaceOf(more, new)] = Held(more, new)
    BY <2>1, <1>1, Reading
  <2> QED BY <2>2, <1>2, <1>10
<1> HIDE DEF N
<1>15. Append(Decoded(rows), s) \in Seq(Objects) /\ Len(Append(Decoded(rows), s)) = N + 1
  BY <1>11, <1>12
<1>16. \A n \in 1..(N + 1) : Append(Decoded(rows), s)[n] = Decoded(more)[n]
  BY <1>11, <1>12, <1>13, <1>14
<1>17. Decoded(more) = Append(Decoded(rows), s)
  BY <1>12, <1>15, <1>16, SeqEqual
<1> QED BY <1>17 DEF more

-----------------------------------------------------------------------------
(* An upgrade of the log.                                                   *)

\* The rows of the first n that are grouped.
DenseOf(r, rows, n) ==
    /\ WellFormed(r)
    /\ \A j \in DOMAIN r : \E i \in 1..n : r[j] = rows[i] /\ IsDense(rows[i])

LEMMA DenseAppends ==
    ASSUME NEW rows, WellFormed(rows), NEW n \in Nat, n + 1 <= Len(rows), NEW r, DenseOf(r, rows, n),
           IsDense(rows[n + 1])
    PROVE  DenseOf(Append(r, rows[n + 1]), rows, n + 1)
<1> DEFINE row == rows[n + 1]
           more == Append(r, row)
<1>1. /\ n + 1 \in DOMAIN rows /\ row \in Rows /\ DOMAIN rows = 1..Len(rows) /\ Len(rows) \in Nat
  BY RowsOfLog
<1>2. r \in Seq(Rows \cup Objects) /\ Len(r) \in Nat /\ DOMAIN r = 1..Len(r)
  BY RowsOfLog DEF DenseOf, WellFormed
<1>3. /\ more \in Seq(Rows \cup Objects) /\ DOMAIN more = 1..(Len(r) + 1)
      /\ more[Len(r) + 1] = row /\ \A j \in 1..Len(r) : more[j] = r[j]
  <2> HIDE DEF row
  <2> QED BY <1>1, <1>2
<1>4. ASSUME NEW j \in DOMAIN r, IsDense(r[j])
      PROVE  <<r[j].kind, r[j].on, r[j].gen>> # <<row.kind, row.on, row.gen>>
  <2>1. PICK i \in 1..n : r[j] = rows[i] /\ IsDense(rows[i])
    BY DEF DenseOf
  <2>2. i \in DOMAIN rows /\ i # n + 1
    BY <1>1
  <2> QED BY <2>1, <2>2, <1>1 DEF WellFormed
<1> HIDE DEF more
<1>5. ASSUME NEW j \in DOMAIN more, IsDense(more[j]), NEW t \in 1..(NTeams - 1), more[j].times[t] = 0
      PROVE  more[j].ranks[t] = 0
  <2>1. CASE j \in DOMAIN r
    BY <2>1, <1>2, <1>3, <1>5 DEF DenseOf, WellFormed
  <2>2. CASE j = Len(r) + 1
    BY <2>2, <1>1, <1>3, <1>5 DEF WellFormed
  <2> QED BY <2>1, <2>2, <1>2, <1>3
<1> HIDE DEF row
<1>6. ASSUME NEW i \in DOMAIN more, NEW j \in DOMAIN more, IsDense(more[i]), IsDense(more[j]),
             <<more[i].kind, more[i].on, more[i].gen>> = <<more[j].kind, more[j].on, more[j].gen>>
      PROVE  i = j
  <2>1. CASE i \in DOMAIN r /\ j \in DOMAIN r
    BY <2>1, <1>2, <1>3, <1>6 DEF DenseOf, WellFormed
  <2>2. CASE i \in DOMAIN r /\ j = Len(r) + 1
    BY <2>2, <1>2, <1>3, <1>4, <1>6
  <2>3. CASE i = Len(r) + 1 /\ j \in DOMAIN r
    BY <2>3, <1>2, <1>3, <1>4, <1>6
  <2> QED BY <2>1, <2>2, <2>3, <1>2, <1>3
<1>7. WellFormed(more)
  BY <1>3, <1>5, <1>6 DEF WellFormed
<1>8. ASSUME NEW j \in DOMAIN more PROVE \E i \in 1..(n + 1) : more[j] = rows[i] /\ IsDense(rows[i])
  <2>1. CASE j \in DOMAIN r
    <3>1. PICK i \in 1..n : r[j] = rows[i] /\ IsDense(rows[i])
      BY <2>1 DEF DenseOf
    <3>2. i \in 1..(n + 1) /\ more[j] = r[j]
      BY <2>1, <1>2, <1>3
    <3> QED BY <3>1, <3>2
  <2>2. CASE j = Len(r) + 1
    <3>1. n + 1 \in 1..(n + 1)
      OBVIOUS
    <3> QED BY <2>2, <3>1, <1>3 DEF row
  <2> QED BY <2>1, <2>2, <1>2, <1>3
<1> QED BY <1>7, <1>8 DEF DenseOf, more, row

LEMMA EmptyLog == WellFormed(<<>>) /\ Cells(<<>>) = {} /\ Decoded(<<>>) = <<>>
<1>1. DOMAIN <<>> = {} /\ <<>> \in Seq(Rows \cup Objects)
  <2>1. Len(<<>>) = 0 /\ <<>> \in Seq(Rows \cup Objects)
    BY EmptySeq
  <2> QED BY <2>1
<1>2. WellFormed(<<>>)
  BY <1>1 DEF WellFormed
<1>3. Cells(<<>>) = {}
  BY <1>1 DEF Cells
<1>4. Decoded(<<>>) = <<>>
  <2>1. Decoded(<<>>) \in Seq(Objects) /\ Len(Decoded(<<>>)) = 0
    BY <1>2, <1>3, Reading, FS_EmptySet
  <2> QED BY <2>1, EmptySeq
<1> QED BY <1>2, <1>3, <1>4

LEMMA CompactedWellFormed ==
    ASSUME NEW rows, WellFormed(rows)
    PROVE  WellFormed(Compacted(rows))
<1> DEFINE L == Len(rows)
           X == Seq(Rows \cup Objects)
           Y == {r \in X : WellFormed(r)}
           Dense(f) == f = [n \in 0..L |-> IF n = 0 THEN <<>>
                                ELSE IF IsDense(rows[n]) THEN Append(f[n - 1], rows[n]) ELSE f[n - 1]]
           dense == CHOOSE f : Dense(f)
           Whole(f) == f = [n \in 0..L |-> IF n = 0 THEN dense[L]
                                ELSE IF IsDense(rows[n]) THEN f[n - 1] ELSE Appended(f[n - 1], rows[n])]
           whole == CHOOSE f : Whole(f)
           D == [n \in Nat |-> [r \in X |-> IF n \in 1..L /\ IsDense(rows[n]) THEN Append(r, rows[n]) ELSE r]]
           W == [n \in Nat |-> [r \in Y |-> IF n \in 1..L /\ ~IsDense(rows[n]) THEN Appended(r, rows[n])
                                            ELSE r]]
<1>1. /\ L \in Nat
      /\ \A i \in 1..L : rows[i] \in Rows \cup Objects
      /\ \A i \in 1..L : ~IsDense(rows[i]) => rows[i] \in Objects
  BY RowsOfLog
<1>2. Compacted(rows) = whole[L]
  BY DEF Compacted
<1>3. D \in [Nat -> [X -> X]]
  <2>1. ASSUME NEW n \in Nat, NEW r \in X
        PROVE  (IF n \in 1..L /\ IsDense(rows[n]) THEN Append(r, rows[n]) ELSE r) \in X
    BY <1>1
  <2> QED BY <2>1
<1>4. <<>> \in X /\ <<>> \in Y
  BY EmptyLog DEF WellFormed
<1>5. \A n \in 1..L, r \in X : D[n][r] = IF IsDense(rows[n]) THEN Append(r, rows[n]) ELSE r
  BY <1>1
<1>6. W \in [Nat -> [Y -> Y]]
  <2>1. ASSUME NEW n \in Nat, NEW r \in Y
        PROVE  (IF n \in 1..L /\ ~IsDense(rows[n]) THEN Appended(r, rows[n]) ELSE r) \in Y
    <3>1. CASE n \in 1..L /\ ~IsDense(rows[n])
      <4>1. WellFormed(Appended(r, rows[n]))
        BY <3>1, <1>1, AppendedWellFormed
      <4> QED BY <3>1, <4>1 DEF WellFormed
    <3>2. CASE ~(n \in 1..L /\ ~IsDense(rows[n]))
      BY <3>2
    <3> QED BY <3>1, <3>2
  <2> QED BY <2>1
<1>7. \A n \in 1..L, r \in Y : W[n][r] = IF IsDense(rows[n]) THEN r ELSE Appended(r, rows[n])
  BY <1>1
<1> HIDE DEF D, W, X, Y, L
<1>8. Dense(dense)
  <2>1. PICK f : Walks(f, X, <<>>, D, L)
    BY <1>1, <1>3, <1>4, WalksExist
  <2>2. \A n \in 0..L : f[n] = IF n = 0 THEN <<>>
                               ELSE IF IsDense(rows[n]) THEN Append(f[n - 1], rows[n]) ELSE f[n - 1]
    <3> TAKE n \in 0..L
    <3>1. CASE n = 0
      BY <2>1, <3>1 DEF Walks
    <3>2. CASE n # 0
      <4>1. n \in 1..L /\ n - 1 \in 0..L
        BY <3>2, <1>1
      <4>2. f[n - 1] \in X /\ f[n] = D[n][f[n - 1]]
        BY <2>1, <4>1 DEF Walks
      <4> QED BY <3>2, <4>1, <4>2, <1>5
    <3> QED BY <3>1, <3>2
  <2>3. DOMAIN f = 0..L /\ f = [n \in 0..L |-> f[n]]
    BY <2>1 DEF Walks
  <2>4. Dense(f)
    BY <2>2, <2>3
  <2> HIDE DEF Dense
  <2> QED BY <2>4
<1>9. dense[L] \in Y
  <2> DEFINE T == {n \in Nat : n <= L => DenseOf(dense[n], rows, n)}
  <2>1. 0 \in T
    <3>1. dense[0] = <<>>
      <4> HIDE DEF dense
      <4> QED BY <1>1, <1>8
    <3>2. DenseOf(<<>>, rows, 0)
      BY EmptyLog DEF DenseOf
    <3> HIDE DEF dense
    <3> QED BY <3>1, <3>2
  <2>2. ASSUME NEW n \in T PROVE n + 1 \in T
    <3> SUFFICES ASSUME n + 1 <= L PROVE DenseOf(dense[n + 1], rows, n + 1)
      OBVIOUS
    <3>1. n \in Nat /\ n <= L /\ n + 1 \in 0..L /\ n + 1 # 0 /\ (n + 1) - 1 = n
      BY <1>1
    <3>2. DenseOf(dense[n], rows, n)
      BY <3>1
    <3> HIDE DEF dense, T
    <3>3. dense[n + 1] = IF IsDense(rows[n + 1]) THEN Append(dense[n], rows[n + 1]) ELSE dense[n]
      BY <3>1, <1>8
    <3>4. CASE IsDense(rows[n + 1])
      BY <3>1, <3>2, <3>3, <3>4, DenseAppends DEF L
    <3>5. CASE ~IsDense(rows[n + 1])
      <4>1. dense[n + 1] = dense[n]
        BY <3>3, <3>5
      <4>2. \A i \in 1..n : i \in 1..(n + 1)
        BY <3>1
      <4> QED BY <3>2, <4>1, <4>2 DEF DenseOf
    <3> QED BY <3>4, <3>5
  <2>3. T \in SUBSET Nat
    OBVIOUS
  <2> HIDE DEF T
  <2>4. T = Nat
    BY <2>1, <2>2, <2>3, NatSteps
  <2>5. WellFormed(dense[L])
    BY <2>4, <1>1 DEF T, DenseOf
  <2> QED BY <2>5 DEF Y, X, WellFormed
<1> HIDE DEF dense
<1>10. Whole(whole)
  <2>1. PICK f : Walks(f, Y, dense[L], W, L)
    BY <1>1, <1>6, <1>9, WalksExist
  <2>2. \A n \in 0..L : f[n] = IF n = 0 THEN dense[L]
                               ELSE IF IsDense(rows[n]) THEN f[n - 1] ELSE Appended(f[n - 1], rows[n])
    <3> TAKE n \in 0..L
    <3>1. CASE n = 0
      BY <2>1, <3>1 DEF Walks
    <3>2. CASE n # 0
      <4>1. n \in 1..L /\ n - 1 \in 0..L
        BY <3>2, <1>1
      <4>2. f[n - 1] \in Y /\ f[n] = W[n][f[n - 1]]
        BY <2>1, <4>1 DEF Walks
      <4> QED BY <3>2, <4>1, <4>2, <1>7
    <3> QED BY <3>1, <3>2
  <2>3. DOMAIN f = 0..L /\ f = [n \in 0..L |-> f[n]]
    BY <2>1 DEF Walks
  <2>4. Whole(f)
    BY <2>2, <2>3
  <2> HIDE DEF Whole
  <2> QED BY <2>4
<1>11. whole[L] \in Y
  <2> DEFINE T == {n \in Nat : n <= L => whole[n] \in Y}
  <2>1. 0 \in T
    <3>1. whole[0] = dense[L]
      <4> HIDE DEF whole
      <4> QED BY <1>1, <1>10
    <3> HIDE DEF whole
    <3> QED BY <3>1, <1>9
  <2>2. ASSUME NEW n \in T PROVE n + 1 \in T
    <3> SUFFICES ASSUME n + 1 <= L PROVE whole[n + 1] \in Y
      OBVIOUS
    <3>1. n \in Nat /\ n <= L /\ n + 1 \in 0..L /\ n + 1 \in 1..L /\ n + 1 # 0 /\ (n + 1) - 1 = n
      BY <1>1
    <3>2. whole[n] \in Y
      BY <3>1
    <3> HIDE DEF whole, T
    <3>3. whole[n + 1] = IF IsDense(rows[n + 1]) THEN whole[n] ELSE Appended(whole[n], rows[n + 1])
      BY <3>1, <1>10
    <3>4. whole[n + 1] = W[n + 1][whole[n]]
      BY <3>1, <3>2, <3>3, <1>7
    <3> QED BY <3>1, <3>2, <3>4, <1>6
  <2>3. T \in SUBSET Nat
    OBVIOUS
  <2> HIDE DEF T
  <2>4. T = Nat
    BY <2>1, <2>2, <2>3, NatSteps
  <2> QED BY <2>4, <1>1 DEF T
<1> HIDE DEF whole
<1> QED BY <1>2, <1>11 DEF Y

LEMMA KeptReads ==
    ASSUME NEW rows, WellFormed(rows)
    PROVE  WellFormed(Kept(rows)) /\ Decoded(Kept(rows)) = Decoded(rows)
BY CompactedWellFormed DEF Kept

-----------------------------------------------------------------------------
(* What the log says of what was won.                                      *)

LEMMA GreaterIs ==
    ASSUME NEW a \in Int, NEW b \in Int
    PROVE  Max({a, b}) \in {a, b} /\ Max({a, b}) >= a /\ Max({a, b}) >= b
<1>1. \E x \in {a, b} : \A y \in {a, b} : x >= y
  <2>1. CASE a <= b
    BY <2>1
  <2>2. CASE ~(a <= b)
    BY <2>2
  <2> QED BY <2>1, <2>2
<1>2. Max({a, b}) \in {a, b} /\ \A y \in {a, b} : Max({a, b}) >= y
  BY <1>1 DEF Max
<1> QED BY <1>2

LEMMA ClampedType == \A x \in Int : Clamped(x) \in Nat
<1> SUFFICES ASSUME NEW x \in Int PROVE Clamped(x) \in Nat
  OBVIOUS
<1>1. Max({0, x}) \in {0, x} /\ Max({0, x}) >= 0
  BY GreaterIs
<1> QED BY <1>1 DEF Clamped

\* What the log says of a secret is what it holds.
LEMMA RecordedIs ==
    ASSUME WellFormed(huntLog), NEW kind, NEW by \in Roster, NEW on \in Roster, by # on, NEW g
    PROVE  Recorded(kind, by, on, g) <=>
             \E c \in Cells(huntLog) : SecretOf(Held(huntLog, c)) = <<kind, by, on, g>>
<1>1. DOMAIN huntLog = 1..Len(huntLog)
  BY RowsOfLog
<1>2. 0 \in 0..(NTeams - 1) /\ \A slot \in 1..(NTeams - 1) : slot \in 0..(NTeams - 1) /\ slot # 0
  BY HuntBounds
<1>3. ASSUME NEW i \in DOMAIN huntLog, ~IsDense(huntLog[i]),
             <<huntLog[i].kind, huntLog[i].by, huntLog[i].on, huntLog[i].gen>> = <<kind, by, on, g>>
      PROVE  \E c \in Cells(huntLog) : SecretOf(Held(huntLog, c)) = <<kind, by, on, g>>
  <2>1. <<i, 0>> \in Cells(huntLog)
    BY <1>2, <1>3 DEF Cells
  <2>2. Held(huntLog, <<i, 0>>) = huntLog[i]
    BY <1>3 DEF Held
  <2> QED BY <2>1, <2>2, <1>3 DEF SecretOf
<1>4. ASSUME NEW i \in RowOf(huntLog, kind, on, g), huntLog[i].times[Slot(by, on)] # 0
      PROVE  \E c \in Cells(huntLog) : SecretOf(Held(huntLog, c)) = <<kind, by, on, g>>
  <2> DEFINE slot == Slot(by, on)
  <2>1. slot \in 1..(NTeams - 1) /\ Attacker(slot, on) = by
    BY SlotsOfTeams
  <2>2. /\ i \in DOMAIN huntLog /\ IsDense(huntLog[i]) /\ huntLog[i].kind = kind
        /\ huntLog[i].on = on /\ huntLog[i].gen = g
    BY DEF RowOf
  <2>3. huntLog[i].times[slot] # 0
    BY <1>4
  <2> HIDE DEF slot
  <2>4. <<i, slot>> \in Cells(huntLog)
    BY <2>1, <2>2, <2>3, <1>2 DEF Cells
  <2>5. SecretOf(Held(huntLog, <<i, slot>>)) = <<kind, by, on, g>>
    BY <2>1, <2>2 DEF Held, SecretOf, Success
  <2> QED BY <2>4, <2>5
<1>5. ASSUME NEW c \in Cells(huntLog), SecretOf(Held(huntLog, c)) = <<kind, by, on, g>>
      PROVE  Recorded(kind, by, on, g)
  <2> DEFINE row == huntLog[c[1]]
  <2>1. c[1] \in DOMAIN huntLog /\ c[2] \in 0..(NTeams - 1)
    BY <1>1, CellTypes
  <2>2. CASE IsDense(row)
    <3>1. c[2] # 0 /\ row.times[c[2]] # 0
      BY <2>2 DEF Cells
    <3>2. c[2] \in 1..(NTeams - 1)
      BY <3>1, <2>1, HuntBounds
    <3>3. row.kind = kind /\ Attacker(c[2], row.on) = by /\ row.on = on /\ row.gen = g
      BY <1>5, <2>2 DEF Held, SecretOf, Success
    <3>4. Slot(by, on) = c[2]
      BY <3>2, <3>3, SlotsOfTeams
    <3>5. c[1] \in RowOf(huntLog, kind, on, g)
      BY <2>1, <2>2, <3>3 DEF RowOf
    <3> QED BY <3>1, <3>4, <3>5 DEF Recorded
  <2>3. CASE ~IsDense(row)
    <3>1. Held(huntLog, c) = row
      BY <2>3 DEF Held
    <3>2. <<row.kind, row.by, row.on, row.gen>> = <<kind, by, on, g>>
      BY <3>1, <1>5 DEF SecretOf
    <3> QED BY <2>1, <2>3, <3>2 DEF Recorded
  <2> QED BY <2>2, <2>3
<1>6. Recorded(kind, by, on, g) => \E c \in Cells(huntLog) : SecretOf(Held(huntLog, c)) = <<kind, by, on, g>>
  <2> SUFFICES ASSUME Recorded(kind, by, on, g)
               PROVE  \E c \in Cells(huntLog) : SecretOf(Held(huntLog, c)) = <<kind, by, on, g>>
    OBVIOUS
  <2>1. CASE \E i \in DOMAIN huntLog :
               /\ ~IsDense(huntLog[i])
               /\ <<huntLog[i].kind, huntLog[i].by, huntLog[i].on, huntLog[i].gen>> = <<kind, by, on, g>>
    BY <2>1, <1>3
  <2>2. CASE \E i \in RowOf(huntLog, kind, on, g) : huntLog[i].times[Slot(by, on)] # 0
    BY <2>2, <1>4
  <2> QED BY <2>1, <2>2 DEF Recorded
<1> QED BY <1>5, <1>6

-----------------------------------------------------------------------------
(* The log and the successes.                                               *)

Wins == {s \in [kind : Kinds, by : Roster, on : Roster, gen : Nat \ {0}, at : Int] : s.by # s.on}

LoggedAt(w) == {i \in DOMAIN w : w[i].kind \in Logged}
Upto(w, i) == {j \in LoggedAt(w) : j <= i}

Replays(rows, w) ==
    /\ Len(Decoded(rows)) = Cardinality(LoggedAt(w))
    /\ \A i \in LoggedAt(w) : Decoded(rows)[Cardinality(Upto(w, i))] = w[i]

LEMMA ReplayExactIs == ReplayExact <=> Replays(huntLog, won)
BY DEF ReplayExact, Replays, Upto, LoggedAt

LEMMA ObjectsWin == Objects \subseteq Wins /\ \A s \in Wins : s.kind \in Logged => s \in Objects
<1>1. \A k \in Logged : k \in Kinds
  BY DEF Kinds
<1> QED BY <1>1 DEF Objects, Wins

\* The logged successes of a sequence, counted.
LEMMA LoggedCounts ==
    ASSUME NEW w \in Seq(Wins)
    PROVE  /\ IsFiniteSet(LoggedAt(w)) /\ Cardinality(LoggedAt(w)) \in Nat
           /\ \A i \in LoggedAt(w) : Cardinality(Upto(w, i)) \in 1..Cardinality(LoggedAt(w))
           /\ \A n \in 1..Cardinality(LoggedAt(w)) : \E i \in LoggedAt(w) : Cardinality(Upto(w, i)) = n
<1> DEFINE S == LoggedAt(w)
           R == {p \in S \X S : p[1] < p[2]}
           N == Cardinality(S)
<1>1. S \in SUBSET (1..Len(w)) /\ Len(w) \in Nat
  BY DEF LoggedAt
<1>2. IsFiniteSet(S) /\ N \in Nat
  <2>1. Len(w) \in Int
    BY <1>1
  <2>2. IsFiniteSet(1..Len(w))
    BY <2>1, FS_Interval
  <2> HIDE DEF S
  <2>3. IsFiniteSet(S)
    BY <1>1, <2>2, FS_Subset
  <2> QED BY <2>3, FS_CardinalityType
<1>3. \A i, j \in S : i \in Int /\ j \in Int /\ (<<i, j>> \in R <=> i < j)
  BY <1>1
<1> HIDE DEF S, R
<1>4. Ordered(S, R)
  BY <1>3 DEF Ordered
<1> HIDE DEF N
<1>5. /\ \A i \in S : Cardinality(Below(S, R, i)) \in 0..(N - 1)
      /\ \A n \in 0..(N - 1) : \E i \in S : Cardinality(Below(S, R, i)) = n
  BY <1>2, <1>4, Ranked DEF N
<1>6. ASSUME NEW i \in S PROVE Cardinality(Upto(w, i)) = Cardinality(Below(S, R, i)) + 1
  <2>1. Upto(w, i) = Below(S, R, i) \cup {i} /\ i \notin Below(S, R, i)
    BY <1>3 DEF Upto, Below, S
  <2>2. IsFiniteSet(Below(S, R, i))
    BY <1>2, FS_Subset DEF Below
  <2> QED BY <2>1, <2>2, FS_AddElement
<1>7. \A i \in S : Cardinality(Upto(w, i)) \in 1..N
  BY <1>2, <1>5, <1>6
<1>8. ASSUME NEW n \in 1..N PROVE \E i \in S : Cardinality(Upto(w, i)) = n
  <2>1. n - 1 \in 0..(N - 1)
    BY <1>2
  <2>2. PICK i \in S : Cardinality(Below(S, R, i)) = n - 1
    BY <2>1, <1>5
  <2> QED BY <2>2, <1>6
<1> QED BY <1>2, <1>7, <1>8 DEF S, N

\* The log holds the logged successes and nothing else.
LEMMA HeldAreWon ==
    ASSUME NEW rows, WellFormed(rows), NEW w \in Seq(Wins), Replays(rows, w)
    PROVE  /\ \A c \in Cells(rows) : \E i \in LoggedAt(w) : w[i] = Held(rows, c)
           /\ \A i \in LoggedAt(w) : \E c \in Cells(rows) : w[i] = Held(rows, c)
<1> DEFINE N == Cardinality(LoggedAt(w))
<1>1. N \in Nat /\ Cardinality(Cells(rows)) = N
  BY LoggedCounts, Reading DEF Replays
<1>2. ASSUME NEW c \in Cells(rows) PROVE \E i \in LoggedAt(w) : w[i] = Held(rows, c)
  <2>1. PlaceOf(rows, c) \in 1..N /\ Decoded(rows)[PlaceOf(rows, c)] = Held(rows, c)
    BY <1>1, Reading
  <2>2. PICK i \in LoggedAt(w) : Cardinality(Upto(w, i)) = PlaceOf(rows, c)
    BY <2>1, LoggedCounts
  <2> QED BY <2>1, <2>2 DEF Replays
<1>3. ASSUME NEW i \in LoggedAt(w) PROVE \E c \in Cells(rows) : w[i] = Held(rows, c)
  <2>1. Cardinality(Upto(w, i)) \in 1..N
    BY LoggedCounts
  <2>2. PICK c \in Cells(rows) : PlaceOf(rows, c) = Cardinality(Upto(w, i))
    BY <2>1, <1>1, Reading
  <2>3. Decoded(rows)[PlaceOf(rows, c)] = Held(rows, c)
    BY Reading
  <2> QED BY <2>2, <2>3 DEF Replays
<1> QED BY <1>2, <1>3

LEMMA OtherWinReplays ==
    ASSUME NEW rows, NEW w \in Seq(Wins), Replays(rows, w), NEW s \in Wins, s.kind \notin Logged
    PROVE  Replays(rows, Append(w, s))
<1> DEFINE v == Append(w, s)
<1>1. Len(w) \in Nat /\ DOMAIN w = 1..Len(w) /\ DOMAIN v = 1..(Len(w) + 1)
  OBVIOUS
<1>2. v[Len(w) + 1] = s /\ \A i \in DOMAIN w : v[i] = w[i]
  OBVIOUS
<1> HIDE DEF v
<1>3. LoggedAt(v) = LoggedAt(w)
  BY <1>1, <1>2 DEF LoggedAt
<1>4. \A i : Upto(v, i) = Upto(w, i)
  BY <1>3 DEF Upto
<1>5. \A i \in LoggedAt(w) : v[i] = w[i]
  BY <1>2 DEF LoggedAt
<1> QED BY <1>3, <1>4, <1>5 DEF Replays, v

LEMMA LoggedWinReplays ==
    ASSUME NEW rows, WellFormed(rows), NEW w \in Seq(Wins), Replays(rows, w), NEW s \in Objects,
           Free(rows, s), \A c \in Cells(rows) : Held(rows, c).at <= s.at
    PROVE  Replays(Appended(rows, s), Append(w, s))
<1> DEFINE v == Append(w, s)
           more == Appended(rows, s)
           N == Cardinality(LoggedAt(w))
<1>1. Len(w) \in Nat /\ DOMAIN w = 1..Len(w) /\ DOMAIN v = 1..(Len(w) + 1)
  OBVIOUS
<1>2. v[Len(w) + 1] = s /\ \A i \in DOMAIN w : v[i] = w[i]
  OBVIOUS
<1>3. s.kind \in Logged
  BY DEF Objects
<1>4. Decoded(more) = Append(Decoded(rows), s)
  BY AppendedReads
<1>5. Decoded(rows) \in Seq(Objects) /\ Len(Decoded(rows)) = N /\ N \in Nat
  BY Reading, LoggedCounts DEF Replays
<1>6. /\ \A i \in LoggedAt(w) : Cardinality(Upto(w, i)) \in 1..N
      /\ IsFiniteSet(LoggedAt(w))
  BY LoggedCounts
<1> HIDE DEF v, more
<1>7. LoggedAt(v) = LoggedAt(w) \cup {Len(w) + 1} /\ Len(w) + 1 \notin LoggedAt(w)
  BY <1>1, <1>2, <1>3 DEF LoggedAt
<1>8. Cardinality(LoggedAt(v)) = N + 1
  BY <1>6, <1>7, FS_AddElement
<1>9. \A i \in LoggedAt(w) : i \in 1..Len(w)
  BY <1>1 DEF LoggedAt
<1>10. \A i \in LoggedAt(w) : Upto(v, i) = Upto(w, i)
  BY <1>1, <1>7, <1>9 DEF Upto
<1>11. Upto(v, Len(w) + 1) = LoggedAt(v)
  BY <1>1, <1>7, <1>9 DEF Upto
<1> HIDE DEF N
<1>12. /\ Len(Decoded(more)) = N + 1 /\ Decoded(more)[N + 1] = s
       /\ \A n \in 1..N : Decoded(more)[n] = Decoded(rows)[n]
  BY <1>4, <1>5
<1>13. ASSUME NEW i \in LoggedAt(v) PROVE Decoded(more)[Cardinality(Upto(v, i))] = v[i]
  <2>1. CASE i \in LoggedAt(w)
    <3>1. Decoded(rows)[Cardinality(Upto(w, i))] = w[i] /\ v[i] = w[i]
      BY <2>1, <1>2 DEF Replays, LoggedAt
    <3> QED BY <2>1, <3>1, <1>6, <1>10, <1>12
  <2>2. CASE i = Len(w) + 1
    BY <2>2, <1>2, <1>8, <1>11, <1>12
  <2> QED BY <2>1, <2>2, <1>7
<1> QED BY <1>8, <1>12, <1>13 DEF Replays, v, more

-----------------------------------------------------------------------------
(* The HUNTs and what remembers them.                                      *)

\* The inductive invariant.  The log is the history of the logged successes, none of them
\* of a time to come.
LogKept ==
    /\ WellFormed(huntLog) /\ won \in Seq(Wins) /\ Replays(huntLog, won)
    /\ \A i \in DOMAIN won : won[i].at <= clock

\* A success without a record has its guard, and an old guard without a record stays until
\* its generation is over.
Guarded == \A i \in DOMAIN won : won[i].kind \in Rungs => SecretOf(won[i]) \in successfulHunts

Refused ==
    \A g \in untimed :
        /\ g[1] # "rotor" /\ g[2] \in Roster /\ g[3] \in Roster /\ g[2] # g[3] /\ g[4] = 1
        /\ g = <<g[1], g[2], g[3], g[4]>>
        /\ g \in successfulHunts \/ g[4] < gen[g[3]]

OnceKept == PaidOncePerSecret /\ Guarded /\ Refused

\* No attempt is of a generation to come, and the row counts none that was not made.
Books ==
    /\ \A k \in DOMAIN tried : tried[k] \in Nat /\ k[3] \in Roster /\ k[4] \in Int /\ k[4] <= gen[k[3]]
    /\ \A k \in DOMAIN huntAttempts : k \in DOMAIN tried /\ huntAttempts[k] \in Nat

BudgetsKept == Books /\ BudgetsExact

HitsOn(w, t) == {i \in DOMAIN w : w[i].on = t}

TellsKept ==
    /\ BreachesTold
    /\ DOMAIN lastBreach = Roster /\ DOMAIN broken = Roster
    /\ \A t \in Roster : "by" \in DOMAIN lastBreach[t] => HitsOn(won, t) # {}

StatesKept ==
    /\ protocol \in {"sudoku", "schnorr"} /\ upgrades \in 0..MaxUpgrades /\ clock \in 1..MaxTime
    /\ gen \in [Roster -> 1..MaxGen] /\ standing \in [Roster -> Nat]

HuntsKept == StatesKept /\ LogKept /\ OnceKept /\ BudgetsKept /\ TellsKept

LEMMA HuntsKeptSound == HuntsKept => HuntsSound
BY ReplayExactIs DEF HuntsKept, HuntsSound, HuntsTyped, StatesKept, LogKept, OnceKept, BudgetsKept, TellsKept

\* The success of a HUNT, which the log does not hold yet.
Won(kind, a, t) == Success(kind, a, t, gen[t], clock)

LEMMA WonIs ==
    ASSUME HuntBounds, StatesKept, NEW kind \in Kinds, NEW a \in Roster, NEW t \in Roster, a # t
    PROVE  /\ Won(kind, a, t) \in Wins /\ SecretOf(Won(kind, a, t)) = <<kind, a, t, gen[t]>>
           /\ Won(kind, a, t).kind = kind /\ Won(kind, a, t).by = a /\ Won(kind, a, t).on = t
           /\ Won(kind, a, t).gen = gen[t] /\ Won(kind, a, t).at = clock
<1>1. gen[t] \in Nat \ {0} /\ clock \in Int
  BY DEF StatesKept, HuntBounds
<1> QED BY <1>1 DEF Won, Success, Wins, SecretOf

LEMMA WonIsFree ==
    ASSUME HuntBounds, StatesKept, LogKept, NEW kind \in Logged, NEW a \in Roster, NEW t \in Roster, a # t,
           MayHunt(kind, a, t)
    PROVE  Free(huntLog, Won(kind, a, t))
<1>1. ~Recorded(kind, a, t, gen[t])
  BY DEF MayHunt, Known
<1>2. kind \in Kinds
  BY DEF Kinds
<1>3. SecretOf(Won(kind, a, t)) = <<kind, a, t, gen[t]>>
  BY <1>2, WonIs
<1> QED BY <1>1, <1>3, RecordedIs DEF LogKept, Free

LEMMA LoggedAreEarlier ==
    ASSUME LogKept
    PROVE  \A c \in Cells(huntLog) : Held(huntLog, c).at <= clock
<1>1. \A c \in Cells(huntLog) : \E i \in LoggedAt(won) : won[i] = Held(huntLog, c)
  BY HeldAreWon DEF LogKept
<1> QED BY <1>1 DEF LogKept, LoggedAt

LEMMA LogPrimed ==
    ASSUME WellFormed(huntLog'), won' \in Seq(Wins), Replays(huntLog', won'),
           \A i \in DOMAIN won' : won'[i].at <= clock'
    PROVE  LogKept'
<1>1. Replays(huntLog, won)' <=> Replays(huntLog', won')
  BY DEF Replays, Decoded, Cells, Held, Nth, Before, Earlier, RankOf, LoggedAt, Upto, IsDense, Success, Attacker
<1>2. WellFormed(huntLog)' <=> WellFormed(huntLog')
  BY DEF WellFormed, IsDense
<1> QED BY <1>1, <1>2 DEF LogKept

LEMMA WinKeepsLog ==
    ASSUME HuntBounds, StatesKept, LogKept, NEW kind \in Kinds, NEW a \in Roster, NEW t \in Roster, a # t,
           MayHunt(kind, a, t), Win(kind, a, t)
    PROVE  LogKept'
<1> DEFINE s == Won(kind, a, t)
<1>1. /\ s \in Wins /\ s.kind = kind /\ s.at = clock
  BY WonIs
<1>2. /\ huntLog' = IF kind \in Logged THEN Appended(huntLog, s) ELSE huntLog
      /\ won' = Append(won, s) /\ clock' = clock
  BY <1>1 DEF Win, Record, Won
<1>3. WellFormed(huntLog) /\ won \in Seq(Wins) /\ Replays(huntLog, won)
      /\ \A i \in DOMAIN won : won[i].at <= clock
  BY DEF LogKept
<1>4. clock \in Int
  BY DEF StatesKept
<1>5. kind \in Logged => Free(huntLog, s)
  BY WonIsFree
<1>6. \A c \in Cells(huntLog) : Held(huntLog, c).at <= clock
  BY LoggedAreEarlier
<1> HIDE DEF s
<1>7. kind \in Logged => s \in Objects
  BY <1>1, ObjectsWin
<1>8. WellFormed(huntLog')
  BY <1>2, <1>3, <1>7, AppendedWellFormed
<1>9. won' \in Seq(Wins) /\ \A i \in DOMAIN won' : won'[i].at <= clock'
  BY <1>1, <1>2, <1>3, <1>4
<1>10. Replays(huntLog', won')
  <2>1. CASE kind \in Logged
    BY <2>1, <1>1, <1>2, <1>3, <1>5, <1>6, <1>7, LoggedWinReplays
  <2>2. CASE kind \notin Logged
    BY <2>2, <1>1, <1>2, <1>3, OtherWinReplays
  <2> QED BY <2>1, <2>2
<1> QED BY <1>8, <1>9, <1>10, LogPrimed

LEMMA WinKeepsOnce ==
    ASSUME HuntBounds, StatesKept, LogKept, OnceKept,
           NEW kind \in Kinds, NEW a \in Roster, NEW t \in Roster, a # t,
           MayHunt(kind, a, t), Win(kind, a, t)
    PROVE  OnceKept'
<1> DEFINE s == Won(kind, a, t)
<1>1. /\ s \in Wins /\ s.kind = kind /\ SecretOf(s) = <<kind, a, t, gen[t]>>
  BY WonIs
<1>2. /\ won' = Append(won, s) /\ untimed' = untimed /\ gen' = gen
      /\ successfulHunts' = successfulHunts \cup {g \in {SecretOf(s)} : kind \in Rungs}
  BY <1>1 DEF Win, Record, Won, SecretOf
<1>3. won \in Seq(Wins) /\ Len(won) \in Nat /\ DOMAIN won = 1..Len(won)
  BY DEF LogKept
<1> HIDE DEF s
<1>4. /\ Len(won') = Len(won) + 1 /\ DOMAIN won' = 1..(Len(won) + 1) /\ won'[Len(won) + 1] = s
      /\ \A i \in DOMAIN won : won'[i] = won[i]
  BY <1>1, <1>2, <1>3
<1>5. ~Known(kind, a, t, gen[t])
  BY DEF MayHunt
<1>6. \A i \in DOMAIN won : SecretOf(won[i]) # SecretOf(s)
  <2> SUFFICES ASSUME NEW i \in DOMAIN won, SecretOf(won[i]) = SecretOf(s) PROVE FALSE
    OBVIOUS
  <2>1. won[i].kind = kind
    BY <1>1 DEF SecretOf
  <2>2. CASE kind \in Rungs
    <3>1. SecretOf(s) \in successfulHunts
      BY <2>1, <2>2 DEF OnceKept, Guarded
    <3>2. kind # "rotor"
      BY <2>2 DEF Rungs
    <3> QED BY <3>1, <3>2, <1>1, <1>5 DEF Known
  <2>3. CASE kind \in Logged
    <3>1. i \in LoggedAt(won)
      BY <2>1, <2>3 DEF LoggedAt
    <3>2. PICK c \in Cells(huntLog) : won[i] = Held(huntLog, c)
      BY <3>1, HeldAreWon DEF LogKept
    <3>3. SecretOf(Held(huntLog, c)) = SecretOf(s)
      BY <3>2
    <3> QED BY <3>3, <2>3, WonIsFree DEF Free, s
  <2> QED BY <2>2, <2>3 DEF Kinds
<1>7. SecretOf(s) \notin untimed
  <2> SUFFICES ASSUME SecretOf(s) \in untimed PROVE FALSE
    OBVIOUS
  <2>1. kind # "rotor" /\ (SecretOf(s) \in successfulHunts \/ gen[t] < gen[t])
    BY <1>1 DEF OnceKept, Refused
  <2>2. gen[t] \in Int
    BY DEF StatesKept, HuntBounds
  <2> QED BY <2>1, <2>2, <1>1, <1>5 DEF Known
<1>8. PaidOncePerSecret'
  <2>1. \A i, j \in DOMAIN won' : SecretOf(won'[i]) = SecretOf(won'[j]) => i = j
    <3>1. \A i \in DOMAIN won' : i \in DOMAIN won \/ i = Len(won) + 1
      BY <1>3, <1>4
    <3>2. \A i, j \in DOMAIN won : SecretOf(won[i]) = SecretOf(won[j]) => i = j
      BY DEF OnceKept, PaidOncePerSecret
    <3> QED BY <3>1, <3>2, <1>4, <1>6
  <2>2. \A i \in DOMAIN won' : SecretOf(won'[i]) \notin untimed'
    <3>1. \A i \in DOMAIN won' : i \in DOMAIN won \/ i = Len(won) + 1
      BY <1>3, <1>4
    <3>2. \A i \in DOMAIN won : SecretOf(won[i]) \notin untimed
      BY DEF OnceKept, PaidOncePerSecret
    <3> QED BY <3>1, <3>2, <1>2, <1>4, <1>7
  <2> QED BY <2>1, <2>2 DEF PaidOncePerSecret, SecretOf
<1>9. Guarded'
  <2>1. \A i \in DOMAIN won' : won'[i].kind \in Rungs => SecretOf(won'[i]) \in successfulHunts'
    <3>1. \A i \in DOMAIN won' : i \in DOMAIN won \/ i = Len(won) + 1
      BY <1>3, <1>4
    <3>2. \A i \in DOMAIN won : won[i].kind \in Rungs => SecretOf(won[i]) \in successfulHunts
      BY DEF OnceKept, Guarded
    <3> QED BY <3>1, <3>2, <1>1, <1>2, <1>4
  <2> QED BY <2>1 DEF Guarded, SecretOf
<1>10. Refused'
  BY <1>2 DEF OnceKept, Refused
<1> QED BY <1>8, <1>9, <1>10 DEF OnceKept

LEMMA HitsFinite ==
    ASSUME NEW w \in Seq(Wins), NEW t
    PROVE  IsFiniteSet(HitsOn(w, t)) /\ HitsOn(w, t) \subseteq 1..Len(w) /\ Cardinality(HitsOn(w, t)) \in Nat
<1>1. Len(w) \in Int /\ HitsOn(w, t) \subseteq 1..Len(w)
  BY DEF HitsOn
<1>2. IsFiniteSet(1..Len(w))
  BY <1>1, FS_Interval
<1>3. IsFiniteSet(HitsOn(w, t))
  BY <1>1, <1>2, FS_Subset
<1> QED BY <1>1, <1>3, FS_CardinalityType

LEMMA WinKeepsTells ==
    ASSUME HuntBounds, StatesKept, LogKept, TellsKept,
           NEW kind \in Kinds, NEW a \in Roster, NEW t \in Roster, a # t, Win(kind, a, t)
    PROVE  TellsKept'
<1> DEFINE s == Won(kind, a, t)
           b == lastBreach'[t]
<1>1. /\ s \in Wins /\ s.kind = kind /\ s.by = a /\ s.on = t /\ s.gen = gen[t]
  BY WonIs
<1>2. won' = Append(won, s)
  BY DEF Win, Won
<1>3. won \in Seq(Wins) /\ Len(won) \in Nat /\ DOMAIN won = 1..Len(won)
  BY DEF LogKept
<1>4. /\ b.sequence = lastBreach[t].sequence + 1 /\ b.by = a /\ b.gen = gen[t] /\ b.kind = kind
      /\ DOMAIN lastBreach' = Roster /\ DOMAIN broken' = Roster
      /\ broken'[t] = broken[t] \cup {<<kind, gen[t]>>}
      /\ \A u \in Roster \ {t} : lastBreach'[u] = lastBreach[u] /\ broken'[u] = broken[u]
  BY DEF TellsKept, Win
<1> HIDE DEF s, b
<1>5. /\ Len(won') = Len(won) + 1 /\ DOMAIN won' = 1..(Len(won) + 1) /\ won'[Len(won) + 1] = s
      /\ \A i \in 1..Len(won) : won'[i] = won[i]
  BY <1>1, <1>2, <1>3
<1>6. \A u \in Roster : /\ IsFiniteSet(HitsOn(won, u)) /\ HitsOn(won, u) \subseteq 1..Len(won)
                        /\ Cardinality(HitsOn(won, u)) \in Nat
  BY <1>3, HitsFinite
<1>7. HitsOn(won', t) = HitsOn(won, t) \cup {Len(won) + 1} /\ Len(won) + 1 \notin HitsOn(won, t)
  BY <1>1, <1>3, <1>5 DEF HitsOn
<1>8. \A u \in Roster \ {t} : HitsOn(won', u) = HitsOn(won, u)
  BY <1>1, <1>3, <1>5 DEF HitsOn
<1>9. \A u \in Roster :
        /\ lastBreach[u].sequence = Cardinality(HitsOn(won, u))
        /\ "by" \in DOMAIN lastBreach[u] =>
             /\ HitsOn(won, u) # {}
             /\ <<lastBreach[u].by, lastBreach[u].gen, lastBreach[u].kind>> =
                  <<won[Max(HitsOn(won, u))].by, won[Max(HitsOn(won, u))].gen, won[Max(HitsOn(won, u))].kind>>
        /\ broken[u] = {<<won[i].kind, won[i].gen>> : i \in HitsOn(won, u)}
  BY DEF TellsKept, BreachesTold, HitsOn
<1> DEFINE Told(u) ==
        /\ lastBreach'[u].sequence = Cardinality(HitsOn(won', u))
        /\ "by" \in DOMAIN lastBreach'[u] =>
             /\ HitsOn(won', u) # {}
             /\ <<lastBreach'[u].by, lastBreach'[u].gen, lastBreach'[u].kind>> =
                  <<won'[Max(HitsOn(won', u))].by, won'[Max(HitsOn(won', u))].gen,
                    won'[Max(HitsOn(won', u))].kind>>
        /\ broken'[u] = {<<won'[i].kind, won'[i].gen>> : i \in HitsOn(won', u)}
<1>10. Told(t)
  <2> DEFINE H == HitsOn(won', t)
             n == Len(won) + 1
  <2>1. Cardinality(H) = Cardinality(HitsOn(won, t)) + 1 /\ IsFiniteSet(H)
    BY <1>6, <1>7, FS_AddElement
  <2>2. n \in H /\ H \subseteq 1..n /\ H \in SUBSET Int
    BY <1>3, <1>6, <1>7
  <2>3. Max(H) = n
    <3> HIDE DEF H
    <3>1. Max(H) \in H /\ \A y \in H : Max(H) >= y
      BY <2>1, <2>2, Highest
    <3>2. Max(H) \in 1..n /\ Max(H) >= n /\ n \in Int
      BY <2>2, <3>1, <1>3
    <3> HIDE DEF n
    <3> QED BY <3>2
  <2>4. broken'[t] = {<<won'[i].kind, won'[i].gen>> : i \in H}
    <3>1. {<<won'[i].kind, won'[i].gen>> : i \in H} =
            {<<won'[i].kind, won'[i].gen>> : i \in HitsOn(won, t)} \cup {<<won'[n].kind, won'[n].gen>>}
      BY <1>7
    <3>2. {<<won'[i].kind, won'[i].gen>> : i \in HitsOn(won, t)} =
            {<<won[i].kind, won[i].gen>> : i \in HitsOn(won, t)}
      BY <1>5, <1>6
    <3>3. <<won'[n].kind, won'[n].gen>> = <<kind, gen[t]>>
      BY <1>1, <1>5
    <3> QED BY <3>1, <3>2, <3>3, <1>4, <1>9
  <2>5. lastBreach'[t].sequence = Cardinality(H)
    BY <2>1, <1>4, <1>9 DEF b
  <2>6. <<lastBreach'[t].by, lastBreach'[t].gen, lastBreach'[t].kind>> =
          <<won'[Max(H)].by, won'[Max(H)].gen, won'[Max(H)].kind>>
    <3>1. won'[Max(H)] = s
      BY <2>3, <1>5
    <3> QED BY <3>1, <1>1, <1>4 DEF b
  <2> QED BY <2>2, <2>4, <2>5, <2>6
<1>11. ASSUME NEW u \in Roster \ {t} PROVE Told(u)
  <2> DEFINE H == HitsOn(won, u)
  <2>1. HitsOn(won', u) = H /\ lastBreach'[u] = lastBreach[u] /\ broken'[u] = broken[u]
    BY <1>4, <1>8
  <2>2. {<<won'[i].kind, won'[i].gen>> : i \in H} = {<<won[i].kind, won[i].gen>> : i \in H}
    BY <1>5, <1>6
  <2>3. H # {} => won'[Max(H)] = won[Max(H)]
    <3> SUFFICES ASSUME H # {} PROVE won'[Max(H)] = won[Max(H)]
      OBVIOUS
    <3>1. IsFiniteSet(H) /\ H \subseteq 1..Len(won) /\ H \in SUBSET Int
      BY <1>6
    <3> HIDE DEF H
    <3>2. Max(H) \in H
      BY <3>1, Highest
    <3> QED BY <3>1, <3>2, <1>5
  <2> HIDE DEF H
  <2>4. /\ lastBreach[u].sequence = Cardinality(H)
        /\ "by" \in DOMAIN lastBreach[u] =>
             /\ H # {}
             /\ <<lastBreach[u].by, lastBreach[u].gen, lastBreach[u].kind>> =
                  <<won[Max(H)].by, won[Max(H)].gen, won[Max(H)].kind>>
        /\ broken[u] = {<<won[i].kind, won[i].gen>> : i \in H}
    BY <1>9 DEF H
  <2> QED BY <2>1, <2>2, <2>3, <2>4
<1>12. \A u \in Roster : Told(u)
  BY <1>10, <1>11
<1>13. BreachesTold'
  BY <1>12 DEF BreachesTold, HitsOn
<1>14. \A u \in Roster : "by" \in DOMAIN lastBreach'[u] => HitsOn(won', u) # {}
  BY <1>12
<1> QED BY <1>4, <1>13, <1>14 DEF TellsKept, HitsOn

LEMMA WinKeepsStates ==
    ASSUME HuntBounds, StatesKept, NEW kind \in Kinds, NEW a \in Roster, NEW t \in Roster, a # t,
           Win(kind, a, t)
    PROVE  StatesKept'
<1>1. standing[a] + Bonus[kind] \in Nat /\ Clamped(standing[t] - Penalty) \in Nat
  <2>1. standing[t] - Penalty \in Int /\ standing[a] + Bonus[kind] \in Nat
    BY DEF StatesKept, HuntBounds
  <2> QED BY <2>1, ClampedType
<1>2. standing' \in [Roster -> Nat]
  <2>1. standing \in [Roster -> Nat]
    BY DEF StatesKept
  <2>2. standing' = [standing EXCEPT ![a] = @ + Bonus[kind], ![t] = Clamped(@ - Penalty)]
    BY DEF Win
  <2> QED BY <1>1, <2>1, <2>2
<1>3. UNCHANGED <<protocol, upgrades, clock, gen>>
  BY DEF Win
<1> QED BY <1>2, <1>3 DEF StatesKept

\* An attempt is charged to the row and to the history alike.
LEMMA ChargeKeepsBudgets ==
    ASSUME HuntBounds, StatesKept, BudgetsKept, NEW kind, NEW a \in Roster, NEW t \in Roster,
           HasAttempt(kind, a, t), gen' = gen,
           huntAttempts' = Charged(huntAttempts, Key(kind, a, t)),
           tried' = Charged(tried, Key(kind, a, t))
    PROVE  BudgetsKept'
<1> DEFINE key == Key(kind, a, t)
<1>1. key[3] = t /\ key[4] = gen[t] /\ gen[t] \in Int /\ gen[t] <= gen[t]
  BY DEF Key, StatesKept, HuntBounds
<1>2. Count(huntAttempts, key) < MaxAttempts
  BY DEF HasAttempt
<1> HIDE DEF key
<1>3. /\ DOMAIN tried' = DOMAIN tried \cup {key} /\ DOMAIN huntAttempts' = DOMAIN huntAttempts \cup {key}
      /\ \A k \in DOMAIN tried' : tried'[k] = Count(tried, k) + IF k = key THEN 1 ELSE 0
      /\ \A k \in DOMAIN huntAttempts' :
            huntAttempts'[k] = Count(huntAttempts, k) + IF k = key THEN 1 ELSE 0
  BY DEF Charged, key
<1>4. /\ \A k \in DOMAIN tried : tried[k] \in Nat /\ k[3] \in Roster /\ k[4] \in Int /\ k[4] <= gen[k[3]]
      /\ \A k \in DOMAIN huntAttempts : k \in DOMAIN tried /\ huntAttempts[k] \in Nat
      /\ \A k \in DOMAIN tried : tried[k] <= MaxAttempts
      /\ \A k \in DOMAIN tried : k[4] = gen[k[3]] => Count(huntAttempts, k) = tried[k]
  BY DEF BudgetsKept, Books, BudgetsExact
<1>5. Count(tried, key) \in Nat /\ Count(huntAttempts, key) = Count(tried, key)
  <2>1. CASE key \in DOMAIN tried
    <3>1. tried[key] \in Nat /\ Count(huntAttempts, key) = tried[key]
      BY <2>1, <1>1, <1>4
    <3> QED BY <3>1, <2>1 DEF Count
  <2>2. CASE key \notin DOMAIN tried
    BY <2>2, <1>4 DEF Count
  <2> QED BY <2>1, <2>2
<1>6. tried'[key] = Count(tried, key) + 1 /\ huntAttempts'[key] = Count(tried, key) + 1
      /\ Count(tried, key) + 1 <= MaxAttempts
  BY <1>2, <1>3, <1>5 DEF HuntBounds
<1>7. \A k \in DOMAIN tried : k # key =>
         /\ tried'[k] = tried[k] /\ k \in DOMAIN tried' /\ (k \in DOMAIN huntAttempts' <=> k \in DOMAIN huntAttempts)
         /\ k \in DOMAIN huntAttempts => huntAttempts'[k] = Count(huntAttempts, k)
  <2> SUFFICES ASSUME NEW k \in DOMAIN tried, k # key
               PROVE  /\ tried'[k] = tried[k] /\ k \in DOMAIN tried'
                      /\ (k \in DOMAIN huntAttempts' <=> k \in DOMAIN huntAttempts)
                      /\ k \in DOMAIN huntAttempts => huntAttempts'[k] = Count(huntAttempts, k)
    OBVIOUS
  <2>1. tried'[k] = tried[k] + 0 /\ tried[k] \in Nat
    BY <1>3, <1>4 DEF Count
  <2>2. k \in DOMAIN huntAttempts =>
          /\ huntAttempts'[k] = Count(huntAttempts, k) + 0
          /\ Count(huntAttempts, k) \in Nat
    BY <1>3, <1>4 DEF Count
  <2> QED BY <2>1, <2>2, <1>3, <1>4
<1>8. Books'
  <2>1. ASSUME NEW k \in DOMAIN tried'
        PROVE tried'[k] \in Nat /\ k[3] \in Roster /\ k[4] \in Int /\ k[4] <= gen'[k[3]]
    <3>1. CASE k = key
      BY <3>1, <1>1, <1>5, <1>6
    <3>2. CASE k # key
      BY <3>2, <1>3, <1>4, <1>7
    <3> QED BY <3>1, <3>2
  <2>2. ASSUME NEW k \in DOMAIN huntAttempts' PROVE k \in DOMAIN tried' /\ huntAttempts'[k] \in Nat
    <3>1. CASE k = key
      BY <3>1, <1>3, <1>5, <1>6
    <3>2. CASE k # key
      <4>1. k \in DOMAIN huntAttempts /\ k \in DOMAIN tried
        BY <3>2, <1>3, <1>4
      <4>2. huntAttempts'[k] = huntAttempts[k]
        BY <3>2, <4>1, <1>7, <1>3 DEF Count
      <4> QED BY <4>1, <4>2, <1>3, <1>4
    <3> QED BY <3>1, <3>2
  <2> QED BY <2>1, <2>2 DEF Books
<1>9. BudgetsExact'
  <2>1. \A k \in DOMAIN tried' : tried'[k] <= MaxAttempts
    BY <1>3, <1>4, <1>6, <1>7
  <2>2. \A k \in DOMAIN tried' : k[4] = gen'[k[3]] => Count(huntAttempts', k) = tried'[k]
    BY <1>3, <1>4, <1>6, <1>7 DEF Count
  <2> QED BY <2>1, <2>2 DEF BudgetsExact, Count
<1> QED BY <1>8, <1>9 DEF BudgetsKept

\* What a step leaves alone, the invariant keeps.
LEMMA LogStays ==
    ASSUME LogKept, huntLog' = huntLog, won' = won, clock' = clock
    PROVE  LogKept'
<1>1. WellFormed(huntLog) /\ won \in Seq(Wins) /\ Replays(huntLog, won)
      /\ \A i \in DOMAIN won : won[i].at <= clock
  BY DEF LogKept
<1>2. WellFormed(huntLog') /\ won' \in Seq(Wins) /\ Replays(huntLog', won')
      /\ \A i \in DOMAIN won' : won'[i].at <= clock'
  BY <1>1
<1> QED BY <1>2, LogPrimed

LEMMA TellsStay ==
    ASSUME TellsKept, lastBreach' = lastBreach, broken' = broken, won' = won
    PROVE  TellsKept'
BY DEF TellsKept, BreachesTold, HitsOn

LEMMA OnceStays ==
    ASSUME OnceKept, successfulHunts' = successfulHunts, gen' = gen, untimed' = untimed, won' = won
    PROVE  OnceKept'
BY DEF OnceKept, PaidOncePerSecret, Guarded, Refused, SecretOf

LEMMA BudgetsStay ==
    ASSUME BudgetsKept, huntAttempts' = huntAttempts, tried' = tried, gen' = gen
    PROVE  BudgetsKept'
BY DEF BudgetsKept, Books, BudgetsExact, Count

LEMMA MissKeeps ==
    ASSUME HuntBounds, HuntsKept, NEW kind \in Kinds, NEW a \in Roster, NEW t \in Roster, a # t,
           Miss(kind, a, t)
    PROVE  HuntsKept'
<1>1. /\ huntAttempts' = Charged(huntAttempts, Key(kind, a, t)) /\ tried' = Charged(tried, Key(kind, a, t))
      /\ HasAttempt(kind, a, t)
      /\ UNCHANGED <<protocol, upgrades, clock, gen, successfulHunts, huntLog, broken, lastBreach, won, untimed>>
  BY DEF Miss, Judged
<1>2. BudgetsKept'
  BY <1>1, ChargeKeepsBudgets DEF HuntsKept
<1>3. standing' \in [Roster -> Nat]
  <2>1. standing \in [Roster -> Nat] /\ standing[a] - WrongHunt \in Int
    BY DEF HuntsKept, StatesKept, HuntBounds
  <2>2. Clamped(standing[a] - WrongHunt) \in Nat
    BY <2>1, ClampedType
  <2>3. standing' = [standing EXCEPT ![a] = Clamped(@ - WrongHunt)]
    BY DEF Miss
  <2> QED BY <2>1, <2>2, <2>3
<1>4. StatesKept'
  BY <1>1, <1>3 DEF HuntsKept, StatesKept
<1> QED BY <1>1, <1>2, <1>4, LogStays, TellsStay, OnceStays DEF HuntsKept

LEMMA WinKeeps ==
    ASSUME HuntBounds, HuntsKept, NEW kind \in Kinds, NEW a \in Roster, NEW t \in Roster, a # t,
           MayHunt(kind, a, t), Win(kind, a, t)
    PROVE  StatesKept' /\ LogKept' /\ OnceKept' /\ TellsKept' /\ gen' = gen
<1>1. StatesKept'
  BY WinKeepsStates DEF HuntsKept
<1>2. LogKept'
  BY WinKeepsLog DEF HuntsKept
<1>3. OnceKept'
  BY WinKeepsOnce DEF HuntsKept
<1>4. TellsKept'
  BY WinKeepsTells DEF HuntsKept
<1> QED BY <1>1, <1>2, <1>3, <1>4 DEF Win

LEMMA HitKeeps ==
    ASSUME HuntBounds, HuntsKept, NEW kind \in Kinds, NEW a \in Roster, NEW t \in Roster, a # t,
           Hit(kind, a, t)
    PROVE  HuntsKept'
<1>1. /\ huntAttempts' = Charged(huntAttempts, Key(kind, a, t)) /\ tried' = Charged(tried, Key(kind, a, t))
      /\ HasAttempt(kind, a, t) /\ MayHunt(kind, a, t) /\ Win(kind, a, t)
  BY DEF Hit, Judged
<1>2. StatesKept' /\ LogKept' /\ OnceKept' /\ TellsKept' /\ gen' = gen
  BY <1>1, WinKeeps
<1>3. BudgetsKept'
  BY <1>1, <1>2, ChargeKeepsBudgets DEF HuntsKept
<1> QED BY <1>2, <1>3 DEF HuntsKept

LEMMA BreakKeeps ==
    ASSUME HuntBounds, HuntsKept, NEW kind \in Kinds, NEW a \in Roster, NEW t \in Roster, a # t,
           Break(kind, a, t)
    PROVE  HuntsKept'
<1>1. MayHunt(kind, a, t) /\ Win(kind, a, t) /\ huntAttempts' = huntAttempts /\ tried' = tried
  BY DEF Break, MayBreak
<1>2. StatesKept' /\ LogKept' /\ OnceKept' /\ TellsKept' /\ gen' = gen
  BY <1>1, WinKeeps
<1>3. BudgetsKept'
  BY <1>1, <1>2, BudgetsStay DEF HuntsKept
<1> QED BY <1>2, <1>3 DEF HuntsKept

LEMMA PublishKeeps ==
    ASSUME HuntsKept, NEW t, NEW evidence, Publish(t, evidence)
    PROVE  HuntsKept'
<1>1. UNCHANGED <<protocol, upgrades, clock, gen, standing, huntAttempts, successfulHunts, huntLog, broken,
                  lastBreach, won, untimed, tried>>
  BY DEF Publish
<1>2. StatesKept'
  BY <1>1 DEF HuntsKept, StatesKept
<1> QED BY <1>1, <1>2, LogStays, TellsStay, OnceStays, BudgetsStay DEF HuntsKept

LEMMA PassesKeeps ==
    ASSUME HuntBounds, HuntsKept, Passes
    PROVE  HuntsKept'
<1>1. /\ clock < MaxTime /\ clock' = clock + 1
      /\ UNCHANGED <<protocol, upgrades, gen, standing, huntAttempts, successfulHunts, huntLog, broken,
                     lastBreach, won, untimed, tried>>
  BY DEF Passes
<1>2. clock \in 1..MaxTime /\ clock \in Int
  BY DEF HuntsKept, StatesKept
<1>3. StatesKept'
  <2>1. clock' \in 1..MaxTime
    BY <1>1, <1>2 DEF HuntBounds
  <2> QED BY <1>1, <2>1 DEF HuntsKept, StatesKept
<1>4. LogKept'
  <2>1. \A i \in DOMAIN won : won[i].at \in Int /\ won[i].at <= clock
    <3>1. \A i \in DOMAIN won : won[i] \in Wins
      BY DEF HuntsKept, LogKept
    <3> QED BY <3>1 DEF HuntsKept, LogKept, Wins
  <2>2. \A i \in DOMAIN won' : won'[i].at <= clock'
    BY <1>1, <1>2, <2>1
  <2>3. WellFormed(huntLog) /\ won \in Seq(Wins) /\ Replays(huntLog, won)
    BY DEF HuntsKept, LogKept
  <2>4. WellFormed(huntLog') /\ won' \in Seq(Wins) /\ Replays(huntLog', won')
    BY <1>1, <2>3
  <2> QED BY <2>2, <2>4, LogPrimed
<1> QED BY <1>1, <1>3, <1>4, TellsStay, OnceStays, BudgetsStay DEF HuntsKept

LEMMA RotateKeeps ==
    ASSUME HuntBounds, HuntsKept, NEW t \in Roster, NEW charge \in Nat, Rotate(t, charge)
    PROVE  HuntsKept'
<1>1. /\ gen[t] < MaxGen /\ gen' = [gen EXCEPT ![t] = @ + 1]
      /\ standing' = [standing EXCEPT ![t] = Clamped(@ - charge)]
      /\ huntAttempts' = KeepCurrent(huntAttempts, t)
      /\ successfulHunts' = {g \in successfulHunts : g[1] = "rsa" /\ g[3] = t => g[4] = gen[t] + 1}
      /\ UNCHANGED <<protocol, upgrades, clock, huntLog, broken, lastBreach, won, untimed, tried>>
  BY DEF Rotate
<1>2. gen \in [Roster -> 1..MaxGen] /\ standing \in [Roster -> Nat]
  BY DEF HuntsKept, StatesKept
<1>3. /\ gen[t] \in 1..MaxGen /\ gen[t] + 1 \in 1..MaxGen /\ gen'[t] = gen[t] + 1
      /\ \A u \in Roster : gen[u] \in Int /\ gen'[u] \in Int /\ gen[u] <= gen'[u]
      /\ \A u \in Roster \ {t} : gen'[u] = gen[u]
  BY <1>1, <1>2 DEF HuntBounds
<1>4. StatesKept'
  <2>1. gen' \in [Roster -> 1..MaxGen]
    BY <1>1, <1>2, <1>3
  <2>2. standing' \in [Roster -> Nat]
    <3>1. standing[t] - charge \in Int
      BY <1>2
    <3>2. Clamped(standing[t] - charge) \in Nat
      BY <3>1, ClampedType
    <3> QED BY <1>1, <1>2, <3>2
  <2> QED BY <1>1, <2>1, <2>2 DEF HuntsKept, StatesKept
<1>5. OnceKept'
  <2>1. PaidOncePerSecret'
    BY <1>1 DEF HuntsKept, OnceKept, PaidOncePerSecret, SecretOf
  <2>2. Guarded'
    <3>1. \A i \in DOMAIN won : won[i].kind \in Rungs =>
            SecretOf(won[i]) \in successfulHunts /\ SecretOf(won[i])[1] # "rsa"
      BY DEF HuntsKept, OnceKept, Guarded, SecretOf, Rungs
    <3> QED BY <1>1, <3>1 DEF Guarded, SecretOf
  <2>3. Refused'
    <3> SUFFICES ASSUME NEW g \in untimed
                 PROVE  /\ g[1] # "rotor" /\ g[2] \in Roster /\ g[3] \in Roster /\ g[2] # g[3] /\ g[4] = 1
                        /\ g = <<g[1], g[2], g[3], g[4]>>
                        /\ g \in successfulHunts' \/ g[4] < gen'[g[3]]
      BY <1>1 DEF Refused
    <3>1. /\ g[1] # "rotor" /\ g[2] \in Roster /\ g[3] \in Roster /\ g[2] # g[3] /\ g[4] = 1
          /\ g = <<g[1], g[2], g[3], g[4]>>
          /\ g \in successfulHunts \/ g[4] < gen[g[3]]
      BY DEF HuntsKept, OnceKept, Refused
    <3>2. gen[g[3]] \in Int /\ gen'[g[3]] \in Int /\ gen[g[3]] <= gen'[g[3]]
      BY <1>3, <3>1
    <3>3. CASE g[4] < gen[g[3]]
      BY <3>1, <3>2, <3>3
    <3>4. CASE g \in successfulHunts /\ g[3] = t
      <4>1. g[4] < gen'[t]
        BY <1>3, <3>1
      <4> QED BY <3>1, <3>4, <4>1
    <3>5. CASE g \in successfulHunts /\ g[3] # t
      BY <1>1, <3>1, <3>5
    <3> QED BY <3>1, <3>3, <3>4, <3>5
  <2> QED BY <2>1, <2>2, <2>3 DEF OnceKept
<1>6. BudgetsKept'
  <2>1. /\ DOMAIN huntAttempts' = {k \in DOMAIN huntAttempts : k[3] = t => k[4] = gen[t] + 1}
        /\ \A k \in DOMAIN huntAttempts' : huntAttempts'[k] = huntAttempts[k]
    BY <1>1 DEF KeepCurrent
  <2>2. /\ \A k \in DOMAIN tried : tried[k] \in Nat /\ k[3] \in Roster /\ k[4] \in Int /\ k[4] <= gen[k[3]]
        /\ \A k \in DOMAIN huntAttempts : k \in DOMAIN tried /\ huntAttempts[k] \in Nat
        /\ \A k \in DOMAIN tried : tried[k] <= MaxAttempts
        /\ \A k \in DOMAIN tried : k[4] = gen[k[3]] => Count(huntAttempts, k) = tried[k]
    BY DEF HuntsKept, BudgetsKept, Books, BudgetsExact
  <2>3. Books'
    <3>1. \A k \in DOMAIN tried : k[4] <= gen'[k[3]]
      BY <1>3, <2>2
    <3> QED BY <1>1, <2>1, <2>2, <3>1 DEF Books
  <2>4. ASSUME NEW k \in DOMAIN tried, k[4] = gen'[k[3]] PROVE Count(huntAttempts', k) = tried[k]
    <3>1. k[3] # t
      BY <1>3, <2>2, <2>4
    <3>2. Count(huntAttempts, k) = tried[k]
      BY <1>3, <2>2, <2>4, <3>1
    <3>3. Count(huntAttempts', k) = Count(huntAttempts, k)
      BY <2>1, <3>1 DEF Count
    <3> QED BY <3>2, <3>3
  <2>5. BudgetsExact'
    BY <1>1, <2>2, <2>4 DEF BudgetsExact, Count
  <2> QED BY <2>3, <2>5 DEF BudgetsKept
<1> QED BY <1>1, <1>4, <1>5, <1>6, LogStays, TellsStay DEF HuntsKept

LEMMA MigrateKeeps ==
    ASSUME HuntBounds, HuntsKept, Migrate
    PROVE  HuntsKept'
<1>1. /\ upgrades < MaxUpgrades /\ upgrades' = upgrades + 1 /\ huntLog' = Kept(huntLog)
      /\ successfulHunts' = {g \in successfulHunts : ~Redundant(g)}
      /\ UNCHANGED <<protocol, clock, gen, standing, huntAttempts, broken, lastBreach, won, untimed, tried>>
  BY DEF Migrate
<1>2. WellFormed(huntLog) /\ won \in Seq(Wins) /\ Replays(huntLog, won)
      /\ \A i \in DOMAIN won : won[i].at <= clock
  BY DEF HuntsKept, LogKept
<1>3. StatesKept'
  <2>1. upgrades' \in 0..MaxUpgrades
    BY <1>1 DEF HuntsKept, StatesKept, HuntBounds
  <2> QED BY <1>1, <2>1 DEF HuntsKept, StatesKept
<1>4. LogKept'
  <2>1. WellFormed(huntLog') /\ Decoded(huntLog') = Decoded(huntLog)
    BY <1>1, <1>2, KeptReads
  <2>2. Replays(huntLog', won')
    BY <1>1, <1>2, <2>1 DEF Replays
  <2>3. won' \in Seq(Wins) /\ \A i \in DOMAIN won' : won'[i].at <= clock'
    BY <1>1, <1>2
  <2> QED BY <2>1, <2>2, <2>3, LogPrimed
<1>5. OnceKept'
  <2>1. PaidOncePerSecret'
    BY <1>1 DEF HuntsKept, OnceKept, PaidOncePerSecret, SecretOf
  <2>2. Guarded'
    <3>1. \A i \in DOMAIN won : won[i].kind \in Rungs =>
            SecretOf(won[i]) \in successfulHunts /\ SecretOf(won[i])[1] \notin Logged
      BY DEF HuntsKept, OnceKept, Guarded, SecretOf, Rungs, Logged
    <3> QED BY <1>1, <3>1 DEF Guarded, SecretOf, Redundant
  <2>3. ASSUME NEW g \in untimed PROVE ~Redundant(g)
    <3> SUFFICES ASSUME Redundant(g) PROVE FALSE
      OBVIOUS
    <3>1. /\ g[2] \in Roster /\ g[3] \in Roster /\ g[2] # g[3] /\ g = <<g[1], g[2], g[3], g[4]>>
      BY DEF HuntsKept, OnceKept, Refused
    <3>2. Recorded(g[1], g[2], g[3], g[4])
      BY DEF Redundant
    <3>3. PICK c \in Cells(huntLog) : SecretOf(Held(huntLog, c)) = g
      BY <1>2, <3>1, <3>2, RecordedIs
    <3>4. PICK i \in LoggedAt(won) : won[i] = Held(huntLog, c)
      BY <1>2, HeldAreWon
    <3>5. i \in DOMAIN won /\ SecretOf(won[i]) \in untimed
      BY <3>3, <3>4 DEF LoggedAt
    <3> QED BY <3>5 DEF HuntsKept, OnceKept, PaidOncePerSecret
  <2>4. Refused'
    BY <1>1, <2>3 DEF HuntsKept, OnceKept, Refused
  <2> QED BY <2>1, <2>2, <2>4 DEF OnceKept
<1> QED BY <1>1, <1>3, <1>4, <1>5, TellsStay, BudgetsStay DEF HuntsKept

LEMMA HuntsStart == HuntBounds /\ StoredAssumption /\ HuntsInit => HuntsKept
<1> SUFFICES ASSUME HuntBounds, StoredAssumption, HuntsInit PROVE HuntsKept
  OBVIOUS
<1> DEFINE rows == huntLog
           w == Decoded(huntLog)
<1>1. /\ WellFormed(huntLog)
      /\ \A c, d \in Cells(huntLog) : SecretOf(Held(huntLog, c)) = SecretOf(Held(huntLog, d)) => c = d
      /\ \A c \in Cells(huntLog) : Held(huntLog, c).at <= 1
      /\ successfulHunts \subseteq {g \in (Kinds \ {"rotor"}) \X Roster \X Roster \X {1} : g[2] # g[3]}
  BY EmptyLog DEF HuntsInit, StoredAssumption
<1>2. /\ won = w /\ clock = 1 /\ gen = [t \in Roster |-> 1] /\ standing = [t \in Roster |-> 1]
      /\ huntAttempts = [k \in {} |-> 0] /\ tried = [k \in {} |-> 0]
      /\ untimed = {g \in successfulHunts : ~(g[1] \in Logged /\ Recorded(g[1], g[2], g[3], g[4]))}
      /\ broken = [t \in Roster |-> {<<won[i].kind, won[i].gen>> : i \in {j \in DOMAIN won : won[j].on = t}}]
      /\ lastBreach = [t \in Roster |->
           [sequence |-> Cardinality({i \in DOMAIN won : won[i].on = t}), points |-> 0]]
      /\ protocol \in {"sudoku", "schnorr"} /\ upgrades \in {0, 1}
  BY DEF HuntsInit
<1> DEFINE N == Cardinality(Cells(huntLog))
<1>3. /\ N \in Nat /\ w \in Seq(Objects) /\ Len(w) = N
      /\ \A c \in Cells(huntLog) : PlaceOf(huntLog, c) \in 1..N /\ w[PlaceOf(huntLog, c)] = Held(huntLog, c)
      /\ \A n \in 1..N : \E c \in Cells(huntLog) : PlaceOf(huntLog, c) = n
      /\ \A c, d \in Cells(huntLog) : PlaceOf(huntLog, c) = PlaceOf(huntLog, d) => c = d
  BY <1>1, Reading
<1> HIDE DEF w, N
<1>4. DOMAIN w = 1..N /\ \A i \in 1..N : w[i] \in Objects
  BY <1>3
<1>5. \A i \in 1..N : \E c \in Cells(huntLog) : PlaceOf(huntLog, c) = i /\ w[i] = Held(huntLog, c)
  BY <1>3
<1>6. StatesKept
  BY <1>2 DEF StatesKept, HuntBounds
<1>7. LogKept
  <2>1. w \in Seq(Wins)
    BY <1>3, ObjectsWin
  <2>2. LoggedAt(w) = 1..N
    BY <1>4 DEF LoggedAt, Objects
  <2>3. \A i \in 1..N : Upto(w, i) = 1..i
    BY <1>3, <2>2 DEF Upto
  <2>4. \A i \in 1..N : Cardinality(1..i) = i
    BY <1>3, FS_Interval
  <2>5. Cardinality(1..N) = N
    BY <1>3, FS_Interval
  <2>6. Replays(huntLog, w)
    BY <1>3, <2>2, <2>3, <2>4, <2>5 DEF Replays, w
  <2>7. \A i \in 1..N : w[i].at <= 1
    BY <1>1, <1>5
  <2> QED BY <1>1, <1>2, <1>4, <2>1, <2>6, <2>7 DEF LogKept
<1>8. OnceKept
  <2>1. \A i, j \in 1..N : SecretOf(w[i]) = SecretOf(w[j]) => i = j
    BY <1>1, <1>5
  <2>2. \A i \in 1..N : SecretOf(w[i]) \notin untimed
    <3> SUFFICES ASSUME NEW i \in 1..N, SecretOf(w[i]) \in untimed PROVE FALSE
      OBVIOUS
    <3>1. PICK c \in Cells(huntLog) : w[i] = Held(huntLog, c)
      BY <1>5
    <3>2. w[i].kind \in Logged /\ w[i].by \in Roster /\ w[i].on \in Roster /\ w[i].by # w[i].on
      BY <1>4 DEF Objects
    <3>3. SecretOf(w[i]) = <<w[i].kind, w[i].by, w[i].on, w[i].gen>>
      BY DEF SecretOf
    <3>4. Recorded(w[i].kind, w[i].by, w[i].on, w[i].gen)
      BY <1>1, <3>1, <3>2, <3>3, RecordedIs
    <3> QED BY <1>2, <3>2, <3>3, <3>4
  <2>3. PaidOncePerSecret
    BY <1>2, <1>4, <2>1, <2>2 DEF PaidOncePerSecret
  <2>4. Guarded
    BY <1>2, <1>4 DEF Guarded, Objects, Rungs, Logged
  <2>5. Refused
    BY <1>1, <1>2 DEF Refused
  <2> QED BY <2>3, <2>4, <2>5 DEF OnceKept
<1>9. BudgetsKept
  BY <1>2 DEF BudgetsKept, Books, BudgetsExact
<1>10. TellsKept
  BY <1>2 DEF TellsKept, BreachesTold, HitsOn
<1> QED BY <1>6, <1>7, <1>8, <1>9, <1>10 DEF HuntsKept

LEMMA HuntsStep == HuntBounds /\ HuntsKept /\ [HuntsNext]_huntVars => HuntsKept'
<1> SUFFICES ASSUME HuntBounds, HuntsKept, [HuntsNext]_huntVars PROVE HuntsKept'
  OBVIOUS
<1>1. \A hunt \in Hunts : hunt[1] \in Kinds /\ hunt[2] \in Roster /\ hunt[3] \in Roster /\ hunt[2] # hunt[3]
  BY DEF HuntBounds
<1>2. CASE Migrate
  BY <1>2, MigrateKeeps
<1>3. ASSUME NEW hunt \in Hunts,
             \/ hunt[1] = "share" /\ HuntShare(hunt[2], hunt[3])
             \/ hunt[1] = "sudoku" /\ HuntSudoku(hunt[2], hunt[3])
             \/ hunt[1] = "rotor" /\ HuntRotor(hunt[2], hunt[3])
      PROVE HuntsKept'
  <2>1. Miss(hunt[1], hunt[2], hunt[3]) \/ Hit(hunt[1], hunt[2], hunt[3])
    BY <1>3 DEF HuntShare, HuntSudoku, HuntRotor
  <2> QED BY <2>1, <1>1, MissKeeps, HitKeeps
<1>4. ASSUME NEW hunt \in Hunts, Break(hunt[1], hunt[2], hunt[3]) PROVE HuntsKept'
  BY <1>1, <1>4, BreakKeeps
<1>5. CASE Passes
  BY <1>5, PassesKeeps
<1>6. ASSUME NEW hunt \in Hunts, Publish(hunt[3], Published[hunt[1]]) PROVE HuntsKept'
  BY <1>6, PublishKeeps
<1>7. ASSUME NEW t \in Targets, NEW charge \in Voided, Rotate(t, charge) PROVE HuntsKept'
  <2>1. t \in Roster /\ charge \in Nat
    BY <1>1 DEF Targets, HuntBounds
  <2> QED BY <1>7, <2>1, RotateKeeps
<1>8. CASE UNCHANGED huntVars
  <2>1. UNCHANGED <<protocol, upgrades, clock, gen, standing, huntAttempts, successfulHunts, huntLog, broken,
                    lastBreach, won, untimed, tried>>
    BY <1>8 DEF huntVars
  <2>2. StatesKept'
    BY <2>1 DEF HuntsKept, StatesKept
  <2> QED BY <2>1, <2>2, LogStays, TellsStay, OnceStays, BudgetsStay DEF HuntsKept
<1> QED BY <1>2, <1>3, <1>4, <1>5, <1>6, <1>7, <1>8 DEF HuntsNext

\* A secret of a generation pays a team once whatever record or guard remembers it, no team
\* exceeds its attempts against a generation, every breach is told, and the log of HUNTs
\* replays the logged ones in their order, for any roster, prices and stored log
\* (hunt-log.ts:92-95, 386-404; reducer.ts:1470-1481, 2818-2828).
THEOREM HuntsAreSound == HuntsSpec => []HuntsSound
<1>1. HuntsInit => HuntsKept
  BY HuntBounds, StoredAssumption, HuntsStart
<1>2. HuntsKept /\ [HuntsNext]_huntVars => HuntsKept'
  BY HuntBounds, HuntsStep
<1>3. HuntsKept => HuntsSound
  BY HuntsKeptSound
<1> QED BY <1>1, <1>2, <1>3, PTL DEF HuntsSpec
=============================================================================
