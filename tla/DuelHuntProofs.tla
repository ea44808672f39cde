--------------------------- MODULE DuelHuntProofs ---------------------------
(***************************************************************************)
(* Proofs about DuelHunt: the shared HUNT budget is honoured, and a         *)
(* cancelled prediction can always be refunded, for every roster, schedule  *)
(* and price list.  The inductive invariant ties each counter row to the    *)
(* history of judged answers and to the predictions still pending on it.    *)
(* Then the duels themselves: their two sides agree, what is predicted is   *)
(* still secret, a seal is final, and a cancelled prediction is free.  There *)
(* the invariant is the list of the stages of a duel.                       *)
(***************************************************************************)
EXTENDS DuelHunt, FiniteSetTheorems, SumTheorems, TLAPS

\* A pending prediction sits on an Order of the duel and carries a generation
\* its target has already reached.
PredictionsPlaced ==
    \A d \in Duels, t \in Teams, a \in Teams :
        pred[d][t][a] # None => t \in Sides(d) /\ pred[d][t][a].gen <= gen[t]

\* A live row counts what was judged plus what is reserved; a dead one is 0.
RowsExact ==
    \A a \in Teams, t \in Teams, g \in Gens :
        budget[a][t][g] =
            IF g = gen[t] \/ Reserved(pred, a, t, g) # {}
            THEN judged[a][t][g] + Cardinality(Reserved(pred, a, t, g)) ELSE 0

\* Nothing was judged against a generation that does not exist yet.
FutureUnjudged ==
    \A a \in Teams, t \in Teams, g \in Gens : g > gen[t] => judged[a][t][g] = 0

IInv == TypeOK /\ PredictionsPlaced /\ RowsExact /\ AttemptsHonoured /\ FutureUnjudged

-----------------------------------------------------------------------------
\* The reserved duels of a row are finitely many.
LEMMA ReservedFinite ==
    ASSUME NEW p, NEW a, NEW t, NEW g
    PROVE  /\ IsFiniteSet(Reserved(p, a, t, g))
           /\ Cardinality(Reserved(p, a, t, g)) \in Nat
<1>1. IsFiniteSet(Duels)
  BY FS_Interval, RosterAssumption DEF Duels
<1>2. Reserved(p, a, t, g) \in SUBSET Duels
  BY DEF Reserved
<1>3. IsFiniteSet(Reserved(p, a, t, g))
  BY <1>1, <1>2, FS_Subset
<1> QED BY <1>3, FS_CardinalityType

\* A floored value is a natural number.
LEMMA FlooredNat == \A x : Floored(x) \in Nat
BY DEF Floored

\* Closing Orders removes from a row exactly the duels that are closed.
LEMMA ClearedReserved ==
    ASSUME NEW D, NEW a \in Teams, NEW t \in Teams, NEW g
    PROVE  /\ Reserved(Cleared(D), a, t, g)
                = Reserved(pred, a, t, g) \ {d \in Reserved(pred, a, t, g) : <<d, t>> \in D}
           /\ Reserved(Cleared(D), a, t, g) \subseteq Reserved(pred, a, t, g)
           /\ Refunds(D, a, t, g) \in Nat
           /\ Cardinality(Reserved(Cleared(D), a, t, g)) + Refunds(D, a, t, g)
                = Cardinality(Reserved(pred, a, t, g))
<1> DEFINE R == Reserved(pred, a, t, g)
           K == {d \in R : <<d, t>> \in D}
<1>1. Reserved(Cleared(D), a, t, g) = R \ K
  BY DEF Reserved, Cleared
<1>2. IsFiniteSet(R) /\ Cardinality(R) \in Nat
  BY ReservedFinite
<1>3. IsFiniteSet(K)
  BY <1>2, FS_Subset
<1>4. Cardinality(K) \in Nat
  BY <1>3, FS_CardinalityType
<1>5. R \cap K = K
  OBVIOUS
<1>6. Cardinality(R \ K) = Cardinality(R) - Cardinality(K)
  BY <1>2, <1>5, FS_Difference
<1>7. Cardinality(R \ K) \in Nat
  BY <1>1, ReservedFinite
<1> QED BY <1>1, <1>2, <1>4, <1>6, <1>7 DEF Refunds

-----------------------------------------------------------------------------
(* Type correctness, action by action. *)

LEMMA InitType == Init => TypeOK
BY BudgetAssumption, ClockAssumption DEF Init, TypeOK, Statuses, Outcomes, Gens

LEMMA CommitType ==
    ASSUME TypeOK, NEW d \in Duels, NEW t \in Teams, NEW c \in Sealed, Commit(d, t, c)
    PROVE  TypeOK'
BY DEF TypeOK, Commit

LEMMA OpenFirstType ==
    ASSUME TypeOK, NEW d \in Duels, NEW t \in Teams, NEW o \in Openings, OpenFirst(d, t, o)
    PROVE  TypeOK'
BY DEF TypeOK, OpenFirst

LEMMA PrunedType ==
    ASSUME NEW b \in [Teams -> [Teams -> [Gens -> Nat]]], NEW gens, NEW p
    PROVE  Pruned(b, gens, p) \in [Teams -> [Teams -> [Gens -> Nat]]]
BY DEF Pruned

LEMMA SweptType ==
    ASSUME NEW D, NEW b \in [Teams -> [Teams -> [Gens -> Nat]]]
    PROVE  Swept(D, b) \in [Teams -> [Teams -> [Gens -> Nat]]]
BY PrunedType DEF Swept

LEMMA ClearedType ==
    ASSUME TypeOK, NEW D
    PROVE  Cleared(D) \in [Duels -> [Teams -> [Teams -> Predictions \cup {None}]]]
BY DEF TypeOK, Cleared

LEMMA OpenSecondType ==
    ASSUME TypeOK, NEW d \in Duels, NEW t \in Teams, NEW o \in Openings, OpenSecond(d, t, o)
    PROVE  TypeOK'
<1>1. opening' \in [Duels -> [Teams -> Openings \cup {None}]]
  BY DEF TypeOK, OpenSecond
<1>2. t \in Sides(d) /\ Sides(d) \subseteq Teams /\ Opponent(d, t) \in Sides(d)
  BY RosterAssumption DEF OpenSecond, MayOpen, DuelOpen, Sides, Opponent
<1>3. Published(opening', d, t) \subseteq Duels \X Teams \X Openings
  <2>1. \A s \in Sides(d) : opening'[d][s] \in Openings
    BY <1>1, <1>2 DEF TypeOK, OpenSecond, Sides, Opponent
  <2> QED BY <1>2, <2>1 DEF Published
<1>4. ledger' \subseteq Duels \X Teams \X Openings
  BY <1>3 DEF OpenSecond, TypeOK
<1>5. outcome' \in [Duels -> [Teams -> Outcomes]]
  BY DEF TypeOK, OpenSecond, Result, Outcomes
<1>6. status' \in [Duels -> [Teams -> Statuses]]
  BY DEF TypeOK, OpenSecond, Statuses
<1>7. score' \in [Teams -> Nat]
  BY FlooredNat DEF OpenSecond
<1>8. judged' \in [Teams -> [Teams -> [Gens -> Nat]]]
  BY DEF TypeOK, OpenSecond
<1>9. budget' \in [Teams -> [Teams -> [Gens -> Nat]]]
  BY SweptType DEF TypeOK, OpenSecond
<1>10. pred' \in [Duels -> [Teams -> [Teams -> Predictions \cup {None}]]]
  BY ClearedType DEF OpenSecond
<1> QED BY <1>1, <1>4, <1>5, <1>6, <1>7, <1>8, <1>9, <1>10 DEF TypeOK, OpenSecond

LEMMA PredictType ==
    ASSUME TypeOK, NEW a \in Teams, NEW d \in Duels, NEW t \in Teams, NEW hand \in Hands,
           Predict(a, d, t, hand)
    PROVE  TypeOK'
<1>1. pred' \in [Duels -> [Teams -> [Teams -> Predictions \cup {None}]]]
  BY DEF TypeOK, Predict, Predictions
<1>2. budget' \in [Teams -> [Teams -> [Gens -> Nat]]]
  BY DEF TypeOK, Predict, Reserve
<1> QED BY <1>1, <1>2 DEF TypeOK, Predict

LEMMA HuntType ==
    ASSUME TypeOK, NEW a \in Teams, NEW t \in Teams, NEW right \in BOOLEAN, Hunt(a, t, right)
    PROVE  TypeOK'
<1>0. score \in [Teams -> Nat] /\ score' = HuntScore(a, t, right)
  BY DEF TypeOK, Hunt
<1>a. score[a] + HuntBonus \in Nat
  BY <1>0, PriceAssumption
<1>b. Floored(score[t] - HuntPenalty) \in Nat /\ Floored(score[a] - WrongHunt) \in Nat
  BY FlooredNat
<1>1. score' \in [Teams -> Nat]
  BY <1>0, <1>a, <1>b DEF HuntScore
<1>2. hunted' \subseteq Teams \X Teams \X Gens
  BY DEF TypeOK, Hunt
<1>3. budget' \in [Teams -> [Teams -> [Gens -> Nat]]] /\ judged' \in [Teams -> [Teams -> [Gens -> Nat]]]
  BY DEF TypeOK, Hunt
<1> QED BY <1>1, <1>2, <1>3 DEF TypeOK, Hunt

LEMMA RotateType ==
    ASSUME TypeOK, NEW t \in Teams, NEW fee \in RotateFees, Rotate(t, fee)
    PROVE  TypeOK'
<1>1. gen' \in [Teams -> Gens]
  BY BudgetAssumption DEF TypeOK, Rotate, Gens
<1>2. rotatedAt' \in [Teams -> Nat \cup {None}]
  BY ClockAssumption DEF TypeOK, Rotate
<1>3. score' \in [Teams -> Nat]
  BY FlooredNat DEF TypeOK, Rotate
<1>4. budget' \in [Teams -> [Teams -> [Gens -> Nat]]]
  BY PrunedType DEF TypeOK, Rotate
<1> QED BY <1>1, <1>2, <1>3, <1>4 DEF TypeOK, Rotate, DuelsAfterRotate

LEMMA RefundedType ==
    ASSUME TypeOK, ReservationsBacked, NEW D
    PROVE  Refunded(D) \in [Teams -> [Teams -> [Gens -> Nat]]]
<1>1. ASSUME NEW a \in Teams, NEW t \in Teams, NEW g \in Gens
      PROVE  budget[a][t][g] - Refunds(D, a, t, g) \in Nat
  <2>1. Refunds(D, a, t, g) \in Nat
    BY ClearedReserved
  <2>2. Cardinality(Reserved(Cleared(D), a, t, g)) + Refunds(D, a, t, g)
            = Cardinality(Reserved(pred, a, t, g))
    BY ClearedReserved
  <2>3. Cardinality(Reserved(Cleared(D), a, t, g)) \in Nat
    BY ReservedFinite
  <2>4. budget[a][t][g] \in Nat /\ Cardinality(Reserved(pred, a, t, g)) <= budget[a][t][g]
    BY DEF TypeOK, ReservationsBacked
  <2> QED BY <2>1, <2>2, <2>3, <2>4
<1> QED BY <1>1 DEF Refunded

LEMMA TickType ==
    ASSUME TypeOK, ReservationsBacked, NEW delivered, Tick(delivered)
    PROVE  TypeOK'
<1> DEFINE D == Lapsing(now + 1)
<1>1. now' \in 0..MatchEnd
  BY ClockAssumption DEF TypeOK, Tick, Running
<1>2. status' \in [Duels -> [Teams -> Statuses]]
  BY DEF TypeOK, Tick, Statuses
<1>3. outcome' \in [Duels -> [Teams -> Outcomes]]
  BY DEF TypeOK, Tick, Outcomes
<1>4. score' \in [Teams -> Nat]
  <2>1. \A t \in Teams : LateScore(D, t) \in Nat
    BY FlooredNat DEF LateScore
  <2> QED BY <2>1 DEF Tick
<1>5. pred' \in [Duels -> [Teams -> [Teams -> Predictions \cup {None}]]]
  BY ClearedType DEF Tick
<1>6. budget' \in [Teams -> [Teams -> [Gens -> Nat]]]
  BY RefundedType, SweptType DEF Tick
<1> QED BY <1>1, <1>2, <1>3, <1>4, <1>5, <1>6 DEF TypeOK, Tick

-----------------------------------------------------------------------------
(* The budget part of the invariant.                                       *)

LEMMA InvBacked == IInv => ReservationsBacked
<1> SUFFICES ASSUME IInv, NEW a \in Teams, NEW t \in Teams, NEW g \in Gens
             PROVE  Cardinality(Reserved(pred, a, t, g)) <= budget[a][t][g]
  BY DEF ReservationsBacked
<1>1. judged[a][t][g] \in Nat
  BY DEF IInv, TypeOK
<1>2. CASE Reserved(pred, a, t, g) = {}
  <2>1. budget[a][t][g] \in Nat
    BY DEF IInv, TypeOK
  <2> QED BY <1>2, <2>1, FS_EmptySet
<1>3. CASE Reserved(pred, a, t, g) # {}
  <2>1. budget[a][t][g] = judged[a][t][g] + Cardinality(Reserved(pred, a, t, g))
    BY <1>3 DEF IInv, RowsExact
  <2> QED BY <1>1, <2>1, ReservedFinite
<1> QED BY <1>2, <1>3

LEMMA InvSwept == IInv => RetiredRowsSwept
BY DEF IInv, RowsExact, RetiredRowsSwept

LEMMA InitIInv == Init => IInv
<1> SUFFICES ASSUME Init PROVE IInv
  OBVIOUS
<1>1. TypeOK
  BY InitType
<1>2. \A a \in Teams, t \in Teams, g \in Gens : Reserved(pred, a, t, g) = {}
  BY DEF Init, Reserved
<1>c. \A a \in Teams, t \in Teams, g \in Gens : Cardinality(Reserved(pred, a, t, g)) = 0
  BY <1>2, FS_EmptySet
<1>z. \A a \in Teams, t \in Teams, g \in Gens : judged[a][t][g] = 0 /\ budget[a][t][g] = 0
  BY DEF Init
<1>3. PredictionsPlaced
  BY DEF Init, PredictionsPlaced
<1>4. RowsExact
  BY <1>c, <1>z DEF RowsExact
<1>5. AttemptsHonoured
  BY <1>c, <1>z, BudgetAssumption DEF AttemptsHonoured
<1>6. FutureUnjudged
  BY DEF Init, FutureUnjudged
<1> QED BY <1>1, <1>3, <1>4, <1>5, <1>6 DEF IInv

\* A step that touches neither generations, predictions nor counters.
LEMMA QuietStep ==
    ASSUME IInv, TypeOK', UNCHANGED <<gen, pred, budget, judged>>
    PROVE  IInv'
<1>1. \A a \in Teams, t \in Teams, g \in Gens : Reserved(pred', a, t, g) = Reserved(pred, a, t, g)
  OBVIOUS
<1>2. PredictionsPlaced'
  BY DEF IInv, PredictionsPlaced
<1>3. RowsExact'
  BY DEF IInv, RowsExact
<1>4. AttemptsHonoured'
  BY DEF IInv, AttemptsHonoured
<1>5. FutureUnjudged'
  BY DEF IInv, FutureUnjudged
<1> QED BY <1>2, <1>3, <1>4, <1>5 DEF IInv

\* Reserving an attempt for duel d: one more reserved duel in one row.
LEMMA PredictIInv ==
    ASSUME IInv, NEW x \in Teams, NEW d \in Duels, NEW t \in Teams, NEW hand \in Hands,
           Predict(x, d, t, hand)
    PROVE  IInv'
<1> DEFINE G == gen[t]
           R(a, s, g) == Reserved(pred, a, s, g)
           RN(a, s, g) == Reserved(pred', a, s, g)
<1>1. TypeOK /\ TypeOK' /\ G \in Gens
  BY PredictType DEF IInv, TypeOK
<1>2. /\ pred' = [pred EXCEPT ![d][t][x] = [hand |-> hand, gen |-> G]]
      /\ budget' = [budget EXCEPT ![x][t][G] = @ + 1]
      /\ gen' = gen /\ judged' = judged /\ pred[d][t][x] = None /\ t \in Sides(d)
      /\ budget[x][t][G] < MaxAttempts
  BY DEF Predict, Reserve, CanPredict, HasAttempt
<1>3. [hand |-> hand, gen |-> G] # None
  BY <1>1, NoneAssumption DEF Predictions
<1>4. RN(x, t, G) = R(x, t, G) \cup {d} /\ d \notin R(x, t, G)
  BY <1>1, <1>2, <1>3 DEF TypeOK, Reserved
<1>5. Cardinality(RN(x, t, G)) = Cardinality(R(x, t, G)) + 1
  BY <1>4, ReservedFinite, FS_AddElement
<1>6. \A a \in Teams, s \in Teams, g \in Gens :
          <<a, s, g>> # <<x, t, G>> => RN(a, s, g) = R(a, s, g)
  BY <1>1, <1>2, <1>3 DEF TypeOK, Reserved
<1>7. /\ budget'[x][t][G] = budget[x][t][G] + 1
      /\ \A a \in Teams, s \in Teams, g \in Gens :
            <<a, s, g>> # <<x, t, G>> => budget'[a][s][g] = budget[a][s][g]
  BY <1>1, <1>2 DEF TypeOK
<1>8. \A a \in Teams, s \in Teams, g \in Gens :
          Cardinality(R(a, s, g)) \in Nat /\ judged[a][s][g] \in Nat /\ budget[a][s][g] \in Nat
  BY <1>1, ReservedFinite DEF TypeOK
<1>9. budget[x][t][G] = judged[x][t][G] + Cardinality(R(x, t, G))
  BY <1>1 DEF IInv, RowsExact
<1>g. gen' = gen /\ judged' = judged
  BY <1>2
<1>10. PredictionsPlaced'
  <2> SUFFICES ASSUME NEW e \in Duels, NEW s \in Teams, NEW a \in Teams, pred'[e][s][a] # None
               PROVE  s \in Sides(e) /\ pred'[e][s][a].gen <= gen[s]
    BY <1>g DEF PredictionsPlaced
  <2>1. CASE e = d /\ s = t /\ a = x
    <3>1. pred'[e][s][a] = [hand |-> hand, gen |-> G]
      BY <1>1, <1>2, <2>1 DEF TypeOK
    <3>2. G <= G
      BY <1>1, BudgetAssumption DEF Gens
    <3> QED BY <1>2, <2>1, <3>1, <3>2
  <2>2. CASE ~(e = d /\ s = t /\ a = x)
    <3>1. pred'[e][s][a] = pred[e][s][a]
      BY <1>1, <1>2, <2>2 DEF TypeOK
    <3> QED BY <3>1 DEF IInv, PredictionsPlaced
  <2> QED BY <2>1, <2>2
<1>11. RowsExact'
  <2> SUFFICES ASSUME NEW a \in Teams, NEW s \in Teams, NEW g \in Gens
               PROVE  budget'[a][s][g] =
                        IF g = gen[s] \/ RN(a, s, g) # {}
                        THEN judged[a][s][g] + Cardinality(RN(a, s, g)) ELSE 0
    BY <1>g DEF RowsExact
  <2>1. CASE <<a, s, g>> = <<x, t, G>>
    BY <2>1, <1>5, <1>7, <1>8, <1>9
  <2>2. CASE <<a, s, g>> # <<x, t, G>>
    BY <2>2, <1>6, <1>7 DEF IInv, RowsExact
  <2> QED BY <2>1, <2>2
<1>12. AttemptsHonoured'
  <2> SUFFICES ASSUME NEW a \in Teams, NEW s \in Teams, NEW g \in Gens
               PROVE  judged[a][s][g] + Cardinality(RN(a, s, g)) <= MaxAttempts
    BY <1>g DEF AttemptsHonoured
  <2>1. CASE <<a, s, g>> = <<x, t, G>>
    BY <2>1, <1>2, <1>5, <1>8, <1>9, BudgetAssumption
  <2>2. CASE <<a, s, g>> # <<x, t, G>>
    BY <2>2, <1>6 DEF IInv, AttemptsHonoured
  <2> QED BY <2>1, <2>2
<1>13. FutureUnjudged'
  BY <1>g DEF IInv, FutureUnjudged
<1> QED BY <1>1, <1>10, <1>11, <1>12, <1>13 DEF IInv

\* An answered hunt moves one attempt from free to judged.
LEMMA HuntIInv ==
    ASSUME IInv, NEW x \in Teams, NEW t \in Teams, NEW right \in BOOLEAN, Hunt(x, t, right)
    PROVE  IInv'
<1> DEFINE G == gen[t]
           R(a, s, g) == Reserved(pred, a, s, g)
<1>0. TypeOK
  BY DEF IInv
<1>t. TypeOK'
  BY <1>0, HuntType
<1>1. TypeOK /\ TypeOK' /\ G \in Gens
  BY <1>0, <1>t DEF TypeOK
<1>2. /\ budget' = [budget EXCEPT ![x][t][G] = @ + 1]
      /\ judged' = [judged EXCEPT ![x][t][G] = @ + 1]
      /\ gen' = gen /\ pred' = pred /\ budget[x][t][G] < MaxAttempts
  BY DEF Hunt, HasAttempt
<1>3. /\ budget'[x][t][G] = budget[x][t][G] + 1
      /\ judged'[x][t][G] = judged[x][t][G] + 1
      /\ \A a \in Teams, s \in Teams, g \in Gens : <<a, s, g>> # <<x, t, G>> =>
            budget'[a][s][g] = budget[a][s][g] /\ judged'[a][s][g] = judged[a][s][g]
  BY <1>1, <1>2 DEF TypeOK
<1>4. \A a \in Teams, s \in Teams, g \in Gens :
          Cardinality(R(a, s, g)) \in Nat /\ judged[a][s][g] \in Nat /\ budget[a][s][g] \in Nat
  BY <1>1, ReservedFinite DEF TypeOK
<1>5. budget[x][t][G] = judged[x][t][G] + Cardinality(R(x, t, G))
  BY <1>1 DEF IInv, RowsExact
<1>6. RowsExact'
  <2> SUFFICES ASSUME NEW a \in Teams, NEW s \in Teams, NEW g \in Gens
               PROVE  budget'[a][s][g] =
                        IF g = gen[s] \/ R(a, s, g) # {}
                        THEN judged'[a][s][g] + Cardinality(R(a, s, g)) ELSE 0
    BY <1>2 DEF RowsExact
  <2>1. CASE <<a, s, g>> = <<x, t, G>>
    BY <2>1, <1>3, <1>4, <1>5
  <2>2. CASE <<a, s, g>> # <<x, t, G>>
    BY <2>2, <1>3 DEF IInv, RowsExact
  <2> QED BY <2>1, <2>2
<1>7. AttemptsHonoured'
  <2> SUFFICES ASSUME NEW a \in Teams, NEW s \in Teams, NEW g \in Gens
               PROVE  judged'[a][s][g] + Cardinality(R(a, s, g)) <= MaxAttempts
    BY <1>2 DEF AttemptsHonoured
  <2>1. CASE <<a, s, g>> = <<x, t, G>>
    BY <2>1, <1>2, <1>3, <1>4, <1>5, BudgetAssumption
  <2>2. CASE <<a, s, g>> # <<x, t, G>>
    BY <2>2, <1>3 DEF IInv, AttemptsHonoured
  <2> QED BY <2>1, <2>2
<1>8. FutureUnjudged'
  <2> SUFFICES ASSUME NEW a \in Teams, NEW s \in Teams, NEW g \in Gens, g > gen[s]
               PROVE  judged'[a][s][g] = 0
    BY <1>2 DEF FutureUnjudged
  <2>1. <<a, s, g>> # <<x, t, G>>
    BY <1>1, BudgetAssumption DEF Gens
  <2> QED BY <1>3, <2>1 DEF IInv, FutureUnjudged
<1>9. PredictionsPlaced'
  BY <1>2 DEF IInv, PredictionsPlaced
<1> QED BY <1>1, <1>6, <1>7, <1>8, <1>9 DEF IInv

\* No prediction is pending on a generation the target has not reached.
LEMMA FutureUnreserved ==
    ASSUME IInv, NEW a \in Teams, NEW t \in Teams, NEW g \in Gens, g > gen[t]
    PROVE  Reserved(pred, a, t, g) = {}
<1>1. gen[t] \in Nat /\ g \in Nat
  BY BudgetAssumption DEF IInv, TypeOK, Gens
<1>2. \A d \in Duels : pred[d][t][a] # None => pred[d][t][a].gen <= gen[t]
  BY DEF IInv, PredictionsPlaced
<1> QED BY <1>1, <1>2 DEF Reserved

\* Rotation opens an empty row and keeps an old one only for its refunds.
LEMMA RotateIInv ==
    ASSUME IInv, NEW t \in Teams, NEW fee \in RotateFees, Rotate(t, fee)
    PROVE  IInv'
<1> DEFINE R(a, s, g) == Reserved(pred, a, s, g)
<1>0. TypeOK
  BY DEF IInv
<1>t. TypeOK'
  BY <1>0, RotateType
<1>1. /\ gen' = [gen EXCEPT ![t] = @ + 1]
      /\ pred' = pred /\ judged' = judged
      /\ budget' = Pruned(budget, gen', pred)
  BY DEF Rotate
<1>g. pred' = pred /\ judged' = judged
  BY <1>1
<1>n. \A s \in Teams : gen[s] \in Nat /\ gen'[s] \in Nat
  <2>1. gen \in [Teams -> Gens] /\ gen' \in [Teams -> Gens]
    BY <1>0, <1>t DEF TypeOK
  <2>2. Gens \subseteq Nat
    BY BudgetAssumption DEF Gens
  <2> QED BY <2>1, <2>2
<1>e. gen'[t] = gen[t] + 1 /\ \A s \in Teams : s # t => gen'[s] = gen[s]
  BY <1>0, <1>1 DEF TypeOK
<1>2. /\ gen'[t] = gen[t] + 1 /\ gen[t] \in Nat
      /\ \A s \in Teams : s # t => gen'[s] = gen[s]
      /\ \A s \in Teams : gen[s] \in Nat /\ gen'[s] \in Nat /\ gen[s] <= gen'[s]
  BY <1>n, <1>e
<1>3. \A a \in Teams, s \in Teams, g \in Gens :
          budget'[a][s][g] =
              IF g = gen'[s] \/ R(a, s, g) # {} THEN budget[a][s][g] ELSE 0
  BY <1>1 DEF Pruned
<1>4. RowsExact'
  <2> SUFFICES ASSUME NEW a \in Teams, NEW s \in Teams, NEW g \in Gens
               PROVE  budget'[a][s][g] =
                        IF g = gen'[s] \/ R(a, s, g) # {}
                        THEN judged[a][s][g] + Cardinality(R(a, s, g)) ELSE 0
    BY <1>g DEF RowsExact
  <2>1. budget[a][s][g] = IF g = gen[s] \/ R(a, s, g) # {}
                          THEN judged[a][s][g] + Cardinality(R(a, s, g)) ELSE 0
    BY DEF IInv, RowsExact
  <2>2. CASE R(a, s, g) # {} \/ s # t \/ g # gen'[s]
    BY <2>1, <2>2, <1>2, <1>3
  <2>3. CASE R(a, s, g) = {} /\ s = t /\ g = gen'[s]
    <3>1. g > gen[s]
      BY <1>2, <2>3
    <3>2. judged[a][s][g] = 0
      BY <3>1 DEF IInv, FutureUnjudged
    <3>3. Cardinality(R(a, s, g)) = 0
      BY <2>3, FS_EmptySet
    <3>4. g # gen[s]
      BY <3>1, <1>2
    <3>5. budget[a][s][g] = 0
      BY <2>1, <2>3, <3>4
    <3> QED BY <1>3, <2>3, <3>2, <3>3, <3>5
  <2> QED BY <2>2, <2>3
<1>5. PredictionsPlaced'
  <2> SUFFICES ASSUME NEW d \in Duels, NEW s \in Teams, NEW a \in Teams, pred[d][s][a] # None
               PROVE  s \in Sides(d) /\ pred[d][s][a].gen <= gen'[s]
    BY <1>g DEF PredictionsPlaced
  <2>1. s \in Sides(d) /\ pred[d][s][a].gen <= gen[s]
    BY DEF IInv, PredictionsPlaced
  <2>2. pred[d][s][a] \in Predictions
    BY <1>0 DEF TypeOK
  <2>3. pred[d][s][a].gen \in Nat
    BY <2>2, BudgetAssumption DEF Predictions, Gens
  <2> QED BY <1>2, <2>1, <2>3
<1>6. AttemptsHonoured'
  BY <1>g DEF IInv, AttemptsHonoured
<1>7. FutureUnjudged'
  <2> SUFFICES ASSUME NEW a \in Teams, NEW s \in Teams, NEW g \in Gens, g > gen'[s]
               PROVE  judged[a][s][g] = 0
    BY <1>g DEF FutureUnjudged
  <2>1. g \in Nat
    BY BudgetAssumption DEF Gens
  <2>2. g > gen[s]
    BY <1>2, <2>1
  <2> QED BY <2>2 DEF IInv, FutureUnjudged
<1> QED BY <1>t, <1>4, <1>5, <1>6, <1>7 DEF IInv

-----------------------------------------------------------------------------
(* Closing Orders.                                                         *)

\* Sweeping after Orders D close leaves exact rows, if they were exact up to
\* rows that only the closed Orders kept alive.
LEMMA SweptRows ==
    ASSUME NEW D, NEW b, NEW a \in Teams, NEW t \in Teams, NEW g \in Gens, NEW n,
           b[a][t][g] = IF g = gen[t] \/ Reserved(pred, a, t, g) # {} THEN n ELSE 0
    PROVE  Swept(D, b)[a][t][g] =
              IF g = gen[t] \/ Reserved(Cleared(D), a, t, g) # {} THEN n ELSE 0
<1> DEFINE R == Reserved(pred, a, t, g)
           RC == Reserved(Cleared(D), a, t, g)
<1>1. RC = R \ {d \in R : <<d, t>> \in D} /\ RC \subseteq R
  BY ClearedReserved
<1>b. b[a][t][g] = IF g = gen[t] \/ R # {} THEN n ELSE 0
  OBVIOUS
<1>2. CASE RetiredIn(D)
  <2>1. Swept(D, b)[a][t][g] = IF g = gen[t] \/ RC # {} THEN b[a][t][g] ELSE 0
    BY <1>2 DEF Swept, Pruned
  <2>2. g = gen[t] \/ RC # {} => b[a][t][g] = n
    BY <1>1, <1>b
  <2> QED BY <2>1, <2>2
<1>3. CASE ~RetiredIn(D)
  <2>1. Swept(D, b) = b
    BY <1>3 DEF Swept
  <2>2. ASSUME g # gen[t], RC = {} PROVE R = {}
    <3> SUFFICES ASSUME NEW d \in R PROVE FALSE
      OBVIOUS
    <3>1. <<d, t>> \in D
      BY <1>1, <2>2
    <3>2. d \in Duels /\ pred[d][t][a] # None /\ pred[d][t][a].gen = g
      BY DEF Reserved
    <3> QED BY <1>3, <2>2, <3>1, <3>2 DEF RetiredIn
  <2>3. g = gen[t] \/ RC # {} => g = gen[t] \/ R # {}
    BY <1>1
  <2> QED BY <1>b, <2>1, <2>2, <2>3
<1> QED BY <1>2, <1>3

\* Removing predictions keeps the others where they were.
LEMMA ClearedPlaced ==
    ASSUME IInv, NEW D, pred' = Cleared(D), gen' = gen
    PROVE  PredictionsPlaced'
<1> SUFFICES ASSUME NEW d \in Duels, NEW s \in Teams, NEW a \in Teams, Cleared(D)[d][s][a] # None
             PROVE  s \in Sides(d) /\ Cleared(D)[d][s][a].gen <= gen[s]
  BY DEF PredictionsPlaced
<1>1. Cleared(D)[d][s][a] = pred[d][s][a]
  BY DEF Cleared
<1> QED BY <1>1 DEF IInv, PredictionsPlaced

\* A timeout gives back exactly what was reserved.
LEMMA TickIInv ==
    ASSUME IInv, NEW delivered, Tick(delivered)
    PROVE  IInv'
<1> DEFINE D == Lapsing(now + 1)
           R(a, s, g) == Reserved(pred, a, s, g)
           RC(a, s, g) == Reserved(Cleared(D), a, s, g)
<1>0. TypeOK /\ ReservationsBacked
  BY InvBacked DEF IInv
<1>t. TypeOK'
  BY <1>0, TickType
<1>1. gen' = gen /\ judged' = judged
  BY DEF Tick
<1>2. pred' = Cleared(D) /\ budget' = Swept(D, Refunded(D))
  BY DEF Tick
<1>3. \A a \in Teams, s \in Teams, g \in Gens :
          Refunded(D)[a][s][g] =
              IF g = gen[s] \/ R(a, s, g) # {}
              THEN judged[a][s][g] + Cardinality(RC(a, s, g)) ELSE 0
  <2> SUFFICES ASSUME NEW a \in Teams, NEW s \in Teams, NEW g \in Gens
               PROVE  Refunded(D)[a][s][g] =
                        IF g = gen[s] \/ R(a, s, g) # {}
                        THEN judged[a][s][g] + Cardinality(RC(a, s, g)) ELSE 0
    OBVIOUS
  <2>1. Refunded(D)[a][s][g] = budget[a][s][g] - Refunds(D, a, s, g)
    BY DEF Refunded
  <2>2. budget[a][s][g] = IF g = gen[s] \/ R(a, s, g) # {}
                          THEN judged[a][s][g] + Cardinality(R(a, s, g)) ELSE 0
    BY DEF IInv, RowsExact
  <2>3. /\ Refunds(D, a, s, g) \in Nat
        /\ Cardinality(RC(a, s, g)) + Refunds(D, a, s, g) = Cardinality(R(a, s, g))
    BY ClearedReserved
  <2>4. Cardinality(RC(a, s, g)) \in Nat /\ Cardinality(R(a, s, g)) \in Nat /\ judged[a][s][g] \in Nat
    BY <1>0, ReservedFinite DEF TypeOK
  <2>5. R(a, s, g) = {} => Cardinality(R(a, s, g)) = 0
    BY FS_EmptySet
  <2> QED BY <2>1, <2>2, <2>3, <2>4, <2>5
<1>4. \A a \in Teams, s \in Teams, g \in Gens :
          Swept(D, Refunded(D))[a][s][g] =
              IF g = gen[s] \/ RC(a, s, g) # {}
              THEN judged[a][s][g] + Cardinality(RC(a, s, g)) ELSE 0
  <2> SUFFICES ASSUME NEW a \in Teams, NEW s \in Teams, NEW g \in Gens
               PROVE  Swept(D, Refunded(D))[a][s][g] =
                        IF g = gen[s] \/ RC(a, s, g) # {}
                        THEN judged[a][s][g] + Cardinality(RC(a, s, g)) ELSE 0
    OBVIOUS
  <2> DEFINE n == judged[a][s][g] + Cardinality(RC(a, s, g))
             b == Refunded(D)
  <2>1. b[a][s][g] = IF g = gen[s] \/ R(a, s, g) # {} THEN n ELSE 0
    BY <1>3
  <2> HIDE DEF n, b, D
  <2>2. Swept(D, b)[a][s][g] = IF g = gen[s] \/ RC(a, s, g) # {} THEN n ELSE 0
    BY <2>1, SweptRows
  <2> QED BY <2>2 DEF n, b
<1>5. RowsExact'
  BY <1>1, <1>2, <1>4 DEF RowsExact
<1>6. AttemptsHonoured'
  <2> SUFFICES ASSUME NEW a \in Teams, NEW s \in Teams, NEW g \in Gens
               PROVE  judged[a][s][g] + Cardinality(RC(a, s, g)) <= MaxAttempts
    BY <1>1, <1>2 DEF AttemptsHonoured
  <2>1. judged[a][s][g] + Cardinality(R(a, s, g)) <= MaxAttempts
    BY DEF IInv, AttemptsHonoured
  <2>2. /\ Refunds(D, a, s, g) \in Nat
        /\ Cardinality(RC(a, s, g)) + Refunds(D, a, s, g) = Cardinality(R(a, s, g))
    BY ClearedReserved
  <2>3. Cardinality(RC(a, s, g)) \in Nat /\ Cardinality(R(a, s, g)) \in Nat /\ judged[a][s][g] \in Nat
    BY <1>0, ReservedFinite DEF TypeOK
  <2> QED BY <2>1, <2>2, <2>3, BudgetAssumption
<1>7. PredictionsPlaced'
  BY <1>1, <1>2, ClearedPlaced
<1>8. FutureUnjudged'
  BY <1>1 DEF IInv, FutureUnjudged
<1> QED BY <1>t, <1>5, <1>6, <1>7, <1>8 DEF IInv

\* Publication turns every reservation about the duel into a judged answer.
LEMMA OpenSecondIInv ==
    ASSUME IInv, NEW d \in Duels, NEW t \in Teams, NEW o \in Openings, OpenSecond(d, t, o)
    PROVE  IInv'
<1> DEFINE D == {d} \X Sides(d)
           R(a, s, g) == Reserved(pred, a, s, g)
           RC(a, s, g) == Reserved(Cleared(D), a, s, g)
<1>0. TypeOK
  BY DEF IInv
<1>t. TypeOK'
  BY <1>0, OpenSecondType
<1>1. gen' = gen /\ pred' = Cleared(D) /\ budget' = Swept(D, budget)
  BY DEF OpenSecond
<1>2. \A a \in Teams, s \in Teams, g \in Gens :
          judged'[a][s][g] = judged[a][s][g] + IF d \in R(a, s, g) THEN 1 ELSE 0
  BY DEF OpenSecond
<1>3. ASSUME NEW a \in Teams, NEW s \in Teams, NEW g \in Gens
      PROVE  /\ judged'[a][s][g] + Cardinality(RC(a, s, g))
                  = judged[a][s][g] + Cardinality(R(a, s, g))
             /\ R(a, s, g) = {} => judged'[a][s][g] = judged[a][s][g]
  <2>1. RC(a, s, g) = R(a, s, g) \ {d}
    <3>1. d \in R(a, s, g) => s \in Sides(d)
      BY DEF IInv, PredictionsPlaced, Reserved
    <3>2. RC(a, s, g) = R(a, s, g) \ {e \in R(a, s, g) : <<e, s>> \in D}
      BY ClearedReserved
    <3> QED BY <3>1, <3>2
  <2>2. IsFiniteSet(R(a, s, g)) /\ Cardinality(R(a, s, g)) \in Nat /\ Cardinality(RC(a, s, g)) \in Nat
    BY ReservedFinite
  <2>3. Cardinality(RC(a, s, g)) =
            IF d \in R(a, s, g) THEN Cardinality(R(a, s, g)) - 1 ELSE Cardinality(R(a, s, g))
    BY <2>1, <2>2, FS_RemoveElement
  <2>4. judged[a][s][g] \in Nat
    BY <1>0 DEF TypeOK
  <2> QED BY <1>2, <2>2, <2>3, <2>4
<1>4. ASSUME NEW a \in Teams, NEW s \in Teams, NEW g \in Gens
      PROVE  Swept(D, budget)[a][s][g] =
                IF g = gen[s] \/ RC(a, s, g) # {}
                THEN judged'[a][s][g] + Cardinality(RC(a, s, g)) ELSE 0
  <2> DEFINE n == judged'[a][s][g] + Cardinality(RC(a, s, g))
  <2>1. budget[a][s][g] = IF g = gen[s] \/ R(a, s, g) # {}
                          THEN judged[a][s][g] + Cardinality(R(a, s, g)) ELSE 0
    BY DEF IInv, RowsExact
  <2>2. budget[a][s][g] = IF g = gen[s] \/ R(a, s, g) # {} THEN n ELSE 0
    BY <2>1, <1>3
  <2> HIDE DEF n, D
  <2>3. Swept(D, budget)[a][s][g] = IF g = gen[s] \/ RC(a, s, g) # {} THEN n ELSE 0
    BY <2>2, SweptRows
  <2> QED BY <2>3 DEF n
<1>6. RowsExact'
  <2> SUFFICES ASSUME NEW a \in Teams, NEW s \in Teams, NEW g \in Gens
               PROVE  Swept(D, budget)[a][s][g] =
                        IF g = gen[s] \/ RC(a, s, g) # {}
                        THEN judged'[a][s][g] + Cardinality(RC(a, s, g)) ELSE 0
    <3> HIDE DEF D
    <3> QED BY <1>1 DEF RowsExact
  <2> HIDE DEF D
  <2> QED BY <1>4
<1>7. AttemptsHonoured'
  <2> SUFFICES ASSUME NEW a \in Teams, NEW s \in Teams, NEW g \in Gens
               PROVE  judged'[a][s][g] + Cardinality(RC(a, s, g)) <= MaxAttempts
    BY <1>1 DEF AttemptsHonoured
  <2> QED BY <1>3 DEF IInv, AttemptsHonoured
<1>8. PredictionsPlaced'
  BY <1>1, ClearedPlaced
<1>9. FutureUnjudged'
  <2> SUFFICES ASSUME NEW a \in Teams, NEW s \in Teams, NEW g \in Gens, g > gen[s]
               PROVE  judged'[a][s][g] = 0
    BY <1>1 DEF FutureUnjudged
  <2>1. R(a, s, g) = {}
    BY FutureUnreserved
  <2> QED BY <1>3, <2>1 DEF IInv, FutureUnjudged
<1> QED BY <1>t, <1>6, <1>7, <1>8, <1>9 DEF IInv

-----------------------------------------------------------------------------
\* The invariant is preserved by every step.
LEMMA NextIInv ==
    ASSUME IInv, [Next]_vars
    PROVE  IInv'
<1>0. TypeOK
  BY DEF IInv
<1>1. CASE \E d \in Duels, t \in Teams, c \in Sealed : Commit(d, t, c)
  <2> PICK d \in Duels, t \in Teams, c \in Sealed : Commit(d, t, c)
    BY <1>1
  <2> QED BY <1>0, CommitType, QuietStep DEF Commit
<1>2. CASE \E d \in Duels, t \in Teams, o \in Openings : OpenFirst(d, t, o)
  <2> PICK d \in Duels, t \in Teams, o \in Openings : OpenFirst(d, t, o)
    BY <1>2
  <2> QED BY <1>0, OpenFirstType, QuietStep DEF OpenFirst
<1>3. CASE \E d \in Duels, t \in Teams, o \in Openings : OpenSecond(d, t, o)
  BY <1>3, OpenSecondIInv
<1>4. CASE \E a \in Attackers, d \in Duels, t \in Teams, hand \in Hands : Predict(a, d, t, hand)
  BY <1>4, PredictIInv, RosterAssumption
<1>5. CASE \E a \in Attackers, t \in Teams, right \in BOOLEAN : Hunt(a, t, right)
  BY <1>5, HuntIInv, RosterAssumption
<1>6. CASE \E t \in Rotators, fee \in RotateFees : Rotate(t, fee)
  BY <1>6, RotateIInv, RosterAssumption
<1>7. CASE TickSome
  BY <1>7, TickIInv DEF TickSome
<1>8. CASE UNCHANGED vars
  <2>1. TypeOK'
    BY <1>0, <1>8 DEF vars, TypeOK
  <2> QED BY <1>8, <2>1, QuietStep DEF vars
<1> QED BY <1>1, <1>2, <1>3, <1>4, <1>5, <1>6, <1>7, <1>8 DEF Next

\* The inductive invariant holds in every reachable state.
THEOREM Inductive == Spec => []IInv
<1>1. Init => IInv
  BY InitIInv
<1>2. IInv /\ [Next]_vars => IInv'
  BY NextIInv
<1> QED BY <1>1, <1>2, PTL DEF Spec

\* Every variable keeps its type, and no score falls below zero.
THEOREM TypeCorrect == Spec => []TypeOK
<1>1. IInv => TypeOK
  BY DEF IInv
<1> QED BY <1>1, Inductive, PTL

\* No team is ever judged more often than the configured number of attempts.
THEOREM BudgetHonoured == Spec => []AttemptsHonoured
<1>1. IInv => AttemptsHonoured
  BY DEF IInv
<1> QED BY <1>1, Inductive, PTL

\* A cancelled prediction always finds the attempt it reserved, and counters of
\* retired generations do not accumulate.
THEOREM RefundsExact == Spec => []ReservationsExact
<1>1. IInv => ReservationsExact
  BY InvBacked, InvSwept DEF ReservationsExact
<1> QED BY <1>1, Inductive, PTL
-----------------------------------------------------------------------------
(* The life of a duel.  Its two Orders go through these stages together.    *)

Unpublished(d) == \A e \in ledger : e[1] # d

Untouched(d) ==
    /\ \A t \in Sides(d) : /\ status[d][t] = "absent" /\ outcome[d][t] = "none"
                           /\ sealed[d][t] = None /\ opening[d][t] = None
    /\ Unpublished(d)

\* The judge never holds both openings of a duel that is still open.
InPlay(d) ==
    /\ \A t \in Sides(d) : /\ status[d][t] = "open" /\ outcome[d][t] = "none"
                           /\ opening[d][t] # None => sealed[d][t] # None
    /\ \E t \in Sides(d) : opening[d][t] = None
    /\ Unpublished(d)

Shown(d) ==
    /\ \A t \in Sides(d) : /\ status[d][t] = "completed"
                           /\ \E e \in ledger : e[1] = d /\ e[2] = t
    /\ \A e \in ledger : e[1] = d => e[2] \in Sides(d)
    /\ \/ outcome[d][Home[d]] = "win" /\ outcome[d][Away[d]] = "loss"
       \/ outcome[d][Home[d]] = "loss" /\ outcome[d][Away[d]] = "win"
       \/ outcome[d][Home[d]] = "draw" /\ outcome[d][Away[d]] = "draw"

Late(d, t) == status[d][t] = "expired" /\ outcome[d][t] = "none"
Forfeit(d, t) == status[d][t] = "completed" /\ outcome[d][t] = "forfeit-win"
Lapsed(d) ==
    /\ \/ Late(d, Home[d]) /\ (Late(d, Away[d]) \/ Forfeit(d, Away[d]))
       \/ Late(d, Away[d]) /\ Forfeit(d, Home[d])
    /\ Unpublished(d)

Staged(d) ==
    \/ Untouched(d)
    \/ IssueAt[d] <= now /\ (InPlay(d) \/ Shown(d) \/ Lapsed(d))

StagesInv == \A d \in Duels : Staged(d)
LEMMA SidesOf ==
    ASSUME NEW d \in Duels
    PROVE  /\ Home[d] \in Teams /\ Away[d] \in Teams /\ Home[d] # Away[d]
           /\ Sides(d) = {Home[d], Away[d]} /\ Sides(d) \subseteq Teams
           /\ \A t \in Sides(d) : Opponent(d, t) \in Sides(d) /\ Sides(d) = {t, Opponent(d, t)}
BY RosterAssumption DEF Sides, Opponent

LEMMA InitStages == Init => StagesInv
<1> SUFFICES ASSUME Init, NEW d \in Duels PROVE Untouched(d)
  BY DEF StagesInv, Staged
<1> QED BY SidesOf DEF Init, Untouched, Unpublished

\* A duel none of whose parts changes stays where it is.
LEMMA SameStage ==
    ASSUME TypeOK, TypeOK', NEW d \in Duels, Staged(d), now' >= now,
           status'[d] = status[d], outcome'[d] = outcome[d], sealed'[d] = sealed[d],
           opening'[d] = opening[d],
           \A e : e[1] = d => (e \in ledger' <=> e \in ledger)
    PROVE  Staged(d)'
<1>1. Unpublished(d)' <=> Unpublished(d)
  BY DEF Unpublished
<1>2. Untouched(d) => Untouched(d)'
  BY <1>1 DEF Untouched
<1>3. InPlay(d) => InPlay(d)'
  BY <1>1 DEF InPlay
<1>4. Shown(d) => Shown(d)'
  BY DEF Shown
<1>5. Lapsed(d) => Lapsed(d)'
  BY <1>1 DEF Lapsed, Late, Forfeit
<1>6. IssueAt[d] <= now => IssueAt[d] <= now'
  <2>1. now \in Int /\ now' \in Int /\ IssueAt[d] \in Int
    BY ClockAssumption DEF TypeOK
  <2> QED BY <2>1
<1> QED BY <1>2, <1>3, <1>4, <1>5, <1>6 DEF Staged

\* Only a duel in play lets anybody move in it.
LEMMA OpenMeansInPlay ==
    ASSUME NEW d \in Duels, Staged(d), NEW t \in Sides(d), status[d][t] = "open"
    PROVE  InPlay(d) /\ IssueAt[d] <= now
BY SidesOf DEF Staged, Untouched, Shown, Lapsed, Late, Forfeit

LEMMA CommitStages ==
    ASSUME IInv, IInv', StagesInv, NEW d \in Duels, NEW t \in Teams, NEW c \in Sealed,
           Commit(d, t, c)
    PROVE  StagesInv'
<1> SUFFICES ASSUME NEW x \in Duels PROVE Staged(x)'
  BY DEF StagesInv
<1>0. TypeOK /\ TypeOK' /\ Staged(x)
  BY DEF IInv, StagesInv
<1>1. CASE x # d
  <2>1. sealed'[x] = sealed[x]
    BY <1>0, <1>1 DEF Commit, TypeOK
  <2>2. now' >= now
    BY <1>0, ClockAssumption DEF TypeOK, Commit
  <2> QED BY <1>0, <2>1, <2>2, SameStage DEF Commit
<1>2. CASE x = d
  <2>1. t \in Sides(d) /\ status[d][t] = "open"
    BY DEF Commit, MaySeal, DuelOpen
  <2>2. InPlay(d) /\ IssueAt[d] <= now
    BY <1>0, <1>2, <2>1, OpenMeansInPlay
  <2>3. \A s \in Sides(d) : sealed[d][s] # None => sealed'[d][s] # None
    BY <1>0, NoneAssumption, SidesOf DEF Commit, TypeOK
  <2>4. InPlay(d)'
    BY <2>2, <2>3, SidesOf DEF InPlay, Commit, Unpublished
  <2> QED BY <1>2, <2>2, <2>4 DEF Staged, Commit
<1> QED BY <1>1, <1>2

LEMMA OpenFirstStages ==
    ASSUME IInv, IInv', StagesInv, NEW d \in Duels, NEW t \in Teams, NEW o \in Openings,
           OpenFirst(d, t, o)
    PROVE  StagesInv'
<1> SUFFICES ASSUME NEW x \in Duels PROVE Staged(x)'
  BY DEF StagesInv
<1>0. TypeOK /\ TypeOK' /\ Staged(x)
  BY DEF IInv, StagesInv
<1>1. CASE x # d
  <2>1. opening'[x] = opening[x]
    BY <1>0, <1>1 DEF OpenFirst, TypeOK
  <2>2. now' >= now
    BY <1>0, ClockAssumption DEF TypeOK, OpenFirst
  <2> QED BY <1>0, <2>1, <2>2, SameStage DEF OpenFirst
<1>2. CASE x = d
  <2>1. /\ t \in Sides(d) /\ status[d][t] = "open" /\ sealed[d][t] # None
        /\ opening[d][Opponent(d, t)] = None
    BY DEF OpenFirst, MayOpen, DuelOpen
  <2>2. InPlay(d) /\ IssueAt[d] <= now
    BY <1>0, <1>2, <2>1, OpenMeansInPlay
  <2>3. /\ Opponent(d, t) \in Sides(d) /\ Opponent(d, t) # t
        /\ \A s \in Sides(d) : s = t \/ s = Opponent(d, t)
    BY <2>1, SidesOf DEF Opponent, Sides
  <2>4. \A s \in Teams : s # t => opening'[d][s] = opening[d][s]
    BY <1>0 DEF OpenFirst, TypeOK
  <2>5. InPlay(d)'
    <3>1. \A s \in Sides(d) : opening'[d][s] # None => sealed[d][s] # None
      BY <2>1, <2>2, <2>4, SidesOf DEF InPlay
    <3>2. opening'[d][Opponent(d, t)] = None
      BY <2>1, <2>3, <2>4, SidesOf
    <3> QED BY <2>2, <2>3, <3>1, <3>2 DEF InPlay, OpenFirst, Unpublished
  <2> QED BY <1>2, <2>2, <2>5 DEF Staged, OpenFirst
<1> QED BY <1>1, <1>2
\* Of two hands at most one beats the other, so the two results fit together.
LEMMA OneWinner ==
    ASSUME NEW m \in Nat, NEW n \in Nat
    PROVE  ~(Beats(m, n) /\ Beats(n, m))
BY DEF Beats

LEMMA ResultsFit ==
    ASSUME NEW d \in Duels, NEW opened,
           opened[d][Home[d]].hand \in Nat, opened[d][Away[d]].hand \in Nat
    PROVE  \/ Result(opened, d, Home[d]) = "win" /\ Result(opened, d, Away[d]) = "loss"
           \/ Result(opened, d, Home[d]) = "loss" /\ Result(opened, d, Away[d]) = "win"
           \/ Result(opened, d, Home[d]) = "draw" /\ Result(opened, d, Away[d]) = "draw"
<1>1. Opponent(d, Home[d]) = Away[d] /\ Opponent(d, Away[d]) = Home[d]
  BY RosterAssumption DEF Opponent
<1> DEFINE h == opened[d][Home[d]].hand
           a == opened[d][Away[d]].hand
<1>2. ~(Beats(h, a) /\ Beats(a, h))
  BY OneWinner
<1>3. Result(opened, d, Home[d]) =
          IF Beats(h, a) THEN "win" ELSE IF Beats(a, h) THEN "loss" ELSE "draw"
  BY <1>1 DEF Result
<1>4. Result(opened, d, Away[d]) =
          IF Beats(a, h) THEN "win" ELSE IF Beats(h, a) THEN "loss" ELSE "draw"
  BY <1>1 DEF Result
<1> HIDE DEF h, a
<1> QED BY <1>2, <1>3, <1>4

\* The second opening shows both sides at once, with results that fit together.
LEMMA OpenSecondStages ==
    ASSUME IInv, IInv', StagesInv, NEW d \in Duels, NEW t \in Teams, NEW o \in Openings,
           OpenSecond(d, t, o)
    PROVE  StagesInv'
<1> SUFFICES ASSUME NEW x \in Duels PROVE Staged(x)'
  BY DEF StagesInv
<1>0. TypeOK /\ TypeOK' /\ Staged(x)
  BY DEF IInv, StagesInv
<1>n. now' = now
  BY DEF OpenSecond
<1>l. ledger' = ledger \cup Published(opening', d, t)
  BY DEF OpenSecond
<1>1. CASE x # d
  <2>1. opening'[x] = opening[x] /\ status'[x] = status[x] /\ outcome'[x] = outcome[x]
        /\ sealed'[x] = sealed[x]
    BY <1>0, <1>1 DEF OpenSecond, TypeOK
  <2>2. now' >= now
    BY <1>0, <1>n, ClockAssumption DEF TypeOK
  <2>3. \A e : e[1] = x => (e \in ledger' <=> e \in ledger)
    BY <1>1, <1>l DEF Published
  <2> QED BY <1>0, <2>1, <2>2, <2>3, SameStage
<1>2. CASE x = d
  <2>1. /\ t \in Sides(d) /\ status[d][t] = "open"
        /\ opening[d][Opponent(d, t)] # None
    BY DEF OpenSecond, MayOpen, DuelOpen
  <2>2. InPlay(d) /\ IssueAt[d] <= now
    BY <1>0, <1>2, <2>1, OpenMeansInPlay
  <2>3. \A s \in Sides(d) : status'[d][s] = "completed" /\ outcome'[d][s] = Result(opening', d, s)
    <3>1. /\ status' = [status EXCEPT ![d] =
                [s \in Teams |-> IF s \in Sides(d) THEN "completed" ELSE @[s]]]
          /\ outcome' = [outcome EXCEPT ![d] =
                [s \in Teams |-> IF s \in Sides(d) THEN Result(opening', d, s) ELSE @[s]]]
      BY DEF OpenSecond
    <3>2. status \in [Duels -> [Teams -> Statuses]] /\ outcome \in [Duels -> [Teams -> Outcomes]]
      BY <1>0 DEF TypeOK
    <3> QED BY <3>1, <3>2, SidesOf
  <2>4. \A s \in Sides(d) : opening'[d][s] \in Openings
    <3>1. opening'[d][t] = o
      BY <1>0 DEF OpenSecond, TypeOK
    <3>2. \A s \in Sides(d) : s = t \/ s = Opponent(d, t)
      BY <2>1, SidesOf
    <3>3. Opponent(d, t) # t => opening'[d][Opponent(d, t)] = opening[d][Opponent(d, t)]
      BY <1>0, <2>1, SidesOf DEF OpenSecond, TypeOK
    <3>4. opening[d][Opponent(d, t)] \in Openings
      BY <1>0, <2>1, SidesOf DEF TypeOK
    <3> QED BY <3>1, <3>2, <3>3, <3>4
  <2>5. opening'[d][Home[d]].hand \in Nat /\ opening'[d][Away[d]].hand \in Nat
    BY <2>4, SidesOf, SealAssumption DEF Openings
  <2>6. \A s \in Sides(d) : \E e \in ledger' : e[1] = d /\ e[2] = s
    <3> TAKE s \in Sides(d)
    <3> DEFINE e == <<d, s, opening'[d][s]>>
    <3>1. e \in ledger'
      BY <1>l DEF Published
    <3>2. e[1] = d /\ e[2] = s
      OBVIOUS
    <3> QED BY <3>1, <3>2
  <2>7. \A e \in ledger' : e[1] = d => e[2] \in Sides(d)
    BY <1>l, <2>2 DEF Published, InPlay, Unpublished
  <2>8. \/ outcome'[d][Home[d]] = "win" /\ outcome'[d][Away[d]] = "loss"
        \/ outcome'[d][Home[d]] = "loss" /\ outcome'[d][Away[d]] = "win"
        \/ outcome'[d][Home[d]] = "draw" /\ outcome'[d][Away[d]] = "draw"
    <3>1. /\ outcome'[d][Home[d]] = Result(opening', d, Home[d])
          /\ outcome'[d][Away[d]] = Result(opening', d, Away[d])
      BY <2>3, SidesOf
    <3> QED BY <2>5, <3>1, ResultsFit
  <2>9. Shown(d)'
    BY <2>3, <2>6, <2>7, <2>8 DEF Shown
  <2> QED BY <1>2, <1>n, <2>2, <2>9 DEF Staged
<1> QED BY <1>1, <1>2

\* Steps that move no duel.
LEMMA OtherStages ==
    ASSUME TypeOK, TypeOK', StagesInv,
           UNCHANGED <<now, status, outcome, sealed, opening, ledger>>
    PROVE  StagesInv'
<1> SUFFICES ASSUME NEW x \in Duels PROVE Staged(x)'
  BY DEF StagesInv
<1>1. now' >= now
  BY ClockAssumption DEF TypeOK
<1> QED BY <1>1, SameStage DEF StagesInv

\* Both sides of a duel in play lapse at one instant, and only one can win by it.
LEMMA TickStages ==
    ASSUME IInv, IInv', StagesInv, NEW delivered \in SUBSET Arriving(now + 1), Tick(delivered)
    PROVE  StagesInv'
<1> DEFINE D == Lapsing(now + 1)
<1> SUFFICES ASSUME NEW x \in Duels PROVE Staged(x)'
  BY DEF StagesInv
<1>0. TypeOK /\ TypeOK' /\ Staged(x)
  BY DEF IInv, StagesInv
<1>1. /\ now' = now + 1 /\ now \in Int /\ IssueAt[x] \in Int
      /\ UNCHANGED <<sealed, opening, ledger>>
  BY <1>0, ClockAssumption DEF Tick, TypeOK
<1>2. \A t \in Teams :
         /\ status'[x][t] = IF <<x, t>> \in D
                            THEN IF ForfeitWinner(x, t) THEN "completed" ELSE "expired"
                            ELSE IF Delivery(delivered, x, t) THEN "open" ELSE status[x][t]
         /\ outcome'[x][t] = IF <<x, t>> \in D /\ ForfeitWinner(x, t) THEN "forfeit-win"
                             ELSE outcome[x][t]
  BY DEF Tick
<1>3. Unpublished(x)' <=> Unpublished(x)
  BY <1>1 DEF Unpublished
<1>4. \A t \in Sides(x) : Delivery(delivered, x, t) <=> x \in delivered
  BY DEF Delivery
<1>5. x \in delivered => IssueAt[x] = now + 1
  BY DEF Arriving
<1>6. \A t \in Sides(x) : <<x, t>> \in D <=> status[x][t] = "open" /\ ExpiresAt(x) <= now + 1
  BY SidesOf DEF Lapsing
<1> HIDE DEF D
<1>7. CASE Untouched(x)
  <2>1. \A t \in Sides(x) : <<x, t>> \notin D
    BY <1>6, <1>7 DEF Untouched
  <2>2. \A t \in Sides(x) : outcome'[x][t] = "none" /\ sealed'[x][t] = None /\ opening'[x][t] = None
    BY <1>1, <1>2, <1>7, <2>1, SidesOf DEF Untouched
  <2>3. CASE x \in delivered
    <3>1. \A t \in Sides(x) : status'[x][t] = "open"
      BY <1>2, <1>4, <2>1, <2>3, SidesOf
    <3>2. InPlay(x)'
      BY <1>3, <1>7, <2>2, <3>1, SidesOf DEF InPlay, Untouched
    <3> QED BY <1>1, <1>5, <2>3, <3>2 DEF Staged
  <2>4. CASE x \notin delivered
    <3>1. \A t \in Sides(x) : status'[x][t] = "absent"
      BY <1>2, <1>4, <1>7, <2>1, <2>4, SidesOf DEF Untouched
    <3> QED BY <1>3, <1>7, <2>2, <3>1 DEF Staged, Untouched
  <2> QED BY <2>3, <2>4
<1>8. CASE IssueAt[x] <= now /\ InPlay(x)
  <2>1. x \notin delivered /\ IssueAt[x] <= now'
    BY <1>1, <1>5, <1>8
  <2>2. CASE ExpiresAt(x) <= now + 1
    <3>1. \A t \in Sides(x) : <<x, t>> \in D
      BY <1>6, <1>8, <2>2 DEF InPlay
    <3>2. \A t \in Sides(x) : IF ForfeitWinner(x, t) THEN Forfeit(x, t)' ELSE Late(x, t)'
      <4> SUFFICES ASSUME NEW t \in Sides(x)
                   PROVE  IF ForfeitWinner(x, t) THEN Forfeit(x, t)' ELSE Late(x, t)'
        OBVIOUS
      <4>1. t \in Teams /\ <<x, t>> \in D /\ outcome[x][t] = "none"
        BY <1>8, <3>1, SidesOf DEF InPlay
      <4>2. CASE ForfeitWinner(x, t)
        <5>1. status'[x][t] = "completed" /\ outcome'[x][t] = "forfeit-win"
          BY <1>2, <4>1, <4>2
        <5> QED BY <4>2, <5>1 DEF Forfeit
      <4>3. CASE ~ForfeitWinner(x, t)
        <5>1. status'[x][t] = "expired" /\ outcome'[x][t] = "none"
          BY <1>2, <4>1, <4>3
        <5> QED BY <4>3, <5>1 DEF Late
      <4> QED BY <4>2, <4>3
    <3>3. ~(ForfeitWinner(x, Home[x]) /\ ForfeitWinner(x, Away[x]))
      <4>1. Opponent(x, Home[x]) = Away[x] /\ Opponent(x, Away[x]) = Home[x]
        BY SidesOf DEF Opponent
      <4>2. /\ opening[x][Home[x]] # None => sealed[x][Home[x]] # None
            /\ opening[x][Away[x]] # None => sealed[x][Away[x]] # None
            /\ opening[x][Home[x]] = None \/ opening[x][Away[x]] = None
        BY <1>8, SidesOf DEF InPlay
      <4> QED BY <4>1, <4>2 DEF ForfeitWinner
    <3>4. Lapsed(x)'
      BY <1>3, <1>8, <3>2, <3>3, SidesOf DEF Lapsed, InPlay
    <3> QED BY <2>1, <3>4 DEF Staged
  <2>3. CASE ~(ExpiresAt(x) <= now + 1)
    <3>1. \A t \in Sides(x) : status'[x][t] = status[x][t] /\ outcome'[x][t] = outcome[x][t]
      BY <1>2, <1>4, <1>6, <2>1, <2>3, SidesOf
    <3>2. InPlay(x)'
      BY <1>1, <1>3, <1>8, <3>1 DEF InPlay
    <3> QED BY <2>1, <3>2 DEF Staged
  <2> QED BY <2>2, <2>3
<1>9. CASE IssueAt[x] <= now /\ (Shown(x) \/ Lapsed(x))
  <2>1. x \notin delivered /\ IssueAt[x] <= now'
    BY <1>1, <1>5, <1>9
  <2>2. \A t \in Sides(x) : status[x][t] # "open"
    BY <1>9, SidesOf DEF Shown, Lapsed, Late, Forfeit
  <2>3. \A t \in Sides(x) : status'[x][t] = status[x][t] /\ outcome'[x][t] = outcome[x][t]
    BY <1>2, <1>4, <1>6, <2>1, <2>2, SidesOf
  <2>4. Shown(x) => Shown(x)'
    BY <1>1, <2>3, SidesOf DEF Shown
  <2>5. Lapsed(x) => Lapsed(x)'
    BY <1>3, <2>3, SidesOf DEF Lapsed, Late, Forfeit
  <2> QED BY <1>9, <2>1, <2>4, <2>5 DEF Staged
<1> QED BY <1>0, <1>7, <1>8, <1>9 DEF Staged
LEMMA NextStages ==
    ASSUME IInv, IInv', StagesInv, [Next]_vars
    PROVE  StagesInv'
<1>0. TypeOK /\ TypeOK'
  BY DEF IInv
<1>1. CASE \E d \in Duels, t \in Teams, c \in Sealed : Commit(d, t, c)
  BY <1>1, CommitStages
<1>2. CASE \E d \in Duels, t \in Teams, o \in Openings : OpenFirst(d, t, o)
  BY <1>2, OpenFirstStages
<1>3. CASE \E d \in Duels, t \in Teams, o \in Openings : OpenSecond(d, t, o)
  BY <1>3, OpenSecondStages
<1>4. CASE \E a \in Attackers, d \in Duels, t \in Teams, hand \in Hands : Predict(a, d, t, hand)
  BY <1>0, <1>4, OtherStages DEF Predict
<1>5. CASE \E a \in Attackers, t \in Teams, right \in BOOLEAN : Hunt(a, t, right)
  BY <1>0, <1>5, OtherStages DEF Hunt
<1>6. CASE \E t \in Rotators, fee \in RotateFees : Rotate(t, fee)
  BY <1>0, <1>6, OtherStages DEF Rotate, DuelsAfterRotate
<1>7. CASE TickSome
  BY <1>7, TickStages DEF TickSome
<1>8. CASE UNCHANGED vars
  BY <1>0, <1>8, OtherStages DEF vars
<1> QED BY <1>1, <1>2, <1>3, <1>4, <1>5, <1>6, <1>7, <1>8 DEF Next

\* At every instant each duel is at one of its stages.
THEOREM DuelsAreStaged == Spec => []StagesInv
<1>1. Init => StagesInv
  BY InitStages
<1>2. IInv /\ IInv' /\ StagesInv /\ [Next]_vars => StagesInv'
  BY NextStages
<1> QED BY <1>1, <1>2, Inductive, PTL DEF Spec

\* The two sides of a duel never disagree on whether it is open, on what is public and on
\* the result, for any roster, schedule, group and prices.
LEMMA StagesAgree == StagesInv => PairAgrees
<1> SUFFICES ASSUME StagesInv PROVE PairAgrees
  OBVIOUS
<1>1. ASSUME NEW d \in Duels
      PROVE  /\ status[d][Home[d]] = "open" <=> status[d][Away[d]] = "open"
             /\ LET sides == {e[2] : e \in {x \in ledger : x[1] = d}}
                IN  /\ sides \in {{}, Sides(d)}
                    /\ sides # {} => \A t \in Sides(d) : outcome[d][t] \in {"win", "loss", "draw"}
             /\ {<<status[d][t], outcome[d][t]>> : t \in Sides(d)} \in
                  { {<<"absent", "none">>}, {<<"open", "none">>}, {<<"expired", "none">>},
                    {<<"completed", "win">>, <<"completed", "loss">>},
                    {<<"completed", "draw">>},
                    {<<"completed", "forfeit-win">>, <<"expired", "none">>} }
  <2> DEFINE sides == {e[2] : e \in {x \in ledger : x[1] = d}}
             h == <<status[d][Home[d]], outcome[d][Home[d]]>>
             a == <<status[d][Away[d]], outcome[d][Away[d]]>>
  <2>0. Staged(d)
    BY DEF StagesInv
  <2>1. {<<status[d][t], outcome[d][t]>> : t \in Sides(d)} = {h, a}
    BY SidesOf
  <2>2. CASE Untouched(d)
    <3>1. sides = {}
      BY <2>2 DEF Untouched, Unpublished
    <3>2. h = <<"absent", "none">> /\ a = <<"absent", "none">>
      BY <2>2, SidesOf DEF Untouched
    <3>3. {h, a} = {<<"absent", "none">>}
      BY <3>2
    <3> QED BY <2>1, <2>2, <3>1, <3>3, SidesOf DEF Untouched
  <2>3. CASE InPlay(d)
    <3>1. sides = {}
      BY <2>3 DEF InPlay, Unpublished
    <3>2. h = <<"open", "none">> /\ a = <<"open", "none">>
      BY <2>3, SidesOf DEF InPlay
    <3>3. {h, a} = {<<"open", "none">>}
      BY <3>2
    <3> QED BY <2>1, <2>3, <3>1, <3>3, SidesOf DEF InPlay
  <2>4. CASE Shown(d)
    <3>1. sides = Sides(d)
      BY <2>4 DEF Shown
    <3>2. \A t \in Sides(d) : status[d][t] = "completed" /\ outcome[d][t] \in {"win", "loss", "draw"}
      BY <2>4, SidesOf DEF Shown
    <3>3. {h, a} \in {{<<"completed", "win">>, <<"completed", "loss">>}, {<<"completed", "draw">>}}
      <4>1. status[d][Home[d]] = "completed" /\ status[d][Away[d]] = "completed"
        BY <3>2, SidesOf
      <4>2. CASE outcome[d][Home[d]] = "win" /\ outcome[d][Away[d]] = "loss"
        <5>1. {h, a} = {<<"completed", "win">>, <<"completed", "loss">>}
          BY <4>1, <4>2
        <5> QED BY <5>1
      <4>3. CASE outcome[d][Home[d]] = "loss" /\ outcome[d][Away[d]] = "win"
        <5>1. {h, a} = {<<"completed", "win">>, <<"completed", "loss">>}
          BY <4>1, <4>3
        <5> QED BY <5>1
      <4>4. CASE outcome[d][Home[d]] = "draw" /\ outcome[d][Away[d]] = "draw"
        <5>1. {h, a} = {<<"completed", "draw">>}
          BY <4>1, <4>4
        <5> QED BY <5>1
      <4> QED BY <2>4, <4>2, <4>3, <4>4 DEF Shown
    <3>4. status[d][Home[d]] # "open" /\ status[d][Away[d]] # "open"
      BY <3>2, SidesOf
    <3> HIDE DEF h, a
    <3> QED BY <2>1, <3>1, <3>2, <3>3, <3>4
  <2>5. CASE Lapsed(d)
    <3>1. sides = {}
      BY <2>5 DEF Lapsed, Unpublished
    <3>2. {h, a} \in {{<<"expired", "none">>}, {<<"completed", "forfeit-win">>, <<"expired", "none">>}}
      <4>1. CASE Late(d, Home[d]) /\ Late(d, Away[d])
        <5>1. {h, a} = {<<"expired", "none">>}
          BY <4>1 DEF Late
        <5> QED BY <5>1
      <4>2. CASE Late(d, Home[d]) /\ Forfeit(d, Away[d])
        <5>1. {h, a} = {<<"completed", "forfeit-win">>, <<"expired", "none">>}
          BY <4>2 DEF Late, Forfeit
        <5> QED BY <5>1
      <4>3. CASE Late(d, Away[d]) /\ Forfeit(d, Home[d])
        <5>1. {h, a} = {<<"completed", "forfeit-win">>, <<"expired", "none">>}
          BY <4>3 DEF Late, Forfeit
        <5> QED BY <5>1
      <4> QED BY <2>5, <4>1, <4>2, <4>3 DEF Lapsed
    <3>3. status[d][Home[d]] # "open" /\ status[d][Away[d]] # "open"
      BY <2>5 DEF Lapsed, Late, Forfeit
    <3> HIDE DEF h, a
    <3> QED BY <2>1, <3>1, <3>2, <3>3
  <2> QED BY <2>0, <2>2, <2>3, <2>4, <2>5 DEF Staged
<1>2. DuelsPaired
  BY <1>1 DEF DuelsPaired
<1>3. PublishedTogether
  BY <1>1 DEF PublishedTogether
<1>4. OutcomesAgree
  BY <1>1 DEF OutcomesAgree
<1> QED BY <1>2, <1>3, <1>4 DEF PairAgrees

\* The two sides of a duel never disagree, on whether it is open, on what is public or on
\* the result, whatever the order of their moves and of the clock's.
THEOREM PairsAgree == Spec => []PairAgrees
BY StagesAgree, DuelsAreStaged, PTL

-----------------------------------------------------------------------------
(* What is predicted is still secret.                                       *)

\* Duels whose predictions are all kept, in which nothing is shown or closed.
LEMMA KeptSealed ==
    ASSUME TypeOK, TypeOK', PendingSealed, NEW d \in Duels, NEW t \in Teams, NEW a \in Teams,
           pred'[d][t][a] # None, pred'[d][t][a] = pred[d][t][a],
           \A s \in Sides(d) : status[d][s] = "open" => status'[d][s] = "open",
           sealed[d][t] # None => sealed'[d][t] # None,
           Unpublished(d) => Unpublished(d)'
    PROVE  /\ \A s \in Sides(d) : status'[d][s] = "open"
           /\ sealed'[d][t] # None
           /\ \A e \in ledger' : e[1] # d
BY DEF PendingSealed, Unpublished

LEMMA NextSealed ==
    ASSUME IInv, IInv', StagesInv, PendingSealed, [Next]_vars
    PROVE  PendingSealed'
<1> SUFFICES ASSUME NEW d \in Duels, NEW t \in Teams, NEW a \in Teams, pred'[d][t][a] # None
             PROVE  /\ \A s \in Sides(d) : status'[d][s] = "open"
                    /\ sealed'[d][t] # None
                    /\ \A e \in ledger' : e[1] # d
  BY DEF PendingSealed
<1>0. TypeOK /\ TypeOK'
  BY DEF IInv
<1>1. ASSUME NEW x \in Duels, NEW y \in Teams, NEW c \in Sealed, Commit(x, y, c)
      PROVE  sealed[d][t] # None => sealed'[d][t] # None
  BY <1>0, <1>1, NoneAssumption DEF Commit, TypeOK
<1>2. CASE \E x \in Duels, y \in Teams, c \in Sealed : Commit(x, y, c)
  <2> PICK x \in Duels, y \in Teams, c \in Sealed : Commit(x, y, c)
    BY <1>2
  <2>1. UNCHANGED <<status, ledger, pred>>
    BY DEF Commit
  <2> QED BY <1>0, <1>1, <2>1, KeptSealed DEF Unpublished
<1>3. CASE \E x \in Duels, y \in Teams, o \in Openings : OpenFirst(x, y, o)
  <2>1. UNCHANGED <<status, sealed, ledger, pred>>
    BY <1>3 DEF OpenFirst
  <2> QED BY <1>0, <2>1, KeptSealed DEF Unpublished
<1>4. CASE \E x \in Duels, y \in Teams, o \in Openings : OpenSecond(x, y, o)
  <2> PICK x \in Duels, y \in Teams, o \in Openings : OpenSecond(x, y, o)
    BY <1>4
  <2>1. pred' = Cleared({x} \X Sides(x)) /\ sealed' = sealed
        /\ ledger' = ledger \cup Published(opening', x, y)
    BY DEF OpenSecond
  <2>2. <<d, t>> \notin {x} \X Sides(x) /\ pred'[d][t][a] = pred[d][t][a]
    BY <2>1 DEF Cleared
  <2>3. t \in Sides(d)
    BY <2>2 DEF IInv, PredictionsPlaced
  <2>4. d # x
    BY <2>2, <2>3
  <2>5. status'[d] = status[d]
    BY <1>0, <2>4 DEF OpenSecond, TypeOK
  <2>6. Unpublished(d) => Unpublished(d)'
    BY <2>1, <2>4 DEF Unpublished, Published
  <2>7. \A s \in Sides(d) : status[d][s] = "open" => status'[d][s] = "open"
    BY <2>5
  <2>8. sealed[d][t] # None => sealed'[d][t] # None
    BY <2>1
  <2> QED BY <1>0, <2>2, <2>6, <2>7, <2>8, KeptSealed
<1>5. CASE \E x \in Attackers, e \in Duels, y \in Teams, hand \in Hands : Predict(x, e, y, hand)
  <2> PICK x \in Attackers, e \in Duels, y \in Teams, hand \in Hands : Predict(x, e, y, hand)
    BY <1>5
  <2>1. UNCHANGED <<status, sealed, ledger>> /\ CanPredict(e, y)
        /\ pred' = [pred EXCEPT ![e][y][x] = [hand |-> hand, gen |-> gen[y]]]
    BY DEF Predict
  <2>2. CASE pred'[d][t][a] = pred[d][t][a]
    BY <1>0, <2>1, <2>2, KeptSealed DEF Unpublished
  <2>3. CASE pred'[d][t][a] # pred[d][t][a]
    <3>1. d = e /\ t = y
      BY <1>0, <2>1, <2>3 DEF TypeOK
    <3>2. t \in Sides(d) /\ status[d][t] = "open" /\ sealed[d][t] # None
      BY <2>1, <3>1 DEF CanPredict
    <3>3. InPlay(d)
      BY <3>2, OpenMeansInPlay DEF StagesInv
    <3> QED BY <2>1, <3>2, <3>3 DEF InPlay, Unpublished
  <2> QED BY <2>2, <2>3
<1>6. CASE \E x \in Attackers, y \in Teams, right \in BOOLEAN : Hunt(x, y, right)
  <2>1. UNCHANGED <<status, sealed, ledger, pred>>
    BY <1>6 DEF Hunt
  <2> QED BY <1>0, <2>1, KeptSealed DEF Unpublished
<1>7. CASE \E y \in Rotators, fee \in RotateFees : Rotate(y, fee)
  <2>1. UNCHANGED <<status, sealed, ledger, pred>>
    BY <1>7 DEF Rotate, DuelsAfterRotate
  <2> QED BY <1>0, <2>1, KeptSealed DEF Unpublished
<1>8. CASE TickSome
  <2> PICK delivered \in SUBSET Arriving(now + 1) : Tick(delivered)
    BY <1>8 DEF TickSome
  <2> DEFINE D == Lapsing(now + 1)
  <2>1. pred' = Cleared(D) /\ UNCHANGED <<sealed, ledger>>
    BY DEF Tick
  <2>2. <<d, t>> \notin D /\ pred'[d][t][a] = pred[d][t][a]
    BY <2>1 DEF Cleared
  <2>3. t \in Sides(d) /\ status[d][t] = "open"
    BY <2>2 DEF IInv, PredictionsPlaced, PendingSealed
  <2>4. ~(ExpiresAt(d) <= now + 1)
    BY <2>2, <2>3 DEF Lapsing
  <2>5. \A s \in Sides(d) : <<d, s>> \notin D
    BY <2>4 DEF Lapsing
  <2>6. \A s \in Sides(d) : status[d][s] = "open" => status'[d][s] = "open"
    <3> HIDE DEF D
    <3>1. status' = [x \in Duels |-> [y \in Teams |->
              IF <<x, y>> \in D
              THEN IF ForfeitWinner(x, y) THEN "completed" ELSE "expired"
              ELSE IF Delivery(delivered, x, y) THEN "open" ELSE status[x][y]]]
      BY DEF Tick, D
    <3> QED BY <2>5, <3>1, SidesOf
  <2> QED BY <1>0, <2>1, <2>2, <2>6, KeptSealed DEF Unpublished
<1>9. CASE UNCHANGED vars
  <2>1. UNCHANGED <<status, sealed, ledger, pred>>
    BY <1>9 DEF vars
  <2> QED BY <1>0, <2>1, KeptSealed DEF Unpublished
<1> QED BY <1>2, <1>3, <1>4, <1>5, <1>6, <1>7, <1>8, <1>9 DEF Next

\* A prediction is pending only about a sealed hand that nobody has seen, in a duel both of
\* whose sides are still open.
THEOREM PredictionsAreBlind == Spec => []PendingSealed
<1>1. Init => PendingSealed
  BY DEF Init, PendingSealed
<1>2. IInv /\ IInv' /\ StagesInv /\ PendingSealed /\ [Next]_vars => PendingSealed'
  BY NextSealed
<1> QED BY <1>1, <1>2, Inductive, DuelsAreStaged, PTL DEF Spec

-----------------------------------------------------------------------------
(* What no step may do.                                                     *)

\* A sealed number and an opening are final: no later step replaces them.
THEOREM SealsAreFinal == Spec => SealsFinal
<1>1. ASSUME TypeOK, [Next]_vars, NEW d \in Duels, NEW t \in Teams
      PROVE  /\ sealed[d][t] # None => sealed'[d][t] = sealed[d][t]
             /\ opening[d][t] # None => opening'[d][t] = opening[d][t]
  <2>1. CASE \E x \in Duels, y \in Teams, c \in Sealed : Commit(x, y, c)
    BY <1>1, <2>1 DEF Commit, MaySeal, TypeOK
  <2>2. CASE \E x \in Duels, y \in Teams, o \in Openings : OpenFirst(x, y, o)
    BY <1>1, <2>2 DEF OpenFirst, MayOpen, TypeOK
  <2>3. CASE \E x \in Duels, y \in Teams, o \in Openings : OpenSecond(x, y, o)
    BY <1>1, <2>3 DEF OpenSecond, MayOpen, TypeOK
  <2>4. CASE UNCHANGED <<sealed, opening>>
    BY <2>4
  <2> QED BY <1>1, <2>1, <2>2, <2>3, <2>4
        DEF Next, vars, Predict, Hunt, Rotate, TickSome, Tick
<1>2. TypeOK /\ [Next]_vars =>
        [\A d \in Duels, t \in Teams :
          /\ sealed[d][t] # None => sealed'[d][t] = sealed[d][t]
          /\ opening[d][t] # None => opening'[d][t] = opening[d][t]]_vars
  BY <1>1
<1> QED BY <1>2, TypeCorrect, PTL DEF Spec, SealsFinal

\* A team of which no Order lapses keeps its score: the fold over the duels in the order
\* of issue leaves it alone at every one of them.
LEMMA OthersUncharged ==
    ASSUME TypeOK, NEW D, NEW a \in Teams, \A d \in Duels : <<d, a>> \notin D
    PROVE  LateScore(D, a) = score[a]
<1> DEFINE Lapse(f) ==
      f = [d \in 0..DuelCount |->
             IF d = 0 THEN score[a]
             ELSE IF <<d, a>> \in D
             THEN Floored(f[d - 1] + IF ForfeitWinner(d, a) THEN DuelWin ELSE -ExpiredOrder)
             ELSE f[d - 1]]
      still == [d \in 0..DuelCount |-> score[a]]
      lapse == CHOOSE f : Lapse(f)
<1>0. DuelCount \in Nat /\ score[a] \in Nat
  BY RosterAssumption DEF TypeOK
<1>1. Lapse(still)
  BY <1>0 DEF Duels
<1>2. Lapse(lapse)
  <2> HIDE DEF Lapse, still
  <2> QED BY <1>1
<1>3. ASSUME NEW d \in Nat, d <= DuelCount, lapse[d] = score[a], d + 1 <= DuelCount
      PROVE  lapse[d + 1] = score[a]
  <2> HIDE DEF lapse
  <2>1. d + 1 \in Duels /\ d + 1 \in 0..DuelCount /\ (d + 1) - 1 = d
    BY <1>0, <1>3 DEF Duels
  <2> QED BY <1>2, <1>3, <2>1
<1>4. lapse[0] = score[a]
  <2> HIDE DEF lapse
  <2> QED BY <1>0, <1>2
<1>5. lapse[DuelCount] = score[a]
  <2> HIDE DEF lapse, Lapse, still
  <2> DEFINE T == {d \in Nat : d <= DuelCount => lapse[d] = score[a]}
  <2>1. T \in SUBSET Nat /\ 0 \in T
    BY <1>4
  <2>2. \A d \in T : d + 1 \in T
    BY <1>0, <1>3
  <2>3. T = Nat
    <3> HIDE DEF T
    <3> QED BY <2>1, <2>2, NatSteps
  <2> QED BY <1>0, <2>3
<1>6. LateScore(D, a) = Floored(lapse[DuelCount])
  BY DEF LateScore
<1> QED BY <1>0, <1>5, <1>6 DEF Floored

\* A prediction that the clock cancels costs its author nothing and earns it nothing: only
\* the two players of a lapsing duel are paid or charged.
THEOREM CancelledIsFree == Spec => CancelledFree
<1>1. ASSUME TypeOK, [Next]_vars, now' # now, NEW a \in Teams,
             \A d \in Duels : status[d][a] = "open" => status'[d][a] = "open"
      PROVE  score'[a] = score[a]
  <2>1. TickSome
    BY <1>1 DEF Next, vars, Commit, OpenFirst, OpenSecond, Predict, Hunt, Rotate
  <2> PICK delivered \in SUBSET Arriving(now + 1) : Tick(delivered)
    BY <2>1 DEF TickSome
  <2> DEFINE D == Lapsing(now + 1)
  <2>2. status' = [d \in Duels |-> [t \in Teams |->
              IF <<d, t>> \in D
              THEN IF ForfeitWinner(d, t) THEN "completed" ELSE "expired"
              ELSE IF Delivery(delivered, d, t) THEN "open" ELSE status[d][t]]]
        /\ score' = [t \in Teams |-> LateScore(D, t)]
    BY DEF Tick
  <2>3. \A d \in Duels : <<d, a>> \in D => status[d][a] = "open"
    BY DEF Lapsing
  <2>4. \A d \in Duels : <<d, a>> \notin D
    <3> HIDE DEF D
    <3> QED BY <1>1, <2>2, <2>3
  <2> HIDE DEF D
  <2> QED BY <1>1, <2>2, <2>4, OthersUncharged
<1>2. TypeOK /\ [Next]_vars =>
        [now' # now => \A a \in Teams :
            (\A d \in Duels : status[d][a] = "open" => status'[d][a] = "open")
                => score'[a] = score[a]]_vars
  BY <1>1
<1> QED BY <1>2, TypeCorrect, PTL DEF Spec, CancelledFree
=============================================================================
