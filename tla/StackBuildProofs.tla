---------------------------- MODULE StackBuildProofs ----------------------------
(***************************************************************************)
(* For any bounds: the release plane's types, that the live release is the   *)
(* newest that stands and that a credited check goes on holding, and that no *)
(* deploy takes a serving site down.  In the containers of the other         *)
(* scenarios: what the ops plane calls healthy works and a sign-off stands;   *)
(* the gate of a saved feature is true of it; a board that is closed has its   *)
(* file to blame and a refused change keeps what was there; the first request's *)
(* exercise credits those who made it.                                       *)
(***************************************************************************)
EXTENDS MCStackBuild, FiniteSetTheorems, SequenceTheorems, TLAPS

\* A promoted release has a generation the counter has reached: without it a
\* promotion after the live release was deleted could meet its own number.
Reached ==
    \A i \in DOMAIN releases :
        releases[i].state # "failed" => releases[i].generation <= generation

IInv == TypeOK /\ LiveListed /\ KeysOfPromoted /\ CopiesAge /\ CreditHolds /\ Reached

-----------------------------------------------------------------------------
(* Operators.                                                              *)

LEMMA ReleaseFields ==
    ASSUME NEW r \in Releases
    PROVE  /\ r.state \in {"failed", "live", "superseded"} /\ r.generation \in Nat
           /\ r.binding \in Bindings
BY DEF Releases

LEMMA ManifestFields ==
    ASSUME NEW m \in Manifests
    PROVE  /\ m.starts \in BOOLEAN /\ m.binding \in Bindings /\ m.key \in 0..MaxVersion
           /\ m.binding \in {"literal", "reference"}
<1>0. 0 \in 0..MaxVersion
  BY ShipBounds
<1>1. CASE m \in [starts : {FALSE}, binding : {"literal"}, key : {0}]
  BY <1>0, <1>1 DEF Bindings
<1>2. CASE m \in [starts : {TRUE}, binding : {"reference"}, key : {0}]
  BY <1>0, <1>2 DEF Bindings
<1>3. CASE m \in [starts : {TRUE}, binding : {"literal"}, key : 0..MaxVersion]
  BY <1>3 DEF Bindings
<1> QED BY <1>1, <1>2, <1>3 DEF Manifests

LEMMA LaptopIsManifest == Laptop \in Manifests
<1>1. Laptop \in [starts : {FALSE}, binding : {"literal"}, key : {0}]
  BY DEF Laptop
<1> QED BY <1>1 DEF Manifests

LEMMA WithType ==
    ASSUME NEW f, NEW i, NEW v, NEW S, f \in [DOMAIN f -> S], v \in S
    PROVE  With(f, i, v) \in [DOMAIN With(f, i, v) -> S]
BY DEF With

LEMMA WithoutAt ==
    ASSUME NEW f, NEW i
    PROVE  /\ DOMAIN Without(f, i) = DOMAIN f \ {i}
           /\ \A j \in DOMAIN f \ {i} : Without(f, i)[j] = f[j]
BY DEF Without

LEMMA WithoutType ==
    ASSUME NEW f, NEW i, NEW S, f \in [DOMAIN f -> S]
    PROVE  Without(f, i) \in [DOMAIN Without(f, i) -> S]
BY DEF Without

LEMMA SupersededAt ==
    ASSUME releases \in [DOMAIN releases -> Releases]
    PROVE  /\ DOMAIN Superseded = DOMAIN releases
           /\ Superseded \in [DOMAIN releases -> Releases]
           /\ \A i \in DOMAIN releases :
                /\ Superseded[i].generation = releases[i].generation
                /\ Superseded[i].binding = releases[i].binding
                /\ Superseded[i].state =
                     IF i = liveId THEN "superseded" ELSE releases[i].state
BY DEF Superseded, Releases

\* What serves now and ahead signs with the store's key at every epoch.
LEMMA ReferenceServes ==
    ASSUME TypeOK, Serving, Survives
    PROVE  /\ liveId # None /\ releases[liveId].binding = "reference"
           /\ \A epoch : Answers(epoch)
BY ShipBounds DEF TypeOK, Serving, Survives, Answers, KeyAt

\* The gates read the live release, its copied key and the version, no more.
LEMMA GatesKeep ==
    ASSUME CreditHolds, credited' = credited,
           version' = version, liveId' = liveId, lastServed' = lastServed,
           liveId # None => /\ releases'[liveId] = releases[liveId]
                            /\ literalKeys'[liveId] = literalKeys[liveId]
    PROVE  CreditHolds'
BY DEF CreditHolds, SurvivesRotation, SiteServing, Serving, Survives, Answers, KeyAt,
       ServedCurrent, Live

-----------------------------------------------------------------------------
(* The inductive invariant.                                                *)

LEMMA NewNumber == ASSUME TypeOK PROVE counter + 1 \notin DOMAIN releases
BY DEF TypeOK

\* promote() files a copied key under the new number.
LEMMA KeyFiled ==
    ASSUME NEW m, Promote(m), m.binding = "literal"
    PROVE  /\ DOMAIN literalKeys' = DOMAIN literalKeys \cup {counter + 1}
           /\ literalKeys'[counter + 1] = m.key
           /\ \A j \in DOMAIN literalKeys :
                j # counter + 1 => literalKeys'[j] = literalKeys[j]
<1>1. literalKeys' = With(literalKeys, counter + 1, m.key)
  BY DEF Promote
<1>2. /\ DOMAIN With(literalKeys, counter + 1, m.key) = DOMAIN literalKeys \cup {counter + 1}
      /\ With(literalKeys, counter + 1, m.key)[counter + 1] = m.key
      /\ \A j \in DOMAIN literalKeys :
           j # counter + 1 => With(literalKeys, counter + 1, m.key)[j] = literalKeys[j]
  BY DEF With
<1> QED BY <1>1, <1>2

LEMMA InitIInv == Init => IInv
<1> SUFFICES ASSUME Init PROVE IInv
  OBVIOUS
<1>1. TypeOK
  <2>1. manifest \in Manifests
    BY LaptopIsManifest DEF Init
  <2>2. releases \in [DOMAIN releases -> Releases] /\ DOMAIN releases = {0}
    BY DEF Init, Abandoned, Releases, Bindings
  <2>3. literalKeys \in [DOMAIN literalKeys -> 0..MaxVersion]
    BY DEF Init
  <2> QED BY <2>1, <2>2, <2>3, ShipBounds DEF Init, TypeOK
<1>2. LiveListed /\ KeysOfPromoted /\ CopiesAge /\ CreditHolds /\ Reached
  BY ShipNone DEF Init, LiveListed, KeysOfPromoted, CopiesAge, CreditHolds, Reached, Abandoned
<1> QED BY <1>1, <1>2 DEF IInv

LEMMA EditIInv == ASSUME IInv, NEW m \in Manifests, EditManifest(m) PROVE IInv'
<1>1. CreditHolds'
  BY GatesKeep DEF IInv, EditManifest
<1> QED
  BY <1>1 DEF IInv, EditManifest, TypeOK, LiveListed, KeysOfPromoted, CopiesAge, Reached, Live

LEMMA RefuseIInv == ASSUME IInv, Deploy, Refuse(manifest) PROVE IInv'
<1> DEFINE failed == [state |-> "failed", generation |-> GenerationAt(manifest),
                      binding |-> manifest.binding]
<1>1. failed \in Releases
  BY ManifestFields DEF IInv, TypeOK, GenerationAt, Releases
<1>2. failed.state = "failed"
  OBVIOUS
<1> HIDE DEF failed
<1>3. releases' = With(releases, counter + 1, failed)
  BY DEF Refuse, failed
<1>4. /\ DOMAIN releases' = DOMAIN releases \cup {counter + 1}
      /\ releases'[counter + 1] = failed
      /\ counter + 1 \notin DOMAIN releases
      /\ \A j \in DOMAIN releases : releases'[j] = releases[j]
  <2>1. counter + 1 \notin DOMAIN releases
    BY NewNumber DEF IInv
  <2>2. /\ DOMAIN With(releases, counter + 1, failed) = DOMAIN releases \cup {counter + 1}
        /\ With(releases, counter + 1, failed)[counter + 1] = failed
        /\ \A j \in DOMAIN releases :
             j # counter + 1 => With(releases, counter + 1, failed)[j] = releases[j]
    BY DEF With
  <2> QED BY <1>3, <2>1, <2>2
<1>5. liveId # None => liveId \in DOMAIN releases
  BY DEF IInv, LiveListed
<1>6. TypeOK'
  <2>1. releases' \in [DOMAIN releases' -> Releases]
    BY <1>1, <1>3, WithType DEF IInv, TypeOK
  <2>2. counter' \in Nat /\ DOMAIN releases' \subseteq 0..counter'
    BY <1>4 DEF IInv, TypeOK, Deploy
  <2> QED BY <2>1, <2>2 DEF IInv, TypeOK, Deploy, Refuse
<1>7. LiveListed'
  <2>1. liveId # counter + 1
    BY <1>4, <1>5, ShipNone DEF IInv, TypeOK
  <2>2. \A i \in DOMAIN releases' : releases'[i].state = "live" <=> i = liveId
    BY <1>2, <1>4, <2>1 DEF IInv, LiveListed
  <2>3. ASSUME liveId # None
        PROVE  /\ liveId \in DOMAIN releases' /\ releases'[liveId].generation = generation
               /\ \A i \in DOMAIN releases' : releases'[i].state = "superseded" =>
                     i < liveId /\ releases'[i].generation < generation
    BY <1>2, <1>4, <1>5, <2>3 DEF IInv, LiveListed, Live
  <2> QED BY <2>2, <2>3 DEF LiveListed, Live, Refuse
<1>8. KeysOfPromoted' /\ CopiesAge' /\ Reached'
  BY <1>2, <1>4 DEF IInv, KeysOfPromoted, CopiesAge, Reached, Deploy, Refuse
<1>9. CreditHolds'
  BY <1>4, <1>5, GatesKeep DEF IInv, Deploy, Refuse
<1> QED BY <1>6, <1>7, <1>8, <1>9 DEF IInv

LEMMA PromoteIInv == ASSUME IInv, Deploy, Promote(manifest) PROVE IInv'
<1> DEFINE live == [state |-> "live", generation |-> generation + 1,
                    binding |-> manifest.binding]
<1>0. manifest \in Manifests /\ generation \in Nat /\ counter \in Nat /\ version \in Nat
  BY DEF IInv, TypeOK
<1>1. live \in Releases
  BY <1>0, ManifestFields DEF Releases
<1>2. /\ live.state = "live" /\ live.generation = generation + 1
      /\ live.binding = manifest.binding
  OBVIOUS
<1> HIDE DEF live
<1>3. releases' = With(Superseded, counter + 1, live)
  BY DEF Promote, live
<1>4. /\ DOMAIN releases' = DOMAIN releases \cup {counter + 1}
      /\ releases'[counter + 1] = live
      /\ counter + 1 \notin DOMAIN releases
      /\ \A j \in DOMAIN releases : releases'[j] = Superseded[j]
  <2>1. counter + 1 \notin DOMAIN releases /\ DOMAIN Superseded = DOMAIN releases
    BY NewNumber, SupersededAt DEF IInv, TypeOK
  <2>2. /\ DOMAIN With(Superseded, counter + 1, live) = DOMAIN Superseded \cup {counter + 1}
        /\ With(Superseded, counter + 1, live)[counter + 1] = live
        /\ \A j \in DOMAIN Superseded :
             j # counter + 1 => With(Superseded, counter + 1, live)[j] = Superseded[j]
    BY DEF With
  <2> QED BY <1>3, <2>1, <2>2
<1>5. \A i \in DOMAIN releases :
        /\ releases[i].state # "live" => releases'[i].state = releases[i].state
        /\ releases[i].state = "live" => releases'[i].state = "superseded"
        /\ releases'[i].generation = releases[i].generation
        /\ releases'[i].binding = releases[i].binding
  BY <1>4, SupersededAt DEF IInv, TypeOK, LiveListed
<1>6. TypeOK'
  <2>1. releases' \in [DOMAIN releases' -> Releases]
    BY <1>1, <1>3, WithType, SupersededAt DEF IInv, TypeOK
  <2>2. literalKeys' \in [DOMAIN literalKeys' -> 0..MaxVersion]
    BY <1>0, ManifestFields, WithType DEF IInv, TypeOK, Promote
  <2>3. counter' \in Nat /\ DOMAIN releases' \subseteq 0..counter' /\ liveId' \in Nat
    BY <1>4 DEF IInv, TypeOK, Deploy, Promote
  <2> QED BY <2>1, <2>2, <2>3 DEF IInv, TypeOK, Deploy, Promote
<1>7. LiveListed'
  <2>1. \A i \in DOMAIN releases' : releases'[i].state = "live" <=> i = counter + 1
    BY <1>2, <1>4, <1>5
  <2>2. ASSUME NEW i \in DOMAIN releases', releases'[i].state = "superseded"
        PROVE  i < counter + 1 /\ releases'[i].generation < generation + 1
    <3>1. i \in DOMAIN releases /\ i < counter + 1
      BY <1>2, <1>4, <2>2 DEF IInv, TypeOK
    <3>2. releases[i].generation <= generation /\ releases[i].generation \in Nat
      BY <1>5, <2>2, <3>1, ReleaseFields DEF IInv, TypeOK, Reached
    <3> QED BY <1>0, <1>5, <3>1, <3>2
  <2> QED BY <1>2, <1>4, <2>1, <2>2 DEF LiveListed, Live, Promote
<1>8. KeysOfPromoted'
  <2>1. CASE manifest.binding = "literal"
    <3>1. DOMAIN literalKeys' = DOMAIN literalKeys \cup {counter + 1}
      BY <2>1, KeyFiled
    <3> QED BY <1>2, <1>4, <1>5, <2>1, <3>1 DEF IInv, KeysOfPromoted
  <2>2. CASE manifest.binding # "literal"
    BY <1>2, <1>4, <1>5, <2>2 DEF IInv, KeysOfPromoted, Promote
  <2> QED BY <2>1, <2>2
<1>9. CopiesAge'
  <2>1. CASE manifest.binding = "literal"
    <3>1. manifest.key = version
      BY <2>1 DEF Promote, PassesGate
    <3>2. \A j \in DOMAIN literalKeys' :
            literalKeys'[j] = version \/ (j \in DOMAIN literalKeys /\ literalKeys'[j] = literalKeys[j])
      BY <2>1, <3>1, KeyFiled
    <3> QED BY <1>0, <3>2 DEF IInv, CopiesAge, Deploy
  <2>2. CASE manifest.binding # "literal"
    BY <2>2 DEF IInv, CopiesAge, Promote, Deploy
  <2> QED BY <2>1, <2>2
<1>10. CreditHolds' /\ Reached'
  <2>1. ASSUME NEW i \in DOMAIN releases', releases'[i].state # "failed"
        PROVE  releases'[i].generation <= generation + 1
    <3>1. CASE i = counter + 1
      BY <1>0, <1>2, <1>4, <3>1
    <3>2. CASE i # counter + 1
      <4>1. i \in DOMAIN releases /\ releases[i].state # "failed"
        BY <1>4, <1>5, <2>1, <3>2
      <4>2. releases[i].generation <= generation /\ releases[i].generation \in Nat
        BY <4>1, ReleaseFields DEF IInv, TypeOK, Reached
      <4> QED BY <1>0, <1>5, <4>1, <4>2
    <3> QED BY <3>1, <3>2
  <2> QED BY <2>1 DEF Reached, CreditHolds, Promote
<1> QED BY <1>6, <1>7, <1>8, <1>9, <1>10 DEF IInv

LEMMA RemoveIInv == ASSUME IInv, NEW i, Remove(i) PROVE IInv'
<1>1. /\ releases' = Without(releases, i) /\ DOMAIN releases' = DOMAIN releases \ {i}
      /\ \A j \in DOMAIN releases' : releases'[j] = releases[j]
  BY WithoutAt DEF Remove
<1>2. /\ literalKeys' = Without(literalKeys, i)
      /\ DOMAIN literalKeys' = DOMAIN literalKeys \ {i}
      /\ \A j \in DOMAIN literalKeys' : literalKeys'[j] = literalKeys[j]
  BY WithoutAt DEF Remove
<1>3. TypeOK'
  <2>1. releases' \in [DOMAIN releases' -> Releases]
    BY <1>1, WithoutType DEF IInv, TypeOK
  <2>2. literalKeys' \in [DOMAIN literalKeys' -> 0..MaxVersion]
    BY <1>2, WithoutType DEF IInv, TypeOK
  <2>3. DOMAIN releases' \subseteq 0..counter
    BY <1>1 DEF IInv, TypeOK
  <2> QED BY <2>1, <2>2, <2>3 DEF IInv, TypeOK, Remove
<1>4. KeysOfPromoted' /\ CopiesAge' /\ Reached'
  BY <1>1, <1>2 DEF IInv, KeysOfPromoted, CopiesAge, Reached, Remove
<1>5. CASE i = liveId
  <2>1. liveId' = None /\ credited' = {}
    BY <1>5 DEF Remove
  <2>2. \A j \in DOMAIN releases' : j # None
    BY <1>1, ShipNone DEF IInv, TypeOK
  <2>3. LiveListed' /\ CreditHolds'
    BY <1>1, <1>5, <2>1, <2>2 DEF IInv, LiveListed, CreditHolds
  <2> QED BY <1>3, <1>4, <2>3 DEF IInv
<1>6. CASE i # liveId
  <2>1. LiveListed'
    BY <1>1, <1>6 DEF IInv, LiveListed, Live, Remove
  <2>2. liveId # None => liveId \in DOMAIN releases'
    BY <1>1, <1>6 DEF IInv, LiveListed
  <2>3. liveId # None => literalKeys'[liveId] = literalKeys[liveId]
                         \/ releases[liveId].binding = "reference"
    <3>1. liveId # None /\ releases[liveId].binding # "reference" =>
            liveId \in DOMAIN literalKeys
      BY ReleaseFields DEF IInv, TypeOK, LiveListed, KeysOfPromoted, Bindings
    <3> QED BY <1>2, <1>6, <3>1
  <2>4. CreditHolds'
    BY <1>1, <1>6, <2>2, <2>3 DEF IInv, Remove, CreditHolds, SurvivesRotation, SiteServing,
       Serving, Survives, Answers, KeyAt, ServedCurrent, Live
  <2> QED BY <1>3, <1>4, <2>1, <2>4 DEF IInv
<1> QED BY <1>5, <1>6

LEMMA RotateIInv == ASSUME IInv, Rotate PROVE IInv'
<1>1. TypeOK'
  BY ShipBounds DEF IInv, TypeOK, Rotate, Later
<1>2. LiveListed' /\ KeysOfPromoted' /\ Reached'
  BY DEF IInv, LiveListed, KeysOfPromoted, Reached, Rotate, Live
<1>3. CopiesAge'
  BY DEF IInv, TypeOK, CopiesAge, Rotate
<1>4. CreditHolds'
  <2>1. SurvivesRotation => SurvivesRotation'
    BY ReferenceServes DEF IInv, SurvivesRotation, Serving, Survives, Answers, KeyAt, Rotate
  <2>2. SiteServing /\ SurvivesRotation => SiteServing'
    BY <2>1 DEF SiteServing, SurvivesRotation, ServedCurrent, Live, Rotate
  <2> QED BY <2>1, <2>2 DEF IInv, CreditHolds, Rotate
<1> QED BY <1>1, <1>2, <1>3, <1>4 DEF IInv

LEMMA VisitIInv == ASSUME IInv, Visit PROVE IInv'
<1>1. liveId # None /\ Live.generation \in Nat
  BY ReleaseFields DEF IInv, TypeOK, LiveListed, Live, Visit, Serving, Answers
<1>2. TypeOK'
  BY <1>1 DEF IInv, TypeOK, Visit
<1>3. LiveListed' /\ KeysOfPromoted' /\ CopiesAge' /\ Reached'
  BY DEF IInv, LiveListed, KeysOfPromoted, CopiesAge, Reached, Visit, Live
<1>4. CreditHolds'
  BY <1>1, ShipNone DEF IInv, CreditHolds, SurvivesRotation, SiteServing, Serving, Survives, Answers,
     KeyAt, ServedCurrent, Live, Visit
<1> QED BY <1>2, <1>3, <1>4 DEF IInv

LEMMA RestartIInv == ASSUME IInv, Restart PROVE IInv'
<1>1. TypeOK'
  <2>1. manifest' \in Manifests
    BY LaptopIsManifest DEF IInv, TypeOK, Restart
  <2>2. releases' \in [DOMAIN releases' -> Releases] /\ DOMAIN releases' = {0}
    BY DEF Restart, Boot, Abandoned, Releases, Bindings
  <2>3. literalKeys' \in [DOMAIN literalKeys' -> 0..MaxVersion]
    BY DEF Restart, Boot
  <2> QED BY <2>1, <2>2, <2>3, ShipBounds DEF IInv, TypeOK, Restart, Boot
<1>2. LiveListed' /\ KeysOfPromoted' /\ CopiesAge' /\ CreditHolds' /\ Reached'
  BY ShipNone DEF Restart, Boot, LiveListed, KeysOfPromoted, CopiesAge, CreditHolds, Reached,
     Abandoned
<1> QED BY <1>1, <1>2 DEF IInv

LEMMA CheckpointIInv ==
    ASSUME IInv, Probe \/ Verdict \/ \E check \in Checks : Ask(check)
    PROVE  IInv'
<1>1. CASE \E check \in Checks : Ask(check)
  <2>1. PICK check \in Checks : Ask(check)
    BY <1>1
  <2>2. CreditHolds'
    BY <2>1, GatesKeep DEF IInv, Ask
  <2>3. asking' \in Asked
    BY <2>1 DEF Ask, Asked
  <2> QED BY <2>1, <2>2, <2>3 DEF IInv, Ask, TypeOK, LiveListed, KeysOfPromoted, CopiesAge,
             Reached, Live
<1>2. CASE Probe
  <2>1. CreditHolds'
    BY <1>2, GatesKeep DEF IInv, Probe
  <2>2. asking \in Asked /\ Serving \in BOOLEAN
    BY <1>2 DEF IInv, TypeOK, Probe, Idle, Asked, Answered, Serving, Answers
  <2>3. asking' \in Answered
    BY <1>2, <2>2 DEF Probe, Asked, Answered
  <2> QED BY <1>2, <2>1, <2>3 DEF IInv, Probe, TypeOK, LiveListed, KeysOfPromoted, CopiesAge,
             Reached, Live
<1>3. CASE Verdict
  <2>1. asking \in Answered
    BY <1>3 DEF IInv, TypeOK, Verdict, Idle, Asked, Answered
  <2>2. asking.check \in Checks
    BY <2>1 DEF Answered
  <2>3. credited' \subseteq credited \cup {asking.check}
    BY <1>3 DEF Verdict
  <2>4. asking.check \in credited' /\ asking.check \notin credited => Credited(asking)
    BY <1>3 DEF Verdict
  <2>5. Credited(asking) =>
          SurvivesRotation /\ (asking.check = "clean-cutover" => SiteServing)
    BY <2>2 DEF Credited, Checks, Ready
  <2>6. /\ SurvivesRotation' <=> SurvivesRotation
        /\ SiteServing' <=> SiteServing
    BY <1>3 DEF Verdict, SurvivesRotation, SiteServing, Serving, Survives, Answers, KeyAt,
       ServedCurrent, Live
  <2>7. CreditHolds'
    BY <2>3, <2>4, <2>5, <2>6 DEF IInv, CreditHolds
  <2>8. credited' \subseteq Checks
    BY <2>2, <2>3 DEF IInv, TypeOK
  <2> QED BY <1>3, <2>7, <2>8 DEF IInv, Verdict, TypeOK, LiveListed, KeysOfPromoted, CopiesAge,
             Reached, Live
<1> QED BY <1>1, <1>2, <1>3

LEMMA NextIInv == IInv /\ [Next]_shipVars => IInv'
<1> SUFFICES ASSUME IInv, [Next]_shipVars PROVE IInv'
  OBVIOUS
<1>1. CASE \E m \in Manifests : EditManifest(m)
  BY <1>1, EditIInv
<1>2. CASE Deploy
  BY <1>2, RefuseIInv, PromoteIInv DEF Deploy
<1>3. CASE Rotate \/ Visit \/ Restart
  BY <1>3, RotateIInv, VisitIInv, RestartIInv
<1>4. CASE \E i \in DOMAIN releases : Remove(i)
  BY <1>4, RemoveIInv
<1>5. CASE Probe \/ Verdict \/ \E check \in Checks : Ask(check)
  BY <1>5, CheckpointIInv
<1>6. CASE UNCHANGED shipVars
  BY <1>6 DEF shipVars, IInv, TypeOK, LiveListed, KeysOfPromoted, CopiesAge, Reached, Live,
     CreditHolds, SurvivesRotation, SiteServing, Serving, Survives, Answers, KeyAt, ServedCurrent
<1> QED BY <1>1, <1>2, <1>3, <1>4, <1>5, <1>6 DEF Next

-----------------------------------------------------------------------------
(* Theorems.                                                               *)

LEMMA Inductive == Spec => []IInv
BY InitIInv, NextIInv, PTL DEF Spec

\* The types hold: records and copied keys are filed under numbers the counter gave
\* out, at every manifest, deletion and restart (ship.mjs:347-499).
THEOREM ShipTypes == Spec => []TypeOK
<1>1. IInv => TypeOK
  BY DEF IInv
<1> QED BY <1>1, Inductive, PTL

\* ShipSafe: one live release, the newest that stands; a copied key for each promoted
\* literal release alone; and what a checkpoint credited still holds (ship.mjs:410-499,
\* 883-903).
THEOREM ShipIsSafe == Spec => []ShipSafe
<1>1. IInv => ShipSafe
  BY DEF IInv, ShipSafe
<1> QED BY <1>1, Inductive, PTL

LEMMA ServesOn ==
    ASSUME IInv, [Next]_shipVars, counter' > counter, Serving
    PROVE  Serving'
<1>1. Deploy
  <2>1. counter \in Nat
    BY DEF IInv, TypeOK
  <2>2. counter' # counter /\ counter' # 0
    BY <2>1
  <2> QED BY <2>2 DEF Next, shipVars, EditManifest, Rotate, Visit, Restart, Boot, Remove, Ask,
             Probe, Verdict
<1>2. liveId \in DOMAIN releases /\ counter + 1 \notin DOMAIN releases
  BY DEF IInv, TypeOK, LiveListed, Serving, Answers
<1>3. CASE Refuse(manifest)
  <2>1. releases'[liveId] = releases[liveId]
    <3> DEFINE failed == [state |-> "failed", generation |-> GenerationAt(manifest),
                          binding |-> manifest.binding]
    <3>1. releases' = With(releases, counter + 1, failed)
      BY <1>3 DEF Refuse
    <3> HIDE DEF failed
    <3>2. \A j \in DOMAIN releases :
            j # counter + 1 => With(releases, counter + 1, failed)[j] = releases[j]
      BY DEF With
    <3> QED BY <1>2, <3>1, <3>2
  <2> QED BY <1>1, <1>3, <2>1 DEF Deploy, Refuse, Serving, Answers, KeyAt
<1>4. CASE Promote(manifest)
  <2>1. releases'[counter + 1].binding = manifest.binding
    <3> DEFINE live == [state |-> "live", generation |-> generation + 1,
                        binding |-> manifest.binding]
    <3>1. releases' = With(Superseded, counter + 1, live)
      BY <1>4 DEF Promote
    <3>2. live.binding = manifest.binding
      OBVIOUS
    <3> HIDE DEF live
    <3>3. With(Superseded, counter + 1, live)[counter + 1] = live
      BY DEF With
    <3> QED BY <3>1, <3>2, <3>3
  <2>2. liveId' = counter + 1 /\ liveId' # None /\ version' = version
    BY <1>1, <1>4, ShipNone DEF IInv, TypeOK, Deploy, Promote
  <2>3. CASE manifest.binding = "reference"
    BY <2>1, <2>2, <2>3 DEF Serving, Answers, KeyAt
  <2>4. CASE manifest.binding # "reference"
    <3>1. manifest.binding = "literal" /\ manifest.key = version
      BY <1>4, <2>4, ManifestFields DEF IInv, TypeOK, Promote, PassesGate
    <3>2. literalKeys'[counter + 1] = version
      BY <1>4, <3>1, KeyFiled
    <3> QED BY <2>1, <2>2, <2>4, <3>2 DEF Serving, Answers, KeyAt
  <2> QED BY <2>3, <2>4
<1> QED BY <1>1, <1>3, <1>4 DEF Deploy

\* No deploy, refused or promoted, takes a serving site down (ship.mjs:410-444).
THEOREM DeploysKeepServing == Spec => DeployKeepsServing
<1>1. IInv /\ [Next]_shipVars => [counter' > counter /\ Serving => Serving']_shipVars
  BY ServesOn
<1> QED BY <1>1, Inductive, PTL DEF Spec, DeployKeepsServing
-----------------------------------------------------------------------------
(* The ops plane of "secrets".                                             *)

\* How much of the job a set of allowed actions lets through (OpsKeys: Granted).
GrantedTo(allowed) ==
    Cardinality({i \in DOMAIN NightlyJob : \A j \in 1..i : NightlyJob[j] \in allowed})

\* A run that succeeded was allowed all of the job: why a run of before can speak for
\* what the job would do now.
RunHonest ==
    lastRun.ok => lastRun.key # None /\ GrantedTo(lastRun.allowed) = Len(NightlyJob)

OpsInv == Ops!TypeOK /\ Ops!HandoverStands /\ RunHonest

LEMMA JobFacts ==
    /\ NightlyJob \in Seq(Ops!JobActions) /\ Len(NightlyJob) \in Nat \ {0}
    /\ DOMAIN NightlyJob = 1..Len(NightlyJob) /\ NightlyJob[1] \in Ops!JobActions
    /\ Journal \in Nat \ {0} /\ Mintings \in Nat /\ None \notin Nat
<1>1. NightlyJob \in Seq(Ops!JobActions) /\ NightlyJob # <<>>
  BY StackBounds DEF Ops!OpsBounds, Ops!JobActions
<1>2. Len(NightlyJob) \in Nat \ {0} /\ DOMAIN NightlyJob = 1..Len(NightlyJob)
  BY <1>1, EmptySeq, LenProperties
<1>3. NightlyJob[1] \in Ops!JobActions
  BY <1>2 DEF Ops!JobActions
<1> QED BY <1>1, <1>2, <1>3, StackBounds DEF Ops!OpsBounds

LEMMA GrantedType ==
    ASSUME NEW allowed
    PROVE  GrantedTo(allowed) \in 0..Len(NightlyJob)
<1> DEFINE S == {i \in DOMAIN NightlyJob : \A j \in 1..i : NightlyJob[j] \in allowed}
<1>1. IsFiniteSet(1..Len(NightlyJob)) /\ Cardinality(1..Len(NightlyJob)) = Len(NightlyJob)
  BY JobFacts, FS_Interval
<1>2. S \in SUBSET (1..Len(NightlyJob))
  BY JobFacts
<1>3. Cardinality(S) <= Len(NightlyJob) /\ IsFiniteSet(S)
  BY <1>1, <1>2, FS_Subset
<1>4. Cardinality(S) \in Nat
  BY <1>3, FS_CardinalityType
<1> QED BY <1>3, <1>4, JobFacts DEF GrantedTo

\* An instance has definitions of its own of what FiniteSets defines: the same ones.
LEMMA OneCardinality ==
    \A S : Ops!Cardinality(S) = Cardinality(S) /\ Vibe!Cardinality(S) = Cardinality(S)
BY DEF Cardinality, Ops!Cardinality, Vibe!Cardinality

\* The job gets as far as what its manifest allows.
JobGranted == policy.ok => Ops!Granted = GrantedTo(policy.allowed)

LEMMA GrantedIs == JobGranted
<1> USE DEF JobGranted
<1> SUFFICES ASSUME policy.ok PROVE Ops!Granted = GrantedTo(policy.allowed)
  OBVIOUS
<1>1. \A action : Ops!Authorized(action) <=> action \in policy.allowed
  BY DEF Ops!Authorized
<1>2. \A i \in DOMAIN NightlyJob :
        (\A j \in 1..i : Ops!Authorized(NightlyJob[j]))
          <=> (\A j \in 1..i : NightlyJob[j] \in policy.allowed)
  BY <1>1
<1>3. {i \in DOMAIN NightlyJob : \A j \in 1..i : Ops!Authorized(NightlyJob[j])}
        = {i \in DOMAIN NightlyJob : \A j \in 1..i : NightlyJob[j] \in policy.allowed}
  BY <1>2
<1> QED BY <1>3, OneCardinality DEF Ops!Granted, GrantedTo

LEMMA NothingGranted == ~policy.ok => Ops!Granted = 0
<1> SUFFICES ASSUME ~policy.ok PROVE Ops!Granted = 0
  OBVIOUS
<1>1. \A i \in DOMAIN NightlyJob : ~(\A j \in 1..i : Ops!Authorized(NightlyJob[j]))
  <2> TAKE i \in DOMAIN NightlyJob
  <2>1. 1 \in 1..i
    BY JobFacts
  <2>2. ~Ops!Authorized(NightlyJob[1])
    BY DEF Ops!Authorized
  <2> QED BY <2>1, <2>2
<1>2. {i \in DOMAIN NightlyJob : \A j \in 1..i : Ops!Authorized(NightlyJob[j])} = {}
  BY <1>1
<1>3. Cardinality({}) = 0
  BY FS_EmptySet
<1> QED BY <1>2, <1>3, OneCardinality DEF Ops!Granted

LEMMA GrantedNat == Ops!Granted \in 0..Len(NightlyJob)
<1>1. CASE policy.ok
  BY <1>1, GrantedIs, GrantedType DEF JobGranted
<1>2. CASE ~policy.ok
  BY <1>2, NothingGranted, JobFacts
<1> QED BY <1>1, <1>2

LEMMA PolicyFields ==
    ASSUME NEW p \in Ops!Policies
    PROVE  /\ p.ok \in BOOLEAN /\ p.identity \in 0..Mintings /\ p.allowed \subseteq Ops!Catalog
           /\ ~p.ok => p = Ops!Broken
<1>1. CASE p = Ops!Broken
  BY <1>1, JobFacts DEF Ops!Broken, Ops!Legacy
<1>2. CASE p \in [ok : {TRUE}, identity : 0..Mintings, allowed : GrantSets]
  BY <1>2, StackBounds DEF Ops!OpsGrants, Ops!Catalog, Ops!JobActions
<1> QED BY <1>1, <1>2 DEF Ops!Policies

LEMMA StarterIsPolicy == Ops!Starter \in Ops!Policies
<1>1. Ops!Catalog \in GrantSets
  BY StackBounds DEF Ops!OpsStarter, Ops!Catalog, Ops!JobActions
<1> QED BY <1>1, JobFacts DEF Ops!Starter, Ops!Policies, Ops!Legacy

\* What a run leaves behind, whatever manifest it is made under.
LEMMA RunOfHonest ==
    policy \in Ops!Policies =>
        /\ Ops!RunOf \in Ops!Runs
        /\ Ops!RunOf.ok => /\ Ops!RunOf.key # None
                           /\ GrantedTo(Ops!RunOf.allowed) = Len(NightlyJob)
<1> SUFFICES ASSUME policy \in Ops!Policies
             PROVE  /\ Ops!RunOf \in Ops!Runs
                    /\ Ops!RunOf.ok => /\ Ops!RunOf.key # None
                                       /\ GrantedTo(Ops!RunOf.allowed) = Len(NightlyJob)
  OBVIOUS
<1>1. CASE ~Ops!Resolves
  BY <1>1 DEF Ops!RunOf, Ops!Runs
<1>2. CASE Ops!Resolves
  <2>1. policy.ok /\ policy.identity \in 0..Mintings /\ policy.allowed \subseteq Ops!Catalog
    BY <1>2, PolicyFields DEF Ops!Resolves
  <2>2. Ops!RunOf = [ok |-> Ops!Works, key |-> policy.identity, allowed |-> policy.allowed]
    BY <1>2 DEF Ops!RunOf
  <2>3. Ops!Works \in BOOLEAN /\ policy.identity # None
    BY <2>1, JobFacts DEF Ops!Works
  <2>4. Ops!Works => GrantedTo(policy.allowed) = Len(NightlyJob)
    BY <2>1, GrantedIs DEF JobGranted, Ops!Works
  <2> QED BY <2>1, <2>2, <2>3, <2>4 DEF Ops!Runs
<1> QED BY <1>1, <1>2

LEMMA OutcomesType == Ops!RunOutcomes \in Seq({"allowed", "refused"})
<1> DEFINE O == {"allowed", "refused"}
<1>1. [i \in 1..Ops!Granted |-> "allowed"] \in Seq(O)
  BY GrantedNat
<1>2. <<>> \in Seq(O) /\ <<"refused">> \in Seq(O)
  OBVIOUS
<1>3. \A s \in Seq(O), t \in Seq(O) : s \o t \in Seq(O)
  BY ConcatProperties
<1> QED BY <1>1, <1>2, <1>3 DEF Ops!RunOutcomes

\* The journal keeps to its length.
LEMMA RecordedType ==
    ASSUME NEW log \in Seq({"allowed", "refused"}), NEW outcomes \in Seq({"allowed", "refused"})
    PROVE  /\ Ops!Recorded(log, outcomes) \in Seq({"allowed", "refused"})
           /\ Len(Ops!Recorded(log, outcomes)) <= Journal
<1> DEFINE all == log \o outcomes
           from == Len(all) - Journal + 1
<1>1. all \in Seq({"allowed", "refused"}) /\ Len(all) \in Nat
  BY ConcatProperties, LenProperties
<1>2. CASE Len(all) <= Journal
  BY <1>1, <1>2 DEF Ops!Recorded
<1>3. CASE ~(Len(all) <= Journal)
  <2>1. from \in Int /\ 1 <= from /\ Journal \in Nat \ {0}
    BY <1>1, <1>3, JobFacts
  <2>2. \A i \in from..Len(all) : all[i] \in {"allowed", "refused"}
    BY <1>1, <2>1, ElementOfSeq
  <2>3. /\ SubSeq(all, from, Len(all)) \in Seq({"allowed", "refused"})
        /\ Len(SubSeq(all, from, Len(all))) = IF from <= Len(all) THEN Len(all) - from + 1 ELSE 0
    BY <1>1, <2>1, <2>2, SubSeqProperties
  <2>4. Len(SubSeq(all, from, Len(all))) <= Journal
    BY <1>1, <2>1, <2>3
  <2>5. Ops!Recorded(log, outcomes) = SubSeq(all, from, Len(all))
    BY <1>3 DEF Ops!Recorded
  <2> QED BY <2>3, <2>4, <2>5
<1> QED BY <1>2, <1>3

LEMMA NoteType ==
    ASSUME Ops!TypeOK, NEW outcomes \in Seq({"allowed", "refused"}),
           journal' = Ops!Recorded(journal, outcomes)
    PROVE  journal' \in Seq({"allowed", "refused"}) /\ Len(journal') <= Journal
BY RecordedType DEF Ops!TypeOK

LEMMA HealthyWorks == OpsInv => Ops!HealthyMeansWorks
<1> SUFFICES ASSUME OpsInv, Ops!Healthy PROVE Ops!Works
  BY DEF Ops!HealthyMeansWorks
<1>1. policy.ok /\ Ops!Resolves /\ GrantedTo(policy.allowed) = Len(NightlyJob)
  BY DEF OpsInv, RunHonest, Ops!Healthy, Ops!Resolves
<1> QED BY <1>1, GrantedIs DEF JobGranted, Ops!Works

LEMMA BootRun == policy \in Ops!Policies =>
    /\ Ops!Recorded(<<>>, Ops!RunOutcomes) \in Seq({"allowed", "refused"})
    /\ Len(Ops!Recorded(<<>>, Ops!RunOutcomes)) <= Journal
BY OutcomesType, RecordedType, EmptySeq

\* A process that has just started, whatever its manifest.
Fresh ==
    /\ policy \in Ops!Policies /\ minted = 0 /\ revoked = {} /\ presented = FALSE
    /\ lastRun = Ops!RunOf /\ journal = Ops!Recorded(<<>>, Ops!RunOutcomes)
    /\ checking = Ops!Idle /\ handover = FALSE

LEMMA FreshOps == Fresh => OpsInv
<1> SUFFICES ASSUME Fresh PROVE OpsInv
  OBVIOUS
<1>1. lastRun \in Ops!Runs /\ RunHonest
  BY RunOfHonest DEF Fresh, RunHonest
<1>2. journal \in Seq({"allowed", "refused"}) /\ Len(journal) <= Journal
  BY BootRun DEF Fresh
<1>3. checking \in Ops!Checkings /\ minted \in 0..Mintings
  BY JobFacts DEF Fresh, Ops!Checkings, Ops!Idle, Ops!Legacy
<1> QED BY <1>1, <1>2, <1>3 DEF Fresh, OpsInv, Ops!TypeOK, Ops!HandoverStands

LEMMA InitOps == Ops!Init => OpsInv
<1>1. Ops!Init => Fresh
  BY StarterIsPolicy DEF Ops!Init, Fresh
<1> QED BY <1>1, FreshOps

LEMMA RestartOps == ASSUME OpsInv, Ops!Restart PROVE OpsInv'
<1>1. Fresh'
  BY StarterIsPolicy DEF OpsInv, Ops!TypeOK, Ops!Restart, Fresh
<1> QED BY <1>1, FreshOps, PTL

LEMMA GrantedThen == policy'.ok => Ops!Granted' = GrantedTo(policy'.allowed)
<1>1. JobGranted'
  BY GrantedIs, PTL
<1> QED BY <1>1 DEF JobGranted

LEMMA HealthyThen == ASSUME OpsInv' PROVE Ops!HealthyMeansWorks'
BY HealthyWorks, PTL

\* A sign-off outlasts what leaves its manifest alone and closes none but other keys.
LEMMA StandsOn ==
    ASSUME OpsInv, policy' = policy, minted' \in Nat, minted' >= minted, revoked \subseteq revoked',
           policy.ok /\ policy.identity \in revoked' => policy.identity \in revoked,
           handover' = handover
    PROVE  Ops!HandoverStands'
<1> SUFFICES ASSUME handover'
             PROVE  /\ Ops!Works' /\ policy'.identity # Ops!Legacy /\ Ops!LeastPrivilege'
                    /\ Ops!Legacy \in revoked'
  BY DEF Ops!HandoverStands, Ops!Legacy
<1>1. Ops!Works /\ policy.identity # Ops!Legacy /\ Ops!LeastPrivilege /\ Ops!Legacy \in revoked
  BY DEF OpsInv, Ops!HandoverStands
<1>2. policy.ok /\ minted \in Nat /\ policy.identity \in 0..minted /\ policy.identity \notin revoked
  BY <1>1 DEF OpsInv, Ops!TypeOK, Ops!Works, Ops!Resolves, Ops!Active
<1>3. Ops!Granted' = Ops!Granted
  BY <1>2, GrantedIs, GrantedThen DEF JobGranted
<1>4. Ops!Resolves'
  BY <1>2 DEF Ops!Resolves, Ops!Active
<1>5. Ops!LeastPrivilege'
  BY <1>1 DEF Ops!LeastPrivilege, Ops!Authorized
<1> QED BY <1>1, <1>3, <1>4, <1>5 DEF Ops!Works, Ops!Legacy

LEMMA EditOps == ASSUME OpsInv, NEW p \in Ops!Policies, Ops!EditPolicy(p) PROVE OpsInv'
BY DEF OpsInv, Ops!TypeOK, Ops!EditPolicy, Ops!HandoverStands, RunHonest

LEMMA MintOps == ASSUME OpsInv, Ops!Mint PROVE OpsInv'
<1>1. minted \in Nat /\ minted' = minted + 1 /\ minted' \in 0..Mintings
  BY JobFacts DEF OpsInv, Ops!TypeOK, Ops!Mint
<1>2. Ops!HandoverStands'
  BY <1>1, StandsOn DEF Ops!Mint
<1>3. Ops!TypeOK'
  BY <1>1 DEF OpsInv, Ops!TypeOK, Ops!Mint
<1> QED BY <1>2, <1>3 DEF OpsInv, RunHonest, Ops!Mint

LEMMA RevokeOps == ASSUME OpsInv, NEW k \in 0..Mintings, Ops!Revoke(k) PROVE OpsInv'
<1>1. minted \in Nat /\ minted' = minted
  BY DEF OpsInv, Ops!TypeOK, Ops!Revoke
<1>2. Ops!HandoverStands'
  BY <1>1, StandsOn DEF Ops!Revoke, Ops!MayRevoke
<1>3. Ops!TypeOK'
  BY DEF OpsInv, Ops!TypeOK, Ops!Revoke, Ops!MayRevoke, Ops!Active
<1> QED BY <1>2, <1>3 DEF OpsInv, RunHonest, Ops!Revoke

LEMMA AskOps ==
    ASSUME OpsInv, NEW k \in 0..Mintings,
           Ops!Whoami(k) \/ \E action \in Ops!Catalog : Ops!Act(k, action)
    PROVE  OpsInv'
<1>0. minted \in Nat
  BY JobFacts DEF OpsInv, Ops!TypeOK
<1>1. minted \in Nat /\ minted' = minted /\ policy' = policy /\ revoked' = revoked
      /\ handover' = handover /\ lastRun' = lastRun /\ checking' = checking
  BY <1>0 DEF Ops!Whoami, Ops!Act, Ops!Note
<1>2. Ops!HandoverStands'
  BY <1>1, StandsOn
<1>3. journal' \in Seq({"allowed", "refused"}) /\ Len(journal') <= Journal
  <2>1. CASE Ops!Whoami(k)
    BY <2>1 DEF OpsInv, Ops!TypeOK, Ops!Whoami
  <2>2. ASSUME NEW action \in Ops!Catalog, Ops!Act(k, action)
        PROVE  journal' \in Seq({"allowed", "refused"}) /\ Len(journal') <= Journal
    <3>1. <<Ops!Outcome(k, action)>> \in Seq({"allowed", "refused"})
      BY DEF Ops!Outcome
    <3> QED BY <2>2, <3>1, NoteType DEF OpsInv, Ops!Act, Ops!Note
  <2> QED BY <2>1, <2>2
<1>4. presented' \in BOOLEAN
  BY DEF OpsInv, Ops!TypeOK, Ops!Whoami, Ops!Act
<1>5. Ops!TypeOK'
  BY <1>1, <1>3, <1>4 DEF OpsInv, Ops!TypeOK
<1> QED BY <1>1, <1>2, <1>5 DEF OpsInv, RunHonest

\* The steps that run the job and leave manifest and keys alone.
LEMMA DigestOps ==
    ASSUME OpsInv, Ops!RunDigest, journal' = Ops!Recorded(journal, Ops!RunOutcomes),
           policy' = policy, minted' = minted, revoked' = revoked, presented' = presented,
           checking' \in Ops!Checkings, handover' \in BOOLEAN
    PROVE  Ops!TypeOK' /\ RunHonest'
<1>1. lastRun' \in Ops!Runs /\ RunHonest'
  BY RunOfHonest DEF OpsInv, Ops!TypeOK, Ops!RunDigest, RunHonest
<1>2. journal' \in Seq({"allowed", "refused"}) /\ Len(journal') <= Journal
  BY NoteType, OutcomesType DEF OpsInv
<1> QED BY <1>1, <1>2 DEF OpsInv, Ops!TypeOK

LEMMA BeginOps ==
    ASSUME OpsInv, Ops!RunNow \/ Ops!BeginRevoked \/ Ops!BeginLeast
    PROVE  OpsInv'
<1>1. policy' = policy /\ minted' = minted /\ revoked' = revoked /\ presented' = presented
      /\ handover' = handover /\ Ops!RunDigest
      /\ journal' = Ops!Recorded(journal, Ops!RunOutcomes)
  BY DEF Ops!RunNow, Ops!BeginRevoked, Ops!BeginLeast, Ops!Note
<1>2. policy.identity \in 0..Mintings /\ minted \in Nat
  BY PolicyFields DEF OpsInv, Ops!TypeOK
<1>3. checking' \in Ops!Checkings
  <2>1. {NightlyJob[1]} \cup Dangerous \in SUBSET Ops!Catalog
    BY JobFacts DEF Ops!Catalog
  <2>2. Ops!Idle \in Ops!Checkings
    BY JobFacts DEF Ops!Idle, Ops!Checkings, Ops!Legacy
  <2> QED BY <1>2, <2>1, <2>2 DEF OpsInv, Ops!TypeOK, Ops!RunNow, Ops!Note, Ops!BeginRevoked,
             Ops!BeginLeast, Ops!Begin, Ops!Checkings
<1>4. Ops!HandoverStands'
  BY <1>1, <1>2, StandsOn
<1>5. Ops!TypeOK' /\ RunHonest'
  BY <1>1, <1>3, DigestOps DEF OpsInv, Ops!TypeOK
<1> QED BY <1>4, <1>5 DEF OpsInv

LEMMA ProbeOps ==
    ASSUME OpsInv,
           \/ Ops!ProbeLeaked \/ Ops!SettleLeast
           \/ \E action \in Ops!Catalog : Ops!ProbeLeast(action)
    PROVE  OpsInv'
<1>0. minted \in Nat
  BY JobFacts DEF OpsInv, Ops!TypeOK
<1>1. minted \in Nat /\ minted' = minted /\ policy' = policy /\ revoked' = revoked
      /\ handover' = handover /\ lastRun' = lastRun /\ presented' = presented
  BY <1>0 DEF Ops!ProbeLeaked, Ops!SettleLeast, Ops!ProbeLeast
<1>2. Ops!HandoverStands'
  BY <1>1, StandsOn
<1>3. Ops!Idle \in Ops!Checkings
  BY JobFacts DEF Ops!Idle, Ops!Checkings, Ops!Legacy
<1>4. \A k, action : <<Ops!Outcome(k, action)>> \in Seq({"allowed", "refused"})
  BY DEF Ops!Outcome
<1>5. /\ journal' \in Seq({"allowed", "refused"}) /\ Len(journal') <= Journal
      /\ checking' \in Ops!Checkings
  <2>1. CASE Ops!SettleLeast
    BY <2>1, <1>3 DEF OpsInv, Ops!TypeOK, Ops!SettleLeast
  <2>2. CASE Ops!ProbeLeaked
    BY <2>2, <1>3, <1>4, NoteType DEF OpsInv, Ops!ProbeLeaked
  <2>3. ASSUME NEW action \in Ops!Catalog, Ops!ProbeLeast(action)
        PROVE  /\ journal' \in Seq({"allowed", "refused"}) /\ Len(journal') <= Journal
               /\ checking' \in Ops!Checkings
    <3>1. [checking EXCEPT !.todo = @ \ {action}] \in Ops!Checkings
      BY DEF OpsInv, Ops!TypeOK, Ops!Checkings
    <3> QED BY <2>3, <3>1, <1>3, <1>4, NoteType DEF OpsInv, Ops!ProbeLeast
  <2> QED BY <2>1, <2>2, <2>3
<1>6. Ops!TypeOK'
  BY <1>1, <1>5 DEF OpsInv, Ops!TypeOK
<1> QED BY <1>1, <1>2, <1>6 DEF OpsInv, RunHonest

\* What is signed off is healthy, and what is healthy works.
LEMMA SignOffOps == ASSUME OpsInv, Ops!SignOff PROVE OpsInv'
<1>1. policy' = policy /\ minted' = minted /\ revoked' = revoked /\ presented' = presented
      /\ Ops!RunDigest /\ journal' = Ops!Recorded(journal, Ops!RunOutcomes)
      /\ checking' = checking
  BY DEF Ops!SignOff, Ops!Note
<1>2. Ops!Ready' \in BOOLEAN
  BY DEF Ops!Ready, Ops!Rotated, Ops!LeastPrivilege, Ops!Healthy, Ops!Authorized, Ops!Active,
     Ops!Resolves, OpsInv, Ops!TypeOK, Ops!SignOff
<1>3. handover' \in BOOLEAN /\ handover' = (handover \/ Ops!Ready')
  BY <1>2 DEF OpsInv, Ops!TypeOK, Ops!SignOff
<1>4. Ops!TypeOK' /\ RunHonest'
  BY <1>1, <1>3, DigestOps DEF OpsInv, Ops!TypeOK
<1>5. minted \in Nat
  BY DEF OpsInv, Ops!TypeOK
<1>6. CASE Ops!Ready'
  <2>1. /\ policy'.ok /\ Ops!Resolves' /\ lastRun'.key = policy'.identity /\ lastRun'.ok
        /\ lastRun'.allowed = policy'.allowed
        /\ lastRun'.key # Ops!Legacy /\ Ops!Legacy \in revoked' /\ Ops!LeastPrivilege'
    BY <1>6 DEF Ops!Ready, Ops!Rotated, Ops!Healthy, Ops!Resolves, Ops!Legacy
  <2>2. Ops!Granted' = Len(NightlyJob)
    BY <1>4, <2>1, GrantedThen DEF RunHonest
  <2>3. Ops!HandoverStands'
    BY <2>1, <2>2 DEF Ops!HandoverStands, Ops!Works, Ops!Legacy
  <2> QED BY <1>4, <2>3 DEF OpsInv
<1>7. CASE ~Ops!Ready'
  <2>1. handover' = handover
    BY <1>3, <1>7 DEF OpsInv, Ops!TypeOK
  <2>2. Ops!HandoverStands'
    BY <1>1, <1>5, <2>1, StandsOn
  <2> QED BY <1>4, <2>2 DEF OpsInv
<1> QED BY <1>6, <1>7

LEMMA NextOps == ASSUME OpsInv, Ops!Next PROVE OpsInv'
BY EditOps, MintOps, RevokeOps, AskOps, BeginOps, ProbeOps, SignOffOps, RestartOps DEF Ops!Next

LEMMA StillOps == ASSUME OpsInv, UNCHANGED opsVars PROVE OpsInv'
<1>1. minted \in Nat /\ minted' = minted /\ policy' = policy /\ revoked' = revoked
      /\ handover' = handover
  BY DEF OpsInv, Ops!TypeOK, opsVars
<1>2. Ops!HandoverStands'
  BY <1>1, StandsOn
<1> QED BY <1>2 DEF OpsInv, Ops!TypeOK, RunHonest, opsVars

LEMMA OpsInductive == StackSpec => [](scenario = "secrets" => OpsInv)
<1> DEFINE I == scenario = "secrets" => OpsInv
<1>1. StackInit => I
  BY InitOps DEF StackInit
<1>2. I /\ [StackNext]_stackVars => I'
  <2> SUFFICES ASSUME I, [StackNext]_stackVars, scenario' = "secrets" PROVE OpsInv'
    OBVIOUS
  <2>1. scenario = "secrets" /\ OpsInv
    BY DEF StackNext, stackVars
  <2>2. CASE Ops!Next
    BY <2>1, <2>2, NextOps
  <2>3. CASE UNCHANGED opsVars
    BY <2>1, <2>3, StillOps
  <2> QED BY <2>1, <2>2, <2>3 DEF StackNext, stackVars
<1> QED BY <1>1, <1>2, PTL DEF StackSpec

\* For any job, any grants and a journal of any length: a run called healthy is one the key
\* of today still makes, and a sign-off stands until its manifest is edited or the process
\* restarts, whatever is minted, revoked, presented or probed (secrets.mjs:896-915, 1107-1119).
THEOREM OpsAreSafe == StackSpec => []OpsSafe
<1>1. (scenario = "secrets" => OpsInv) => OpsSafe
  BY HealthyWorks DEF OpsInv, OpsSafe, Ops!OpsSafe
<1> QED BY <1>1, OpsInductive, PTL

-----------------------------------------------------------------------------
(* The feature of "vibe-build".                                            *)

\* The run's source is the one in force and has been since the run began: a saved stamp
\* never comes back, the starter's does, which only `whole` tells.
Steady == run # Vibe!NoRun /\ run.stamp = saved /\ (saved # 0 \/ run.whole)

\* A probe is asked in a run that is going well, and of the child of the source in force
\* if that is the source of the run.
ProbeAsked ==
    "probe" \in pending =>
        run.ok /\ run.step <= ProbesPerRun /\ (Steady => child.stamp = saved)

\* What a steady run has seen is what the source in force does.
RunJudged ==
    /\ run # Vibe!NoRun /\ run.whole => run.stamp = saved
    /\ Steady /\ run.step > 1 => Vibe!Does(saved) = "right"
    /\ run # Vibe!NoRun /\ run.whole /\ ~run.ok => Vibe!Does(saved) # "right"

VibeInv ==
    /\ Vibe!TypeOK /\ Vibe!CallsServed /\ IsFiniteSet(pending)
    /\ ProbeAsked /\ RunJudged /\ Vibe!SavedGateTrue

LEMMA VibeFacts ==
    /\ Pending \in Nat /\ MostQueued \in Nat /\ ProbesPerRun \in Nat \ {0} /\ Savings \in Nat
    /\ "probe" \notin FeatureVisitors
BY StackBounds DEF Vibe!VibeBounds

AnyRun == {Vibe!NoRun} \cup Vibe!Runs

LEMMA RunFields ==
    ASSUME NEW r \in Vibe!Runs
    PROVE  /\ r # Vibe!NoRun /\ r.task \in {"selfcheck", "verify"} /\ r.stamp \in 0..Len(code)
           /\ r.step \in 1..ProbesPerRun + 1 /\ r.ok \in BOOLEAN /\ r.whole \in BOOLEAN
BY DEF Vibe!Runs, Vibe!NoRun, Vibe!Stamps

LEMMA TaskType == Vibe!NoRun \notin Vibe!Runs
BY RunFields

\* What a failed call and a disturbance do to a run.
LEMMA FailedRun ==
    ASSUME run \in AnyRun, NEW calls, "probe" \in calls => run # Vibe!NoRun
    PROVE  /\ Vibe!Failed(calls) \in AnyRun
           /\ Vibe!Failed(calls) = Vibe!NoRun <=> run = Vibe!NoRun
           /\ run # Vibe!NoRun =>
                 /\ Vibe!Failed(calls).stamp = run.stamp /\ Vibe!Failed(calls).step = run.step
                 /\ Vibe!Failed(calls).whole = run.whole
                 /\ Vibe!Failed(calls).ok = (run.ok /\ "probe" \notin calls)
<1>1. CASE "probe" \notin calls
  <2>1. Vibe!Failed(calls) = run
    BY <1>1 DEF Vibe!Failed
  <2>2. run # Vibe!NoRun => run.ok \in BOOLEAN
    BY RunFields DEF AnyRun
  <2> QED BY <1>1, <2>1, <2>2
<1>2. CASE "probe" \in calls
  <2>1. run \in Vibe!Runs /\ Vibe!Failed(calls) = [run EXCEPT !.ok = FALSE]
    BY <1>2 DEF AnyRun, Vibe!Failed
  <2>2. [run EXCEPT !.ok = FALSE] \in Vibe!Runs
    BY <2>1 DEF Vibe!Runs
  <2>3. /\ [run EXCEPT !.ok = FALSE].stamp = run.stamp
        /\ [run EXCEPT !.ok = FALSE].step = run.step
        /\ [run EXCEPT !.ok = FALSE].whole = run.whole
        /\ [run EXCEPT !.ok = FALSE].ok = FALSE
    BY <2>1 DEF Vibe!Runs
  <2> QED BY <1>2, <2>1, <2>2, <2>3, TaskType DEF AnyRun
<1> QED BY <1>1, <1>2

LEMMA DisturbedRun ==
    ASSUME NEW r \in AnyRun
    PROVE  /\ Vibe!Disturbed(r) \in AnyRun
           /\ Vibe!Disturbed(r) = Vibe!NoRun <=> r = Vibe!NoRun
           /\ r # Vibe!NoRun =>
                 /\ Vibe!Disturbed(r).stamp = r.stamp /\ Vibe!Disturbed(r).step = r.step
                 /\ ~Vibe!Disturbed(r).whole /\ Vibe!Disturbed(r).ok = r.ok
<1>1. CASE r = Vibe!NoRun
  BY <1>1 DEF Vibe!Disturbed
<1>2. CASE r # Vibe!NoRun
  <2>1. r \in Vibe!Runs /\ Vibe!Disturbed(r) = [r EXCEPT !.whole = FALSE]
    BY <1>2 DEF AnyRun, Vibe!Disturbed
  <2>2. [r EXCEPT !.whole = FALSE] \in Vibe!Runs
    BY <2>1 DEF Vibe!Runs
  <2>3. /\ [r EXCEPT !.whole = FALSE].stamp = r.stamp
        /\ [r EXCEPT !.whole = FALSE].step = r.step
        /\ [r EXCEPT !.whole = FALSE].whole = FALSE
        /\ [r EXCEPT !.whole = FALSE].ok = r.ok
    BY <2>1 DEF Vibe!Runs
  <2> QED BY <2>1, <2>2, <2>3, TaskType DEF AnyRun
<1> QED BY <1>1, <1>2

\* The conditions under which a step that keeps source and result keeps what a run is
\* judged by.
LEMMA JudgedOn ==
    ASSUME VibeInv, code' = code, saved' = saved, measured' = measured,
           run' = Vibe!NoRun <=> run = Vibe!NoRun,
           run # Vibe!NoRun => run'.stamp = run.stamp /\ (run'.whole => run.whole),
           run # Vibe!NoRun => run'.step = run.step \/ (Steady => Vibe!Does(saved) = "right"),
           run # Vibe!NoRun /\ run'.whole /\ ~run'.ok => ~run.ok \/ Vibe!Does(saved) # "right"
    PROVE  RunJudged' /\ Vibe!SavedGateTrue'
<1>1. Vibe!Does(saved)' = Vibe!Does(saved)
  BY DEF Vibe!Does
<1>2. Steady' => Steady
  BY DEF Steady
<1>3. RunJudged'
  BY <1>1, <1>2 DEF VibeInv, RunJudged, Steady
<1>4. Vibe!SavedGateTrue'
  BY <1>1 DEF VibeInv, Vibe!SavedGateTrue, Vibe!Green
<1> QED BY <1>3, <1>4

LEMMA InitVibe == Vibe!Init => VibeInv
<1> SUFFICES ASSUME Vibe!Init PROVE VibeInv
  OBVIOUS
<1>1. Vibe!TypeOK
  <2>1. code \in Seq(Vibe!Sources) /\ Len(code) = 0 /\ Len(queue) = 0
        /\ queue \in Seq({"selfcheck", "verify"})
    BY DEF Vibe!Init
  <2>2. Len(code) <= Savings /\ saved \in Vibe!Stamps
    BY <2>1, VibeFacts DEF Vibe!Init, Vibe!Stamps
  <2>3. child = Vibe!NoChild /\ run = Vibe!NoRun /\ measured = Vibe!Nothing /\ scorer = "idle"
        /\ pending = {} /\ mute = {} /\ doomed = FALSE /\ spoiled = FALSE /\ receipt = FALSE
    BY DEF Vibe!Init
  <2> QED BY <2>1, <2>2, <2>3 DEF Vibe!TypeOK
<1>2. Cardinality({}) = 0 /\ IsFiniteSet({})
  BY FS_EmptySet
<1>3. Vibe!CallsServed
  BY <1>2, OneCardinality, VibeFacts DEF Vibe!Init, Vibe!CallsServed, Vibe!Queued
<1>4. ProbeAsked /\ RunJudged /\ Vibe!SavedGateTrue
  BY DEF Vibe!Init, ProbeAsked, RunJudged, Steady, Vibe!SavedGateTrue, Vibe!Green, Vibe!Nothing
<1> QED BY <1>1, <1>2, <1>3, <1>4 DEF VibeInv, Vibe!Init

\* A call enters the map of those that wait: the cap, the child, and the run it may belong
\* to (`mine`: a probe of it).
LEMMA CallVibe ==
    ASSUME VibeInv, NEW c \in Vibe!Calls, Vibe!CallFeature(c),
           c = "probe" => run # Vibe!NoRun /\ run.ok /\ run.step <= ProbesPerRun
    PROVE  VibeInv'
<1>0. /\ run \in AnyRun /\ IsFiniteSet(pending) /\ Cardinality(pending) <= Pending
      /\ Cardinality(pending) \in Nat /\ c \notin pending /\ pending \subseteq Vibe!Calls
      /\ code' = code /\ saved' = saved /\ queue' = queue /\ measured' = measured
      /\ receipt' = receipt /\ scorer' = scorer
  BY OneCardinality, FS_CardinalityType
     DEF VibeInv, Vibe!TypeOK, AnyRun, Vibe!CallsServed, Vibe!CallFeature
<1>1. CASE Cardinality(pending) >= Pending
  <2>1. run' = Vibe!Disturbed(Vibe!Failed({c})) /\ pending' = pending /\ child' = child
        /\ mute' = mute /\ doomed' = doomed /\ spoiled' = spoiled
    BY <1>1, OneCardinality DEF Vibe!CallFeature
  <2>2. /\ Vibe!Failed({c}) \in AnyRun /\ (Vibe!Failed({c}) = Vibe!NoRun <=> run = Vibe!NoRun)
        /\ run # Vibe!NoRun =>
              /\ Vibe!Failed({c}).stamp = run.stamp /\ Vibe!Failed({c}).step = run.step
              /\ Vibe!Failed({c}).ok = (run.ok /\ "probe" \notin {c})
    BY <1>0, FailedRun
  <2>3. /\ run' \in AnyRun /\ (run' = Vibe!NoRun <=> run = Vibe!NoRun)
        /\ run # Vibe!NoRun =>
              /\ run'.stamp = run.stamp /\ run'.step = run.step /\ ~run'.whole
              /\ run'.ok = (run.ok /\ "probe" \notin {c})
    BY <2>1, <2>2, DisturbedRun
  <2>4. RunJudged' /\ Vibe!SavedGateTrue'
    BY <1>0, <2>3, JudgedOn
  <2>5. ProbeAsked'
    BY <1>0, <2>1, <2>3 DEF VibeInv, ProbeAsked, Steady, Vibe!CallsServed
  <2>6. Vibe!TypeOK'
    BY <1>0, <2>1, <2>3 DEF VibeInv, Vibe!TypeOK, AnyRun, Vibe!Runs, Vibe!Stamps
  <2>7. Vibe!CallsServed'
    BY <1>0, <2>1, <2>3 DEF VibeInv, Vibe!CallsServed, Vibe!Queued
  <2> QED BY <1>0, <2>1, <2>4, <2>5, <2>6, <2>7 DEF VibeInv
<1>2. CASE ~(Cardinality(pending) >= Pending) /\ Vibe!Fits
  <2>1. pending' = pending \cup {c} /\ child' = child /\ mute' = mute /\ doomed' = doomed
        /\ spoiled' = spoiled /\ run' = run
    BY <1>2, OneCardinality DEF Vibe!CallFeature
  <2>2. IsFiniteSet(pending') /\ Cardinality(pending') <= Pending
    <3>1. IsFiniteSet(pending \cup {c}) /\ Cardinality(pending \cup {c}) = Cardinality(pending) + 1
      BY <1>0, FS_AddElement
    <3>2. Cardinality(pending) + 1 <= Pending
      BY <1>0, <1>2, VibeFacts
    <3> QED BY <2>1, <3>1, <3>2
  <2>3. RunJudged' /\ Vibe!SavedGateTrue'
    BY <1>0, <2>1, JudgedOn
  <2>4. ProbeAsked'
    BY <1>0, <1>2, <2>1 DEF VibeInv, ProbeAsked, Steady, Vibe!Fits
  <2>5. Vibe!TypeOK'
    BY <1>0, <2>1 DEF VibeInv, Vibe!TypeOK, Vibe!Runs, Vibe!Stamps
  <2>6. Vibe!CallsServed'
    BY <1>0, <1>2, <2>1, <2>2, OneCardinality DEF VibeInv, Vibe!CallsServed, Vibe!Queued, Vibe!Fits
  <2> QED BY <2>2, <2>3, <2>4, <2>5, <2>6 DEF VibeInv
<1>3. CASE ~(Cardinality(pending) >= Pending) /\ ~Vibe!Fits
  <2>1. pending' = {c} /\ child' = [stamp |-> saved] /\ mute' = {} /\ spoiled' = FALSE
        /\ run' = Vibe!Failed(pending) /\ doomed' = (doomed \/ child # Vibe!NoChild)
    BY <1>3, OneCardinality DEF Vibe!CallFeature
  <2>2. "probe" \in pending => run # Vibe!NoRun
    BY DEF VibeInv, Vibe!CallsServed
  <2>3. /\ run' \in AnyRun /\ (run' = Vibe!NoRun <=> run = Vibe!NoRun)
        /\ run # Vibe!NoRun =>
              /\ run'.stamp = run.stamp /\ run'.step = run.step /\ run'.whole = run.whole
              /\ run'.ok = (run.ok /\ "probe" \notin pending)
    BY <1>0, <2>1, <2>2, FailedRun
  <2>4. "probe" \in pending => ~run.whole
    BY <1>3, <2>2 DEF VibeInv, ProbeAsked, RunJudged, Steady, Vibe!Fits, Vibe!CallsServed
  <2>5. RunJudged' /\ Vibe!SavedGateTrue'
    BY <1>0, <2>3, <2>4, JudgedOn
  <2>6. ProbeAsked'
    BY <1>0, <2>1, <2>3 DEF VibeInv, ProbeAsked, Steady
  <2>7. Vibe!TypeOK'
    <3>1. child' \in [stamp : Vibe!Stamps]
      BY <2>1 DEF VibeInv, Vibe!TypeOK
    <3> QED BY <1>0, <2>1, <2>3, <3>1 DEF VibeInv, Vibe!TypeOK, AnyRun, Vibe!Runs, Vibe!Stamps
  <2>8. IsFiniteSet(pending') /\ Cardinality(pending') <= Pending
    <3>1. IsFiniteSet({c}) /\ Cardinality({c}) = 1
      BY FS_Singleton
    <3>2. 1 <= Pending
      BY <1>0, <1>3, VibeFacts
    <3> QED BY <2>1, <3>1, <3>2
  <2>9. child' # Vibe!NoChild
    BY <2>1 DEF VibeInv, Vibe!TypeOK, Vibe!NoChild, Vibe!Stamps
  <2>10. Vibe!CallsServed'
    BY <1>0, <2>1, <2>3, <2>8, <2>9, OneCardinality DEF VibeInv, Vibe!CallsServed, Vibe!Queued
  <2> QED BY <2>5, <2>6, <2>7, <2>8, <2>10 DEF VibeInv
<1> QED BY <1>1, <1>2, <1>3

LEMMA AskVibe == ASSUME VibeInv, Vibe!ProbeAsk \/ \E v \in FeatureVisitors : Vibe!Visit(v)
                 PROVE  VibeInv'
BY CallVibe, VibeFacts DEF Vibe!ProbeAsk, Vibe!Visit, Vibe!Calls

\* The child goes and every call with it: what the run may lose by it is a probe, to a child
\* that a right source does not have.
LEMMA GoneVibe ==
    ASSUME VibeInv, code' = code, saved' = saved, queue' = queue, measured' = measured,
           receipt' = receipt, scorer' = scorer,
           child' = Vibe!NoChild, pending' = {}, mute' = {}, doomed' \in BOOLEAN,
           spoiled' \in BOOLEAN,
           \/ run' = Vibe!Failed(pending) /\ Vibe!Does(child.stamp) # "right"
           \/ run' = Vibe!Disturbed(Vibe!Failed(pending))
    PROVE  VibeInv'
<1>1. run \in AnyRun /\ ("probe" \in pending => run # Vibe!NoRun)
  BY DEF VibeInv, Vibe!TypeOK, AnyRun, Vibe!CallsServed
<1>2. /\ Vibe!Failed(pending) \in AnyRun /\ (Vibe!Failed(pending) = Vibe!NoRun <=> run = Vibe!NoRun)
      /\ run # Vibe!NoRun =>
            /\ Vibe!Failed(pending).stamp = run.stamp /\ Vibe!Failed(pending).step = run.step
            /\ Vibe!Failed(pending).whole = run.whole
            /\ Vibe!Failed(pending).ok = (run.ok /\ "probe" \notin pending)
  BY <1>1, FailedRun
<1>3. /\ run' \in AnyRun /\ (run' = Vibe!NoRun <=> run = Vibe!NoRun)
      /\ run # Vibe!NoRun =>
            /\ run'.stamp = run.stamp /\ run'.step = run.step /\ (run'.whole => run.whole)
            /\ run'.ok = (run.ok /\ "probe" \notin pending)
            /\ run'.whole => Vibe!Does(child.stamp) # "right"
  <2>1. CASE run' = Vibe!Failed(pending) /\ Vibe!Does(child.stamp) # "right"
    BY <1>2, <2>1
  <2>2. CASE run' = Vibe!Disturbed(Vibe!Failed(pending))
    BY <1>2, <2>2, DisturbedRun
  <2> QED BY <2>1, <2>2
<1>4. run # Vibe!NoRun /\ run'.whole /\ ~run'.ok => ~run.ok \/ Vibe!Does(saved) # "right"
  BY <1>3 DEF VibeInv, ProbeAsked, RunJudged, Steady
<1>5. RunJudged' /\ Vibe!SavedGateTrue'
  BY <1>3, <1>4, JudgedOn
<1>6. IsFiniteSet(pending') /\ Cardinality(pending') = 0
  BY FS_EmptySet
<1>7. Vibe!TypeOK'
  BY <1>3 DEF VibeInv, Vibe!TypeOK, AnyRun, Vibe!Runs, Vibe!Stamps
<1>8. Vibe!CallsServed'
  BY <1>3, <1>6, OneCardinality, VibeFacts DEF VibeInv, Vibe!CallsServed, Vibe!Queued
<1> QED BY <1>5, <1>6, <1>7, <1>8 DEF VibeInv, ProbeAsked

LEMMA ExitVibe == ASSUME VibeInv, Vibe!Exit PROVE VibeInv'
BY GoneVibe DEF Vibe!Exit, VibeInv, Vibe!TypeOK

LEMMA TimeoutVibe == ASSUME VibeInv, NEW c \in Vibe!Calls, Vibe!Timeout(c) PROVE VibeInv'
<1>1. c \notin mute => Vibe!Does(child.stamp) # "right"
  BY DEF Vibe!Timeout
<1> QED BY <1>1, GoneVibe DEF Vibe!Timeout, Vibe!Restarted, VibeInv, Vibe!TypeOK

LEMMA ReplyVibe == ASSUME VibeInv, NEW c \in Vibe!Calls, Vibe!Reply(c) PROVE VibeInv'
<1>0. /\ run \in AnyRun /\ IsFiniteSet(pending) /\ Cardinality(pending) <= Pending
      /\ c \in pending /\ c \notin mute /\ pending \subseteq Vibe!Calls /\ mute \subseteq pending
      /\ child # Vibe!NoChild
      /\ code' = code /\ saved' = saved /\ queue' = queue /\ measured' = measured
      /\ receipt' = receipt /\ scorer' = scorer
  BY OneCardinality DEF VibeInv, Vibe!TypeOK, AnyRun, Vibe!CallsServed, Vibe!Reply
<1>1. CASE spoiled
  <2>1. Vibe!Swallowed(c)
    BY <1>1 DEF Vibe!Reply
  <2>2. /\ run' \in AnyRun /\ (run' = Vibe!NoRun <=> run = Vibe!NoRun)
        /\ run # Vibe!NoRun =>
              run'.stamp = run.stamp /\ run'.step = run.step /\ ~run'.whole /\ run'.ok = run.ok
    BY <1>0, <2>1, DisturbedRun DEF Vibe!Swallowed
  <2>3. RunJudged' /\ Vibe!SavedGateTrue'
    BY <1>0, <2>2, JudgedOn
  <2>4. ProbeAsked'
    BY <1>0, <2>1, <2>2 DEF VibeInv, ProbeAsked, Steady, Vibe!CallsServed, Vibe!Swallowed
  <2>5. Vibe!TypeOK'
    BY <1>0, <2>1, <2>2 DEF VibeInv, Vibe!TypeOK, AnyRun, Vibe!Runs, Vibe!Stamps, Vibe!Swallowed
  <2>6. Vibe!CallsServed'
    BY <1>0, <2>1, <2>2 DEF VibeInv, Vibe!CallsServed, Vibe!Queued, Vibe!Swallowed
  <2> QED BY <1>0, <2>1, <2>3, <2>4, <2>5, <2>6 DEF VibeInv, Vibe!Swallowed
<1>2. CASE ~spoiled /\ Vibe!Does(child.stamp) = "broken"
  BY <1>2, <1>0, GoneVibe DEF Vibe!Reply, Vibe!Unloadable, Vibe!Restarted, VibeInv, Vibe!TypeOK
<1>3. CASE ~spoiled /\ Vibe!Does(child.stamp) # "broken"
  <2>1. Vibe!Answered(c)
    BY <1>3 DEF Vibe!Reply
  <2>2. pending' = pending \ {c} /\ child' = child /\ mute' = mute /\ doomed' = doomed
        /\ spoiled' = spoiled
    BY <2>1 DEF Vibe!Answered
  <2>3. IsFiniteSet(pending') /\ Cardinality(pending') <= Pending
    <3>1. Cardinality(pending') = Cardinality(pending) - 1 /\ IsFiniteSet(pending')
      BY <1>0, <2>2, FS_RemoveElement
    <3>2. Cardinality(pending) \in Nat
      BY <1>0, FS_CardinalityType
    <3> QED BY <1>0, <3>1, <3>2, VibeFacts
  <2>4. /\ run' \in AnyRun /\ (run' = Vibe!NoRun <=> run = Vibe!NoRun)
        /\ run # Vibe!NoRun =>
              /\ run'.stamp = run.stamp /\ run'.whole = run.whole
              /\ run'.step = run.step \/ (Steady => Vibe!Does(saved) = "right")
              /\ run'.whole /\ ~run'.ok => ~run.ok \/ Vibe!Does(saved) # "right"
        /\ c # "probe" => run' = run
    <3>1. CASE c # "probe"
      <4>1. run' = run
        BY <2>1, <3>1 DEF Vibe!Answered
      <4> QED BY <1>0, <3>1, <4>1
    <3>2. CASE c = "probe"
      <4>0. /\ run \in Vibe!Runs /\ run # Vibe!NoRun /\ run.ok /\ run.step <= ProbesPerRun
            /\ (Steady => child.stamp = saved) /\ (run.whole => Steady)
        BY <1>0, <3>2 DEF VibeInv, Vibe!CallsServed, AnyRun, ProbeAsked, RunJudged, Steady
      <4>1. CASE Vibe!Does(child.stamp) = "right"
        <5>1. run' = [run EXCEPT !.step = @ + 1]
          BY <2>1, <3>2, <4>1 DEF Vibe!Answered
        <5>2. run.step + 1 \in 1..ProbesPerRun + 1
          BY <4>0, RunFields, VibeFacts
        <5>3. run' \in Vibe!Runs /\ run'.stamp = run.stamp /\ run'.whole = run.whole
              /\ run'.ok = run.ok
          BY <4>0, <5>1, <5>2 DEF Vibe!Runs
        <5> QED BY <3>2, <4>0, <4>1, <5>3, TaskType DEF AnyRun
      <4>2. CASE Vibe!Does(child.stamp) # "right"
        <5>1. run' = Vibe!Failed({c})
          BY <2>1, <3>2, <4>2 DEF Vibe!Answered
        <5>2. /\ run' \in AnyRun /\ run' # Vibe!NoRun
              /\ run'.stamp = run.stamp /\ run'.step = run.step /\ run'.whole = run.whole
          BY <1>0, <4>0, <5>1, FailedRun
        <5> QED BY <3>2, <4>0, <4>2, <5>2
      <4> QED BY <4>1, <4>2
    <3> QED BY <3>1, <3>2
  <2>5. RunJudged' /\ Vibe!SavedGateTrue'
    BY <1>0, <2>4, JudgedOn
  <2>6. ProbeAsked'
    BY <1>0, <2>2, <2>4 DEF VibeInv, ProbeAsked, Steady
  <2>7. Vibe!TypeOK'
    BY <1>0, <2>2, <2>4 DEF VibeInv, Vibe!TypeOK, AnyRun, Vibe!Runs, Vibe!Stamps
  <2>8. Vibe!CallsServed'
    BY <1>0, <2>2, <2>3, <2>4, OneCardinality DEF VibeInv, Vibe!CallsServed, Vibe!Queued
  <2> QED BY <2>3, <2>5, <2>6, <2>7, <2>8 DEF VibeInv
<1> QED BY <1>1, <1>2, <1>3

LEMMA LateVibe == ASSUME VibeInv, Vibe!LateOutput PROVE VibeInv'
<1>1. doomed' \in BOOLEAN /\ spoiled' \in BOOLEAN
  BY DEF VibeInv, Vibe!TypeOK, Vibe!LateOutput
<1>2. /\ code' = code /\ saved' = saved /\ child' = child /\ pending' = pending
      /\ mute' = mute /\ run' = run /\ measured' = measured /\ receipt' = receipt
      /\ scorer' = scorer /\ queue' = queue
  BY DEF Vibe!LateOutput
<1>3. Vibe!TypeOK'
  BY <1>1, <1>2 DEF VibeInv, Vibe!TypeOK, Vibe!Runs, Vibe!Stamps
<1>4. Vibe!CallsServed'
  BY <1>2 DEF VibeInv, Vibe!CallsServed, Vibe!Queued
<1>5. ProbeAsked' /\ RunJudged' /\ Vibe!SavedGateTrue'
  BY <1>2 DEF VibeInv, ProbeAsked, RunJudged, Steady, Vibe!Does, Vibe!SavedGateTrue, Vibe!Green
<1> QED BY <1>2, <1>3, <1>4, <1>5 DEF VibeInv

\* The steps that touch neither calls, source, child nor run: queue and page.
LEMMA PageVibe ==
    ASSUME VibeInv, code' = code, saved' = saved, child' = child, pending' = pending,
           mute' = mute, doomed' = doomed, spoiled' = spoiled, run' = run, measured' = measured,
           receipt' \in BOOLEAN, scorer' \in {"idle", "waiting", "queued", "correct", "incorrect"},
           queue' \in Seq({"selfcheck", "verify"}), Vibe!Queued' <= MostQueued
    PROVE  VibeInv'
<1>1. Vibe!TypeOK'
  BY DEF VibeInv, Vibe!TypeOK, Vibe!Runs, Vibe!Stamps
<1>2. Vibe!CallsServed'
  BY DEF VibeInv, Vibe!CallsServed
<1>3. ProbeAsked' /\ RunJudged' /\ Vibe!SavedGateTrue'
  BY DEF VibeInv, ProbeAsked, RunJudged, Steady, Vibe!Does, Vibe!SavedGateTrue, Vibe!Green
<1> QED BY <1>1, <1>2, <1>3 DEF VibeInv

LEMMA QueueVibe ==
    ASSUME VibeInv, Vibe!Selfcheck \/ Vibe!Verify \/ Vibe!Slot \/ Vibe!Posture
    PROVE  VibeInv'
<1>1. /\ code' = code /\ saved' = saved /\ child' = child /\ pending' = pending
      /\ mute' = mute /\ doomed' = doomed /\ spoiled' = spoiled /\ run' = run
      /\ measured' = measured
  BY DEF Vibe!Selfcheck, Vibe!Verify, Vibe!Slot, Vibe!Posture
<1>2. /\ receipt' \in BOOLEAN
      /\ scorer' \in {"idle", "waiting", "queued", "correct", "incorrect"}
  BY DEF VibeInv, Vibe!TypeOK, Vibe!Selfcheck, Vibe!Verify, Vibe!Slot, Vibe!Posture
<1>3. /\ queue \in Seq({"selfcheck", "verify"}) /\ Len(queue) \in Nat
      /\ Vibe!Queued <= MostQueued /\ MostQueued \in Nat
  BY VibeFacts DEF VibeInv, Vibe!TypeOK, Vibe!CallsServed
<1>4. CASE queue' = queue
  <2>1. Vibe!Queued' = Vibe!Queued
    BY <1>1, <1>4 DEF Vibe!Queued
  <2> QED BY <1>1, <1>2, <1>3, <1>4, <2>1, PageVibe
<1>5. ASSUME NEW task \in {"selfcheck", "verify"}, Vibe!Queued < MostQueued,
             queue' = Append(queue, task)
      PROVE  VibeInv'
  <2>1. queue' \in Seq({"selfcheck", "verify"}) /\ Len(queue') = Len(queue) + 1
    BY <1>3, <1>5
  <2>2. Vibe!Queued' = Vibe!Queued + 1 /\ Vibe!Queued \in Nat
    BY <1>1, <1>3, <2>1 DEF Vibe!Queued
  <2> QED BY <1>1, <1>2, <1>3, <1>5, <2>1, <2>2, PageVibe
<1> QED BY <1>4, <1>5 DEF Vibe!Selfcheck, Vibe!Verify, Vibe!Slot, Vibe!Posture

\* A run begins with the stamp of the source in force, and with no probe on its way.
LEMMA StartVibe == ASSUME VibeInv, Vibe!StartRun PROVE VibeInv'
<1>0. /\ run = Vibe!NoRun /\ "probe" \notin pending /\ code' = code /\ saved' = saved
      /\ child' = child /\ pending' = pending /\ mute' = mute /\ doomed' = doomed
      /\ spoiled' = spoiled /\ measured' = measured /\ receipt' = receipt /\ scorer' = scorer
      /\ queue \in Seq({"selfcheck", "verify"}) /\ queue # <<>> /\ queue' = Tail(queue)
      /\ saved \in Vibe!Stamps
  BY DEF VibeInv, Vibe!TypeOK, Vibe!StartRun, Vibe!CallsServed
<1>1. /\ Head(queue) \in {"selfcheck", "verify"} /\ queue' \in Seq({"selfcheck", "verify"})
      /\ Len(queue') = Len(queue) - 1 /\ Len(queue) \in Nat
  BY <1>0, HeadTailProperties, LenProperties
<1>2. run' \in Vibe!Runs /\ run'.ok /\ run'.whole /\ run'.step = 1 /\ run'.stamp = saved
  <2>1. run' = [task |-> Head(queue), stamp |-> saved, step |-> 1, ok |-> TRUE, whole |-> TRUE]
    BY DEF Vibe!StartRun
  <2>2. 1 \in 1..ProbesPerRun + 1
    BY VibeFacts
  <2> QED BY <1>0, <1>1, <2>1, <2>2 DEF Vibe!Runs
<1>3. Vibe!TypeOK'
  BY <1>0, <1>1, <1>2 DEF VibeInv, Vibe!TypeOK, Vibe!Runs, Vibe!Stamps
<1>4. Vibe!CallsServed'
  <2>1. Vibe!Queued' <= MostQueued
    BY <1>0, <1>1, <1>2, TaskType, VibeFacts DEF VibeInv, Vibe!CallsServed, Vibe!Queued
  <2> QED BY <1>0, <2>1 DEF VibeInv, Vibe!CallsServed
<1>5. ProbeAsked' /\ RunJudged' /\ Vibe!SavedGateTrue'
  BY <1>0, <1>2 DEF VibeInv, ProbeAsked, RunJudged, Steady, Vibe!Does, Vibe!SavedGateTrue, Vibe!Green
<1> QED BY <1>0, <1>3, <1>4, <1>5 DEF VibeInv

\* The result of a run that went well is the source's own, if its stamp is the one in force.
LEMMA EndVibe == ASSUME VibeInv, Vibe!EndRun PROVE VibeInv'
<1>0. /\ run \in Vibe!Runs /\ "probe" \notin pending /\ code' = code /\ saved' = saved
      /\ child' = child /\ pending' = pending /\ mute' = mute /\ doomed' = doomed
      /\ spoiled' = spoiled /\ receipt' = receipt /\ queue' = queue /\ run' = Vibe!NoRun
      /\ measured' = [stamp |-> run.stamp, ok |-> run.ok]
      /\ ~run.ok \/ run.step > ProbesPerRun
  BY DEF VibeInv, Vibe!TypeOK, Vibe!EndRun, Vibe!RecordedStamp
<1>1. run # Vibe!NoRun /\ run.stamp \in Vibe!Stamps /\ run.ok \in BOOLEAN /\ run.step \in Nat
  BY <1>0, RunFields, VibeFacts DEF Vibe!Stamps
<1>2. Vibe!TypeOK'
  <2>1. scorer' \in {"idle", "waiting", "queued", "correct", "incorrect"}
    BY DEF VibeInv, Vibe!TypeOK, Vibe!EndRun
  <2>2. measured' \in [stamp : Vibe!Stamps, ok : BOOLEAN]
    BY <1>0, <1>1
  <2>3. Vibe!Stamps' = Vibe!Stamps
    BY <1>0 DEF Vibe!Stamps
  <2> QED BY <1>0, <2>1, <2>2, <2>3 DEF VibeInv, Vibe!TypeOK
<1>3. Vibe!CallsServed'
  <2>1. Len(queue) \in Nat
    BY DEF VibeInv, Vibe!TypeOK
  <2>2. Vibe!Queued' <= MostQueued
    BY <1>0, <1>1, <2>1, VibeFacts DEF VibeInv, Vibe!CallsServed, Vibe!Queued
  <2> QED BY <1>0, <2>2 DEF VibeInv, Vibe!CallsServed
<1>4. Vibe!SavedGateTrue'
  <2> SUFFICES ASSUME Vibe!Green', saved' # 0 PROVE Vibe!Does(saved)' = "right"
    BY DEF Vibe!SavedGateTrue
  <2>1. run.ok /\ run.stamp = saved /\ saved # 0
    BY <1>0 DEF Vibe!Green
  <2>2. run.step > 1
    BY <1>0, <1>1, <2>1, VibeFacts
  <2>3. Vibe!Does(saved) = "right"
    BY <1>1, <2>1, <2>2 DEF VibeInv, RunJudged, Steady
  <2> QED BY <1>0, <2>3 DEF Vibe!Does
<1>5. ProbeAsked' /\ RunJudged'
  BY <1>0 DEF ProbeAsked, RunJudged, Steady
<1> QED BY <1>0, <1>2, <1>3, <1>4, <1>5 DEF VibeInv

\* A new source has a stamp nothing has been measured under, and the starter's return is
\* a disturbance of the run.
LEMMA SourceVibe ==
    ASSUME VibeInv, Vibe!Discard \/ \E source \in Vibe!Sources : Vibe!Save(source)
    PROVE  VibeInv'
<1>0. /\ run \in AnyRun /\ run' = Vibe!Disturbed(run) /\ child' = child /\ pending' = pending
      /\ mute' = mute /\ doomed' = doomed /\ spoiled' = spoiled /\ receipt' = receipt
      /\ queue' = queue /\ measured' = measured /\ scorer' = scorer
  BY DEF VibeInv, Vibe!TypeOK, AnyRun, Vibe!Discard, Vibe!Save
<1>1. /\ run' \in AnyRun /\ (run' = Vibe!NoRun <=> run = Vibe!NoRun)
      /\ run # Vibe!NoRun =>
            run'.stamp = run.stamp /\ run'.step = run.step /\ ~run'.whole /\ run'.ok = run.ok
  BY <1>0, DisturbedRun
<1>2. code \in Seq(Vibe!Sources) /\ Len(code) \in Nat /\ saved \in 0..Len(code)
  BY DEF VibeInv, Vibe!TypeOK, Vibe!Stamps
<1>3. /\ code' \in Seq(Vibe!Sources) /\ Len(code') <= Savings /\ Len(code') \in Nat
      /\ Len(code) <= Len(code') /\ saved' \in 0..Len(code')
      /\ saved' # 0 => saved' > Len(code)
  <2>1. CASE Vibe!Discard
    BY <1>2, <2>1 DEF VibeInv, Vibe!TypeOK, Vibe!Discard
  <2>2. ASSUME NEW source \in Vibe!Sources, Vibe!Save(source)
        PROVE  /\ code' \in Seq(Vibe!Sources) /\ Len(code') <= Savings /\ Len(code') \in Nat
               /\ Len(code) <= Len(code') /\ saved' \in 0..Len(code')
               /\ saved' # 0 => saved' > Len(code)
    <3>1. code' = Append(code, source) /\ saved' = Len(code) + 1 /\ Len(code) < Savings
      BY <2>2 DEF Vibe!Save
    <3>2. code' \in Seq(Vibe!Sources) /\ Len(code') = Len(code) + 1
      BY <1>2, <3>1
    <3> QED BY <1>2, <3>1, <3>2, VibeFacts
  <2> QED BY <2>1, <2>2
<1>4. Vibe!Stamps \subseteq Vibe!Stamps'
  BY <1>2, <1>3 DEF Vibe!Stamps
<1>5. Vibe!TypeOK'
  <2>1. child' \in {Vibe!NoChild} \cup [stamp : Vibe!Stamps']
        /\ measured' \in {Vibe!Nothing} \cup [stamp : Vibe!Stamps', ok : BOOLEAN]
    BY <1>0, <1>4 DEF VibeInv, Vibe!TypeOK
  <2>2. run' \in {Vibe!NoRun} \cup Vibe!Runs'
    BY <1>1, <1>4 DEF AnyRun, Vibe!Runs
  <2> QED BY <1>0, <1>3, <2>1, <2>2 DEF VibeInv, Vibe!TypeOK, Vibe!Stamps
<1>6. ~Steady'
  <2>1. run # Vibe!NoRun => run.stamp \in 0..Len(code)
    BY <1>0, RunFields DEF AnyRun
  <2> QED BY <1>1, <1>2, <1>3, <2>1 DEF Steady
<1>7. ~(Vibe!Green' /\ saved' # 0)
  <2>1. measured.ok => measured.stamp \in 0..Len(code)
    BY DEF VibeInv, Vibe!TypeOK, Vibe!Nothing, Vibe!Stamps
  <2> QED BY <1>0, <1>2, <1>3, <2>1 DEF Vibe!Green
<1>8. Vibe!CallsServed'
  <2>1. Vibe!Queued' = Vibe!Queued
    BY <1>0, <1>1 DEF Vibe!Queued
  <2> QED BY <1>0, <1>1, <2>1 DEF VibeInv, Vibe!CallsServed
<1>9. ProbeAsked'
  BY <1>0, <1>1, <1>6 DEF VibeInv, ProbeAsked, Vibe!CallsServed
<1>10. RunJudged' /\ Vibe!SavedGateTrue'
  BY <1>1, <1>6, <1>7 DEF RunJudged, Vibe!SavedGateTrue
<1> QED BY <1>0, <1>5, <1>8, <1>9, <1>10 DEF VibeInv

LEMMA NextVibe == ASSUME VibeInv, Vibe!Next PROVE VibeInv'
BY AskVibe, ExitVibe, LateVibe, QueueVibe, StartVibe, EndVibe, SourceVibe, ReplyVibe, TimeoutVibe
   DEF Vibe!Next

LEMMA StillVibe == ASSUME VibeInv, UNCHANGED vibeVars PROVE VibeInv'
BY DEF VibeInv, vibeVars, Vibe!TypeOK, Vibe!CallsServed, Vibe!Queued, Vibe!Runs, Vibe!Stamps,
   ProbeAsked, RunJudged, Steady, Vibe!Does, Vibe!SavedGateTrue, Vibe!Green

LEMMA VibeInductive == StackSpec => [](scenario = "vibe-build" => VibeInv)
<1> DEFINE I == scenario = "vibe-build" => VibeInv
<1>1. StackInit => I
  BY InitVibe DEF StackInit
<1>2. I /\ [StackNext]_stackVars => I'
  <2> SUFFICES ASSUME I, [StackNext]_stackVars, scenario' = "vibe-build" PROVE VibeInv'
    OBVIOUS
  <2>1. scenario = "vibe-build" /\ VibeInv
    BY DEF StackNext, stackVars
  <2>2. CASE Vibe!Next
    BY <2>1, <2>2, NextVibe
  <2>3. CASE UNCHANGED vibeVars
    BY <2>1, <2>3, StillVibe
  <2> QED BY <2>1, <2>2, <2>3 DEF StackNext, stackVars
<1> QED BY <1>1, <1>2, PTL DEF StackSpec

\* However many visitors, probes and saves: every call that waits was given to a child that
\* runs, a saved source whose gate is green is right, and a measurement that nothing came
\* between says what its source is (vibe-build.mjs:204-330, 1198-1226).
THEOREM VibeIsSafe == StackSpec => []VibeSafe
<1>1. VibeInv => Vibe!VibeSafe
  <2> SUFFICES ASSUME VibeInv PROVE Vibe!RunTrue
    BY DEF VibeInv, Vibe!VibeSafe
  <2>1. ASSUME run # Vibe!NoRun, run.whole
        PROVE  /\ ~run.ok => Vibe!Does(run.stamp) # "right"
               /\ run.step > 1 => Vibe!Does(run.stamp) = "right"
    BY <2>1 DEF VibeInv, RunJudged, Steady
  <2> QED BY <2>1 DEF Vibe!RunTrue
<1>2. (scenario = "vibe-build" => VibeInv) => VibeSafe
  BY <1>1 DEF VibeInv, VibeSafe
<1> QED BY <1>2, VibeInductive, PTL

-----------------------------------------------------------------------------
(* The board.                                                              *)

LEMMA BoardFacts ==
    /\ BoardPosts \in Nat \ {0, 1} /\ BoardAsking \in Nat
    /\ FaultsKept \in Nat \ {0} /\ BodySize \in Nat
BY StackBounds DEF Board!BoardBounds, Front!FrontBounds

SettingValues == [SettingKeys -> {"missing", "good", "bad"}]

LEMMA NoneLoads == Board!NoSettings \in SettingValues /\ Board!Loads(Board!NoSettings)
BY DEF Board!NoSettings, Board!Loads, SettingValues

\* The parts of the board's state that its handlers change together.
PostsInv ==
    /\ posts \in Seq({"seed", "own"}) /\ posts # <<>> /\ Len(posts) <= BoardPosts
    /\ wrote \in BOOLEAN
    /\ IF wrote THEN posts[Len(posts)] = "own" ELSE \A i \in DOMAIN posts : posts[i] = "seed"

SettingsInv ==
    /\ settings \in SettingValues /\ previous \in SettingValues /\ taken \in SettingValues
    /\ step \in {"rest", "written", "cleared"} /\ broken \in BOOLEAN
    /\ Board!Loads(taken)
    /\ ~broken => taken = IF step = "rest" THEN settings ELSE previous

\* An override that is no boolean never gets there: then the file alone decides.
ConfigInv ==
    /\ file \in Board!Files /\ override \in Board!Values /\ override # "wrong"

\* The board is what its calls left: posts, configuration and settings.
BoardInv ==
    /\ PostsInv /\ SettingsInv /\ ConfigInv
    /\ bodies \in 0..BoardAsking /\ observed \subseteq {"board", "logs"}

LEMMA BoardTypes == BoardInv => Board!TypeOK
<1> SUFFICES ASSUME BoardInv PROVE Board!TypeOK
  OBVIOUS
<1>1. \A i \in DOMAIN posts : posts[i] \in {"seed", "own"}
  BY DEF BoardInv, PostsInv
<1>2. {settings, previous, taken} \subseteq [SettingKeys -> {"missing", "good", "bad"}]
  BY DEF BoardInv, SettingsInv, SettingValues
<1> QED BY <1>1, <1>2 DEF BoardInv, PostsInv, SettingsInv, ConfigInv, Board!TypeOK

LEMMA FileBlamed == BoardInv => Board!FileToBlame
<1> SUFFICES ASSUME BoardInv, ~Board!ConfigOk
             PROVE  \/ file.others \in {"bad", "unread"}
                    \/ override = "missing" /\ file.accepting \notin {"open", "closed"}
  BY DEF Board!FileToBlame
<1>1. file.others \in {"good", "bad", "unread"}
  BY DEF BoardInv, ConfigInv, Board!Files, Board!Unparsed
<1>2. CASE file.others = "good"
  <2>1. Board!Merged \notin {"open", "closed"}
    BY <1>2 DEF Board!ConfigOk
  <2>2. override \in {"missing", "open", "closed"}
    BY DEF BoardInv, ConfigInv, Board!Values
  <2> QED BY <2>1, <2>2 DEF Board!Merged
<1> QED BY <1>1, <1>2

LEMMA WriteKept == BoardInv => Board!WriteRemembered
<1> SUFFICES ASSUME BoardInv PROVE Board!PostCreated <=> wrote
  BY DEF Board!WriteRemembered
<1>1. posts \in Seq({"seed", "own"}) /\ Len(posts) \in Nat \ {0} /\ DOMAIN posts = 1..Len(posts)
  BY EmptySeq, LenProperties DEF BoardInv, PostsInv
<1>2. Board!PostCreated <=> \E i \in 1..Len(posts) : posts[i] = "own"
  BY DEF Board!PostCreated, Board!Contains
<1>3. CASE wrote
  BY <1>1, <1>2, <1>3 DEF BoardInv, PostsInv
<1>4. CASE ~wrote
  BY <1>1, <1>2, <1>4 DEF BoardInv, PostsInv
<1> QED BY <1>3, <1>4

\* What a refused change leaves was taken before it and loads.
LEMMA RefusalKept == BoardInv => Board!RefusalKeeps
BY DEF BoardInv, SettingsInv, Board!RefusalKeeps

LEMMA SeededPosts ==
    ASSUME posts' = Board!Seeded, wrote' = FALSE PROVE PostsInv'
<1>1. Board!Seeded \in Seq({"seed", "own"}) /\ Len(Board!Seeded) = 2 /\ Board!Seeded # <<>>
      /\ \A i \in 1..2 : Board!Seeded[i] = "seed"
  BY DEF Board!Seeded
<1>2. DOMAIN Board!Seeded = 1..2 /\ 2 <= BoardPosts
  BY <1>1, LenProperties, BoardFacts
<1> QED BY <1>1, <1>2 DEF PostsInv

LEMMA InitBoard == Board!Init => BoardInv
<1> SUFFICES ASSUME Board!Init PROVE BoardInv
  OBVIOUS
<1>1. PostsInv
  <2>1. Board!Seeded \in Seq({"seed", "own"}) /\ Len(Board!Seeded) = 2 /\ Board!Seeded # <<>>
        /\ \A i \in 1..2 : Board!Seeded[i] = "seed"
    BY DEF Board!Seeded
  <2>2. DOMAIN Board!Seeded = 1..2 /\ 2 <= BoardPosts
    BY <2>1, LenProperties, BoardFacts
  <2> QED BY <2>1, <2>2 DEF PostsInv, Board!Init
<1>2. SettingsInv
  BY NoneLoads DEF SettingsInv, Board!Init
<1>3. ConfigInv
  BY DEF ConfigInv, Board!Init, Board!GoodFile, Board!Files, Board!Values
<1> QED BY <1>1, <1>2, <1>3, BoardFacts DEF BoardInv, Board!Init

\* The newest post stays, whatever the board drops.
LEMMA BodyBoard == ASSUME BoardInv, NEW valid \in BOOLEAN, Board!Body(valid) PROVE PostsInv'
<1>0. /\ posts \in Seq({"seed", "own"}) /\ Len(posts) \in Nat \ {0} /\ Len(posts) <= BoardPosts
      /\ wrote \in BOOLEAN /\ wrote' = (wrote \/ valid) /\ BoardPosts \in Nat \ {0, 1}
  BY EmptySeq, BoardFacts DEF BoardInv, PostsInv, Board!Body
<1>1. CASE ~valid
  BY <1>0, <1>1 DEF BoardInv, PostsInv, Board!Body
<1>2. CASE valid
  <2> DEFINE all == Append(posts, "own")
  <2>1. /\ all \in Seq({"seed", "own"}) /\ Len(all) = Len(posts) + 1 /\ all # <<>>
        /\ all[Len(all)] = "own"
    BY <1>0
  <2>2. posts' = Board!Kept(all) /\ wrote'
    BY <1>0, <1>2 DEF Board!Body
  <2> HIDE DEF all
  <2>3. CASE Len(all) <= BoardPosts
    <3>1. posts' = all
      BY <1>0, <2>1, <2>2, <2>3 DEF Board!Kept
    <3> QED BY <1>0, <2>1, <2>2, <2>3, <3>1 DEF PostsInv
  <2>4. CASE Len(all) > BoardPosts
    <3>1. posts' = Tail(all)
      BY <2>2, <2>4 DEF Board!Kept
    <3>2. /\ Tail(all) \in Seq({"seed", "own"}) /\ Len(Tail(all)) = Len(all) - 1
          /\ \A i \in 1..Len(Tail(all)) : Tail(all)[i] = all[i + 1]
      BY <2>1, HeadTailProperties
    <3>3. Len(Tail(all)) \in 1..BoardPosts /\ Len(Tail(all)) + 1 = Len(all)
      BY <1>0, <2>1, <3>2
    <3>4. Tail(all)[Len(Tail(all))] = all[Len(Tail(all)) + 1]
      BY <3>2, <3>3, BoardFacts
    <3>5. Tail(all) # <<>>
      <4>1. Len(Tail(all)) # 0
        BY <1>0, <2>1, <3>2
      <4>2. Len(<<>>) = 0
        OBVIOUS
      <4> QED BY <4>1, <4>2
    <3> QED BY <1>0, <2>1, <2>2, <3>1, <3>2, <3>3, <3>4, <3>5 DEF PostsInv
  <2> QED BY <1>0, <2>1, <2>3, <2>4
<1> QED BY <1>1, <1>2

\* The handler of the settings, and a restart inside it.
LEMMA SettingsBoard ==
    ASSUME BoardInv,
           \/ \E patch \in SettingValues : Board!PatchSettings(patch)
           \/ Board!SettingsTaken \/ Board!SettingsCleared \/ Board!SettingsRestored
           \/ Board!DeleteSettings \/ Board!Restart
    PROVE  SettingsInv'
<1>0. /\ settings \in SettingValues /\ previous \in SettingValues /\ taken \in SettingValues
      /\ step \in {"rest", "written", "cleared"} /\ broken \in BOOLEAN
      /\ Board!Loads(taken)
      /\ ~broken => taken = IF step = "rest" THEN settings ELSE previous
  BY DEF BoardInv, SettingsInv
<1>1. ASSUME NEW patch \in SettingValues, Board!PatchSettings(patch) PROVE SettingsInv'
  <2>1. settings' \in SettingValues
    BY <1>0, <1>1 DEF Board!PatchSettings, SettingValues
  <2> QED BY <1>0, <1>1, <2>1 DEF Board!PatchSettings, SettingsInv
<1>2. CASE Board!SettingsTaken
  BY <1>0, <1>2, NoneLoads DEF Board!SettingsTaken, SettingsInv
<1>3. CASE Board!SettingsCleared
  BY <1>0, <1>3, NoneLoads DEF Board!SettingsCleared, SettingsInv
<1>4. CASE Board!SettingsRestored
  BY <1>0, <1>4, NoneLoads DEF Board!SettingsRestored, Board!Restored, SettingsInv
<1>5. CASE Board!DeleteSettings
  BY <1>0, <1>5, NoneLoads DEF Board!DeleteSettings, SettingsInv
<1>6. CASE Board!Restart
  BY <1>0, <1>6, NoneLoads DEF Board!Restart, SettingsInv
<1> QED BY <1>1, <1>2, <1>3, <1>4, <1>5, <1>6

LEMMA ConfigBoard ==
    ASSUME BoardInv, ConfigInv', posts' = posts, wrote' = wrote, settings' = settings,
           previous' = previous, taken' = taken, step' = step, broken' = broken, bodies' = bodies,
           observed' = observed
    PROVE  BoardInv'
BY DEF BoardInv, SettingsInv, PostsInv

LEMMA NextBoard == ASSUME BoardInv, Board!Next PROVE BoardInv'
<1>1. CASE \/ \E patch \in SettingValues : Board!PatchSettings(patch)
           \/ Board!SettingsTaken \/ Board!SettingsCleared \/ Board!SettingsRestored
           \/ Board!DeleteSettings
  <2>1. SettingsInv'
    BY <1>1, SettingsBoard
  <2> QED BY <1>1, <2>1 DEF BoardInv, PostsInv, ConfigInv, Board!PatchSettings, Board!SettingsTaken,
             Board!SettingsCleared, Board!SettingsRestored, Board!DeleteSettings
<1>2. CASE Board!Restart
  <2>1. SettingsInv'
    BY <1>2, SettingsBoard
  <2>2. PostsInv'
    BY <1>2, SeededPosts DEF Board!Restart
  <2> QED BY <1>2, <2>1, <2>2, BoardFacts DEF BoardInv, ConfigInv, Board!Restart
<1>3. ASSUME NEW valid \in BOOLEAN, Board!Body(valid) PROVE BoardInv'
  <2>1. PostsInv'
    BY <1>3, BodyBoard
  <2> QED BY <1>3, <2>1, BoardFacts DEF BoardInv, ConfigInv, SettingsInv, Board!Body
<1>4. CASE Board!AskPost
  BY <1>4, BoardFacts DEF BoardInv, ConfigInv, SettingsInv, PostsInv, Board!AskPost
<1>5. ASSUME NEW value \in Board!Values \ {"missing"}, Board!PatchConfig(value) PROVE BoardInv'
  <2>1. override' \in Board!Values /\ override' # "wrong" /\ file' = file
    BY <1>5 DEF BoardInv, ConfigInv, Board!PatchConfig, Board!Accepts
  <2>2. ConfigInv'
    BY <2>1 DEF BoardInv, ConfigInv
  <2> QED BY <1>5, <2>2, ConfigBoard DEF Board!PatchConfig
<1>6. CASE Board!DeleteConfig \/ Board!EditFile
  <2>1. ConfigInv'
    BY <1>6 DEF BoardInv, ConfigInv, Board!DeleteConfig, Board!EditFile, Board!Values
  <2> QED BY <1>6, <2>1, ConfigBoard DEF Board!DeleteConfig, Board!EditFile
<1>7. ASSUME NEW what \in {"board", "logs"}, Board!Look(what) PROVE BoardInv'
  BY <1>7 DEF BoardInv, ConfigInv, SettingsInv, PostsInv, Board!Look
<1> QED BY <1>1, <1>2, <1>3, <1>4, <1>5, <1>6, <1>7 DEF Board!Next, SettingValues

LEMMA StillBoard == ASSUME BoardInv, UNCHANGED boardVars PROVE BoardInv'
BY DEF BoardInv, ConfigInv, SettingsInv, PostsInv, boardVars

-----------------------------------------------------------------------------
(* The first request.                                                      *)

\* Whoever has passed a gate was told its token, in this process or in one before it; the
\* last token is told to those who have passed all three.
ToldInv ==
    /\ asked \subseteq Front!ROUTES /\ entries \in Nat
    /\ told \subseteq {"postcard", "door", "receipt", "ready"}
    /\ proven \subseteq {"postcard", "door", "receipt"} \cap told
    /\ "GET/api/postcard" \in asked => "postcard" \in told
    /\ doorOpened => "door" \in told
    /\ entries > 0 => "receipt" \in told
    /\ "ready" \in told => {"postcard", "door", "receipt"} \subseteq told

FaultsInv == faulted \in Nat /\ faults \in 0..FaultsKept /\ (faulted > 0 => faults > 0)

Requests == [route : {"none", "POST/api/guestbook", "POST/verify"}, pieces : Nat,
             paused : BOOLEAN, settled : BOOLEAN, status : Nat, answers : Nat]

\* A request under way was answered if it is settled, once, with a status of its route.
Proper(r) ==
    /\ r \in Requests /\ r.route # "none"
    /\ r.answers = IF r.settled THEN 1 ELSE 0
    /\ r.settled /\ r.route = "POST/api/guestbook" => r.status \in {201, 400, 413}

InboxInv ==
    /\ inbox \in [FrontSlots -> Requests]
    /\ \A s \in FrontSlots : inbox[s] = Front!Free \/ Proper(inbox[s])

FrontInv == ToldInv /\ FaultsInv /\ InboxInv

LEMMA FreeIs == Front!Free \in Requests /\ Front!Free.route = "none" /\ ~Front!Free.settled
BY DEF Front!Free, Requests

LEMMA Surface == Front!SurfaceWhole
<1>1. DOMAIN Front!Announced = Front!SCENARIO_ROUTES
  BY DEF Front!Announced
<1>2. Front!Documented = Front!ROUTES \ Front!PAGES
  BY <1>1 DEF Front!Documented, Front!ROUTES, Front!PAGES, Front!BASE_ROUTES,
     Front!SCENARIO_ROUTES
<1>3. Front!BASE_ROUTES \cap Front!SCENARIO_ROUTES = {}
  BY DEF Front!PAGES, Front!BASE_ROUTES, Front!SCENARIO_ROUTES
<1> QED BY <1>2, <1>3 DEF Front!SurfaceWhole

LEMMA AnnouncedStatuses ==
    /\ Front!Announced["GET/api/door"] = {200, 400}
    /\ Front!Announced["POST/api/guestbook"] = {201, 400, 413}
BY DEF Front!Announced, Front!SCENARIO_ROUTES

LEMMA ChecksAre ==
    /\ DOMAIN Front!Checks = {"postcard", "lockedDoor", "guestbook", "roundTrip"}
    /\ \A id \in DOMAIN Front!Checks :
          Front!Checks[id] \in {"postcard", "door", "receipt", "ready"}
BY DEF Front!Checks

LEMMA ReadyTold == ToldInv /\ Front!Ready => {"postcard", "door", "receipt"} \subseteq told
<1> SUFFICES ASSUME ToldInv, Front!Ready PROVE {"postcard", "door", "receipt"} \subseteq told
  OBVIOUS
<1>1. /\ "GET/api/postcard" \in asked \/ "postcard" \in proven
      /\ doorOpened \/ "door" \in proven
      /\ entries > 0 \/ "receipt" \in proven
  BY DEF Front!Ready, Front!Gates
<1> QED BY <1>1 DEF ToldInv

LEMMA FrontHolds == FrontInv => Front!TypeOK /\ Front!FrontSafe
<1> SUFFICES ASSUME FrontInv PROVE Front!TypeOK /\ Front!FrontSafe
  OBVIOUS
<1>1. Front!TypeOK
  BY DEF FrontInv, ToldInv, FaultsInv, Front!TypeOK
<1>2. Front!AnsweredOnce
  BY DEF FrontInv, InboxInv, Proper, Front!AnsweredOnce, Front!Busy
<1>3. Front!FaultsShow
  BY DEF FrontInv, FaultsInv, Front!FaultsShow, Front!Healthz, Front!Well
<1>4. Front!LapEarned
  BY DEF FrontInv, ToldInv, Front!LapEarned
<1>5. Front!ContractKept
  <2>1. \A key : Front!DoorStatus(key) \in Front!Announced["GET/api/door"]
    BY AnnouncedStatuses DEF Front!DoorStatus
  <2>2. ASSUME NEW s \in FrontSlots, inbox[s].route \in Front!SCENARIO_ROUTES, inbox[s].settled
        PROVE  inbox[s].status \in Front!Announced[inbox[s].route]
    <3>1. Proper(inbox[s])
      BY <2>2, FreeIs DEF FrontInv, InboxInv
    <3>2. inbox[s].route = "POST/api/guestbook"
      BY <2>2, <3>1 DEF Proper, Requests, Front!SCENARIO_ROUTES
    <3> QED BY <2>2, <3>1, <3>2, AnnouncedStatuses DEF Proper
  <2> QED BY <2>1, <2>2 DEF Front!ContractKept
<1> QED BY <1>1, <1>2, <1>3, <1>4, <1>5, Surface DEF Front!FrontSafe

LEMMA InitFront == Front!Init => FrontInv
<1> SUFFICES ASSUME Front!Init PROVE FrontInv
  OBVIOUS
<1>1. ToldInv
  BY DEF Front!Init, ToldInv
<1>2. FaultsInv
  BY BoardFacts DEF Front!Init, FaultsInv
<1>3. InboxInv
  BY FreeIs DEF Front!Init, InboxInv
<1> QED BY <1>1, <1>2, <1>3 DEF FrontInv

\* A slot that is given a request as it should be, or is freed.
LEMMA SlotFilled ==
    ASSUME InboxInv, NEW s \in FrontSlots, NEW r \in Requests, r = Front!Free \/ Proper(r),
           inbox' = [inbox EXCEPT ![s] = r]
    PROVE  InboxInv'
BY DEF InboxInv

LEMMA SettledFront ==
    ASSUME InboxInv, NEW s \in FrontSlots, NEW call, Proper(call), NEW status \in Nat,
           call.route = "POST/api/guestbook" => status \in {201, 400, 413},
           Front!Settled(s, call, status)
    PROVE  InboxInv'
<1>1. CASE call.settled
  BY <1>1, SlotFilled DEF Front!Settled, Proper
<1>2. CASE ~call.settled
  <2> DEFINE r == [call EXCEPT !.settled = TRUE, !.status = status, !.answers = @ + 1]
  <2>1. call \in Requests /\ call.answers = 0 /\ call.route # "none"
    BY <1>2 DEF Proper
  <2>2. /\ r \in Requests /\ r.route = call.route /\ r.settled /\ r.status = status
        /\ r.answers = 1
    <3>1. r = [call EXCEPT !.settled = TRUE, !.status = status, !.answers = 1]
      BY <2>1
    <3> HIDE DEF r
    <3>2. r \in Requests
      BY <2>1, <3>1 DEF Requests
    <3>3. r.route = call.route /\ r.settled = TRUE /\ r.status = status /\ r.answers = 1
      BY <2>1, <3>1 DEF Requests
    <3> QED BY <3>2, <3>3
  <2>3. Proper(r)
    BY <2>1, <2>2 DEF Proper
  <2>4. inbox' = [inbox EXCEPT ![s] = r]
    BY <1>2 DEF Front!Settled
  <2> HIDE DEF r
  <2> QED BY <2>2, <2>3, <2>4, SlotFilled
<1> QED BY <1>1, <1>2

LEMMA HandleFront ==
    ASSUME FrontInv, NEW s \in FrontSlots, NEW call, Proper(call), NEW body,
           Front!Handle(s, call, body),
           asked' = asked, doorOpened' = doorOpened, faults' = faults, faulted' = faulted
    PROVE  FrontInv'
<1>1. FaultsInv'
  BY DEF FrontInv, FaultsInv
<1>2. CASE Front!Sign(s, call, body)
  <2>1. InboxInv'
    BY <1>2, SettledFront DEF FrontInv, Front!Sign
  <2>2. ToldInv'
    <3>1. CASE body = "signed"
      BY <1>2, <3>1 DEF FrontInv, ToldInv, Front!Sign, Front!Tell
    <3>2. CASE body # "signed"
      BY <1>2, <3>2 DEF FrontInv, ToldInv, Front!Sign, Front!Tell
    <3> QED BY <3>1, <3>2
  <2> QED BY <1>1, <2>1, <2>2 DEF FrontInv
<1>3. ASSUME NEW id \in DOMAIN Front!Checks \cup {"constructor"}, NEW submission \in told \cup {"guess"},
             Front!Verify(s, call, body, id, submission)
      PROVE  FrontInv'
  <2>1. InboxInv'
    <3>1. call.route # "POST/api/guestbook"
      BY <1>3 DEF Front!Verify
    <3> DEFINE id0 == IF body = "signed" THEN id ELSE ""
               status == IF id0 \in DOMAIN Front!Checks THEN 200 ELSE 400
    <3>2. Front!Settled(s, call, status)
      BY <1>3 DEF Front!Verify
    <3>3. status \in Nat
      OBVIOUS
    <3> HIDE DEF status
    <3> QED BY <3>1, <3>2, <3>3, SettledFront DEF FrontInv
  <2>2. proven' \subseteq {"postcard", "door", "receipt"} \cap told
    <3> DEFINE asked0 == IF body = "signed" THEN id ELSE ""
    <3>1. Front!Correct(asked0, submission)
            => submission \in {"postcard", "door", "receipt", "ready"} /\ submission \in told
      BY ChecksAre DEF Front!Correct
    <3>2. proven' = proven \cup (IF Front!Correct(asked0, submission) THEN {submission} \ {"ready"}
                                 ELSE {})
      BY <1>3 DEF Front!Verify
    <3> QED BY <3>1, <3>2 DEF FrontInv, ToldInv
  <2>3. told' = told /\ entries' = entries
    BY <1>3 DEF Front!Verify
  <2>4. ToldInv'
    BY <2>2, <2>3 DEF FrontInv, ToldInv
  <2> QED BY <1>1, <2>1, <2>4 DEF FrontInv
<1> QED BY <1>2, <1>3 DEF Front!Handle

LEMMA GetFront ==
    ASSUME FrontInv,
           \/ \E route \in {"GET/api/postcard", "GET/posture"} : Front!Look(route)
           \/ \E key : Front!Door(key)
    PROVE  FrontInv'
<1>1. inbox' = inbox /\ entries' = entries /\ proven' = proven /\ faults' = faults
      /\ faulted' = faulted
  BY DEF Front!Look, Front!Door, Front!Get
<1>2. FaultsInv' /\ InboxInv'
  BY <1>1 DEF FrontInv, FaultsInv, InboxInv
<1>3. CASE Front!Look("GET/api/postcard")
  BY <1>1, <1>2, <1>3
     DEF FrontInv, ToldInv, Front!Look, Front!Get, Front!Observe, Front!Tell
<1>4. CASE Front!Look("GET/posture")
  <2>1. CASE Front!Ready
    BY <1>1, <1>2, <1>4, <2>1, ReadyTold
       DEF FrontInv, ToldInv, Front!Look, Front!Get, Front!Observe, Front!Tell
  <2>2. CASE ~Front!Ready
    BY <1>1, <1>2, <1>4, <2>2
       DEF FrontInv, ToldInv, Front!Look, Front!Get, Front!Observe, Front!Tell
  <2> QED BY <2>1, <2>2
<1>5. ASSUME NEW key, Front!Door(key) PROVE FrontInv'
  <2>1. CASE Front!DoorStatus(key) = 200
    BY <1>1, <1>2, <1>5, <2>1
       DEF FrontInv, ToldInv, Front!Door, Front!Get, Front!Observe, Front!Tell
  <2>2. CASE Front!DoorStatus(key) # 200
    BY <1>1, <1>2, <1>5, <2>2
       DEF FrontInv, ToldInv, Front!Door, Front!Get, Front!Observe, Front!Tell
  <2> QED BY <2>1, <2>2
<1> QED BY <1>3, <1>4, <1>5

LEMMA AskFront ==
    ASSUME FrontInv, NEW s \in FrontSlots, NEW route \in {"POST/api/guestbook", "POST/verify"},
           Front!Ask(s, route)
    PROVE  FrontInv'
<1> DEFINE r == [Front!Free EXCEPT !.route = route]
<1>1. inbox[s] = Front!Free /\ inbox' = [inbox EXCEPT ![s].route = route]
  BY DEF Front!Ask, Front!Busy
<1>2. r \in Requests /\ r.route = route /\ ~r.settled /\ r.answers = 0
  BY DEF Front!Free, Requests
<1>3. inbox' = [inbox EXCEPT ![s] = r]
  BY <1>1
<1> HIDE DEF r
<1>4. InboxInv'
  BY <1>2, <1>3, SlotFilled DEF FrontInv, Proper
<1>5. ToldInv' /\ FaultsInv'
  BY DEF FrontInv, ToldInv, FaultsInv, Front!Ask, Front!Observe
<1> QED BY <1>4, <1>5 DEF FrontInv

LEMMA BodyFront ==
    ASSUME FrontInv, NEW s \in FrontSlots,
           Front!Piece(s) \/ Front!Failed(s) \/ \E body : Front!EndOfBody(s, body)
    PROVE  FrontInv'
<1>1. Proper(inbox[s])
  BY DEF FrontInv, InboxInv, Front!Piece, Front!Failed, Front!EndOfBody, Front!Waiting, Front!Busy
<1>2. asked' = asked /\ doorOpened' = doorOpened /\ faults' = faults /\ faulted' = faulted
  BY DEF Front!Piece, Front!Failed, Front!EndOfBody
<1>3. ASSUME NEW body, Front!EndOfBody(s, body) PROVE FrontInv'
  BY <1>1, <1>2, <1>3, HandleFront DEF Front!EndOfBody
<1>4. CASE Front!Failed(s)
  <2>1. CASE Front!Waiting(s)
    BY <1>1, <1>2, <1>4, <2>1, HandleFront DEF Front!Failed
  <2>2. CASE ~Front!Waiting(s)
    <3>1. Front!Settled(s, inbox[s], 400) /\ UNCHANGED <<entries, proven, told>>
      BY <1>4, <2>2 DEF Front!Failed
    <3>2. InboxInv'
      BY <1>1, <3>1, SettledFront DEF FrontInv
    <3> QED BY <1>2, <3>1, <3>2 DEF FrontInv, ToldInv, FaultsInv
  <2> QED BY <2>1, <2>2
<1>5. CASE Front!Piece(s)
  <2> DEFINE more == [inbox[s] EXCEPT !.pieces = @ + 1]
             last == [more EXCEPT !.paused = TRUE]
  <2>1. inbox[s] \in Requests /\ inbox[s].pieces \in Nat
    BY <1>1 DEF Proper, Requests
  <2>2. more \in Requests /\ last \in Requests
    <3>1. inbox[s].pieces + 1 \in Nat
      BY <2>1
    <3>2. more \in Requests
      BY <2>1, <3>1 DEF Requests
    <3> QED BY <3>2 DEF Requests
  <2>3. Proper(more) /\ Proper(last)
    <3>1. /\ more.route = inbox[s].route /\ more.answers = inbox[s].answers
          /\ more.settled = inbox[s].settled /\ more.status = inbox[s].status
          /\ last.route = inbox[s].route /\ last.answers = inbox[s].answers
          /\ last.settled = inbox[s].settled /\ last.status = inbox[s].status
      BY <2>1 DEF Requests
    <3> HIDE DEF more, last
    <3> QED BY <1>1, <2>2, <3>1 DEF Proper
  <2>4. CASE more.pieces > BodySize
    <3>1. Front!Handle(s, last, "oversized")
      BY <1>5, <2>4 DEF Front!Piece
    <3> HIDE DEF last, more
    <3> QED BY <1>2, <2>3, <3>1, HandleFront
  <2>5. CASE ~(more.pieces > BodySize)
    <3>1. inbox' = [inbox EXCEPT ![s] = more] /\ UNCHANGED <<entries, proven, told>>
      BY <1>5, <2>5 DEF Front!Piece
    <3> HIDE DEF last, more
    <3>2. InboxInv'
      BY <2>2, <2>3, <3>1, SlotFilled DEF FrontInv
    <3> QED BY <1>2, <3>1, <3>2 DEF FrontInv, ToldInv, FaultsInv
  <2> QED BY <2>4, <2>5
<1> QED BY <1>3, <1>4, <1>5

LEMMA OwnFront ==
    ASSUME FrontInv, Front!Fault \/ Front!Restart \/ \E s \in FrontSlots : Front!Done(s)
    PROVE  FrontInv'
<1>1. CASE Front!Fault
  <2>1. FaultsInv'
    BY <1>1, BoardFacts DEF FrontInv, FaultsInv, Front!Fault
  <2> QED BY <1>1, <2>1 DEF FrontInv, ToldInv, InboxInv, Front!Fault
<1>2. CASE Front!Restart
  <2>1. FaultsInv'
    BY <1>2, BoardFacts DEF FaultsInv, Front!Restart
  <2>2. InboxInv'
    BY <1>2, FreeIs DEF InboxInv, Front!Restart
  <2> QED BY <1>2, <2>1, <2>2 DEF FrontInv, ToldInv, Front!Restart
<1>3. ASSUME NEW s \in FrontSlots, Front!Done(s) PROVE FrontInv'
  <2>1. InboxInv'
    BY <1>3, FreeIs, SlotFilled DEF FrontInv, Front!Done
  <2> QED BY <1>3, <2>1 DEF FrontInv, ToldInv, FaultsInv, Front!Done
<1> QED BY <1>1, <1>2, <1>3

LEMMA NextFront == ASSUME FrontInv, Front!Next PROVE FrontInv'
BY GetFront, AskFront, BodyFront, OwnFront DEF Front!Next

LEMMA StillFront == ASSUME FrontInv, UNCHANGED frontVars PROVE FrontInv'
BY DEF FrontInv, ToldInv, FaultsInv, InboxInv, frontVars

LEMMA BoardInductive ==
    StackSpec => []((scenario = "onboarding" => BoardInv)
                    /\ (scenario = "first-request" => FrontInv))
<1> DEFINE I == scenario = "onboarding" => BoardInv
           J == scenario = "first-request" => FrontInv
<1>1. StackInit => I /\ J
  BY InitBoard, InitFront DEF StackInit
<1>2. I /\ [StackNext]_stackVars => I'
  <2> SUFFICES ASSUME I, [StackNext]_stackVars, scenario' = "onboarding" PROVE BoardInv'
    OBVIOUS
  <2>1. scenario = "onboarding" /\ BoardInv
    BY DEF StackNext, stackVars
  <2>2. CASE Board!Next
    BY <2>1, <2>2, NextBoard
  <2>3. CASE UNCHANGED boardVars
    BY <2>1, <2>3, StillBoard
  <2> QED BY <2>1, <2>2, <2>3 DEF StackNext, stackVars
<1>3. J /\ [StackNext]_stackVars => J'
  <2> SUFFICES ASSUME J, [StackNext]_stackVars, scenario' = "first-request" PROVE FrontInv'
    OBVIOUS
  <2>1. scenario = "first-request" /\ FrontInv
    BY DEF StackNext, stackVars
  <2>2. CASE Front!Next
    BY <2>1, <2>2, NextFront
  <2>3. CASE UNCHANGED frontVars
    BY <2>1, <2>3, StillFront
  <2> QED BY <2>1, <2>2, <2>3 DEF StackNext, stackVars
<1> QED BY <1>1, <1>2, <1>3, PTL DEF StackSpec

\* For every set of settings, every board size and any number of requests under way: a
\* closed board has its file to blame, a write counts though the board drops its oldest
\* posts, a refused change keeps what was taken; a request is answered once, a fault shows,
\* and the round trip's token is told to those who made it (server.mjs:75-98, 217-228,
\* overrides.mjs:67-76, first-request.mjs:103-104).
THEOREM BoardIsSafe == StackSpec => []BoardSafe
<1>1. BoardInv => Board!TypeOK /\ Board!BoardSafe
  BY BoardTypes, FileBlamed, WriteKept, RefusalKept DEF Board!BoardSafe
<1>2. ((scenario = "onboarding" => BoardInv) /\ (scenario = "first-request" => FrontInv))
        => BoardSafe
  BY <1>1, FrontHolds DEF BoardSafe
<1> QED BY <1>2, BoardInductive, PTL
=============================================================================
