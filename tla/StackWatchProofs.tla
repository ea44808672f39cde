--------------------------- MODULE StackWatchProofs ---------------------------
(***************************************************************************)
(* For any facts, needs, plan, probes and bounds: the types of the game-day  *)
(* scorer, that it rotates the key once at most, and that a team owes nothing *)
(* for the time before a service was up.  For any window, policies, ledger,  *)
(* documents and edits: the gates of the drill, of the outage and of the     *)
(* portal, each from what a round, a probe or a sign-off under way has seen.  *)
(***************************************************************************)
EXTENDS MCStackWatch, FiniteSetTheorems, SequenceTheorems, TLAPS

\* A tick that has not charged yet has one left of its bound.
Unscored ==
    /\ stage \in {"board", "measure", "charge"} \cup ToSet(Requested) => scored < MaxTicks
    /\ \A p \in Probes : /\ probe[p].armedTicks <= scored
                         /\ probe[p].degradedTicks <= scored

\* The version read when the last phase opened is older than any the scorer asked for,
\* so a tick that still reads it has not rotated.
Versions ==
    /\ stage = "open" => atOpen = None
    /\ stage \in {"read", "rotate"} => atOpen # None
    /\ stage = "rotate" => rotations = 0
    /\ rotations > 0 => atOpen # None /\ key > atOpen

\* The last phase opens on the clock, and a hold is kept by a committed probe.
Late ==
    /\ "stabilize" \in opened => time >= Plan["stabilize"]
    /\ whole # None => Armed # {}

IInv == TypeOK /\ RotatedOnce /\ FirstTickFree /\ Unscored /\ Versions /\ Late

-----------------------------------------------------------------------------
(* Operators.                                                              *)

LEMMA PhasesAre ==
    /\ DOMAIN Phases = 1..7
    /\ PhaseNames = {"join", "build", "ship", "expose", "attack", "incident", "stabilize"}
<1>1. DOMAIN Phases = 1..7
  BY DEF Phases
<1>2. /\ Phases[1] = "join" /\ Phases[2] = "build" /\ Phases[3] = "ship"
      /\ Phases[4] = "expose" /\ Phases[5] = "attack" /\ Phases[6] = "incident"
      /\ Phases[7] = "stabilize"
  BY DEF Phases
<1>3. PhaseNames = {Phases[i] : i \in 1..7}
  BY <1>1 DEF PhaseNames, ToSet
<1>4. \A i \in 1..7 : \/ i = 1 \/ i = 2 \/ i = 3 \/ i = 4 \/ i = 5 \/ i = 6 \/ i = 7
  OBVIOUS
<1> HIDE DEF Phases
<1> QED BY <1>1, <1>2, <1>3, <1>4

LEMMA PhaseIndexType == ASSUME NEW name \in PhaseNames PROVE PhaseIndex(name) \in 1..7
<1>1. \E i \in DOMAIN Phases : Phases[i] = name
  BY DEF PhaseNames, ToSet
<1> HIDE DEF Phases
<1>2. PhaseIndex(name) \in DOMAIN Phases
  BY <1>1 DEF PhaseIndex
<1> QED BY <1>2, PhasesAre

\* The maximum of phases is one of them and bounds them.
LEMMA MaxPhase ==
    ASSUME NEW S, S \subseteq 1..7, S # {}
    PROVE  Max(S) \in S /\ \A i \in S : Max(S) >= i
<1>1. \E i \in S : \A j \in S : i >= j
  <2>1. CASE 7 \in S
    BY <2>1
  <2>2. CASE 7 \notin S /\ 6 \in S
    BY <2>2
  <2>3. CASE 7 \notin S /\ 6 \notin S /\ 5 \in S
    BY <2>3
  <2>4. CASE 7 \notin S /\ 6 \notin S /\ 5 \notin S /\ 4 \in S
    BY <2>4
  <2>5. CASE 7 \notin S /\ 6 \notin S /\ 5 \notin S /\ 4 \notin S /\ 3 \in S
    BY <2>5
  <2>6. CASE S \subseteq {1, 2} /\ 2 \in S
    BY <2>6
  <2>7. CASE S \subseteq {1, 2} /\ 2 \notin S
    <3>1. S = {1}
      BY <2>7
    <3> QED BY <3>1
  <2> QED BY <2>1, <2>2, <2>3, <2>4, <2>5, <2>6, <2>7
<1> QED BY <1>1 DEF Max

\* Opening a phase never takes the event back to an earlier one.
LEMMA CurrentGrows ==
    ASSUME opened \subseteq PhaseNames, opened' \subseteq PhaseNames, opened \subseteq opened'
    PROVE  CurrentPhase \in 1..7 /\ CurrentPhase' \in 1..7 /\ CurrentPhase' >= CurrentPhase
<1> DEFINE S(names) == {1} \cup {PhaseIndex(name) : name \in names}
<1>1. S(opened) \subseteq 1..7 /\ S(opened') \subseteq 1..7
  BY PhaseIndexType
<1>2. S(opened) # {} /\ S(opened') # {} /\ S(opened) \subseteq S(opened')
  OBVIOUS
<1>3. CurrentPhase = Max(S(opened)) /\ CurrentPhase' = Max(S(opened'))
  BY DEF CurrentPhase
<1> HIDE DEF S
<1>4. Max(S(opened)) \in S(opened) /\ Max(S(opened')) \in S(opened')
  BY <1>1, <1>2, MaxPhase
<1>5. Max(S(opened')) >= Max(S(opened))
  BY <1>1, <1>2, <1>4, MaxPhase
<1> QED BY <1>1, <1>3, <1>4, <1>5

LEMMA ProbeConstants ==
    /\ Probes \subseteq Facts
    /\ \A p \in Probes : OpensAt[p] \in PhaseNames
    /\ \A i \in DOMAIN Requested : Requested[i] \in Probes
    /\ ToSet(Requested) \subseteq Probes
    /\ \A i \in DOMAIN Requested : Requested[i] \in ToSet(Requested)
BY DayBounds DEF ToSet

\* A step that keeps the probes and takes back no phase keeps what the probes owe.
LEMMA FreeKept ==
    ASSUME TypeOK, FirstTickFree, probe' = probe, opened' \subseteq PhaseNames,
           opened \subseteq opened'
    PROVE  FirstTickFree'
<1>1. CurrentPhase \in 1..7 /\ CurrentPhase' \in 1..7 /\ CurrentPhase' >= CurrentPhase
  BY CurrentGrows DEF TypeOK
<1>2. \A p \in Probes : PhaseIndex(OpensAt[p]) \in 1..7
  BY ProbeConstants, PhaseIndexType
<1> HIDE DEF Phases
<1>3. ASSUME NEW p \in Probes
      PROVE  /\ probe'[p].armed => probe'[p].degradedTicks < probe'[p].armedTicks
             /\ ~probe'[p].armed => probe'[p].armedTicks = 0 /\ probe'[p].degradedTicks = 0
             /\ probe'[p].armed => CurrentPhase' >= PhaseIndex(OpensAt[p])
  BY <1>1, <1>2 DEF FirstTickFree
<1> QED BY <1>3 DEF FirstTickFree

-----------------------------------------------------------------------------
(* The inductive invariant.                                                *)

LEMMA InitIInv == Init => IInv
<1> SUFFICES ASSUME Init PROVE IInv
  OBVIOUS
<1>1. \A p \in Probes : probe[p] = Untouched
  BY DEF Init
<1>2. TypeOK
  <2>1. Untouched \in [green : BOOLEAN, armed : BOOLEAN, armedTicks : 0..MaxTicks,
                       degradedTicks : 0..MaxTicks]
    BY DayBounds DEF Untouched
  <2>2. probe \in [Probes -> [green : BOOLEAN, armed : BOOLEAN, armedTicks : 0..MaxTicks,
                             degradedTicks : 0..MaxTicks]]
    BY <2>1 DEF Init
  <2>3. time \in 0..MaxTime /\ scored \in 0..MaxTicks /\ stage \in Stages /\ rotations \in 0..key
    BY DayBounds DEF Init, Stages
  <2> QED BY <2>2, <2>3 DEF Init, TypeOK
<1>3. RotatedOnce /\ Versions /\ Late
  BY DEF Init, RotatedOnce, Versions, Late
<1>4. FirstTickFree
  BY <1>1 DEF FirstTickFree, Untouched
<1>5. Unscored
  <2>1. stage \notin ToSet(Requested)
    BY DayNames DEF Init, Stages
  <2> QED BY <1>1, <2>1 DEF Init, Unscored, Untouched
<1> QED BY <1>2, <1>3, <1>4, <1>5 DEF IInv

LEMMA TickIInv == ASSUME IInv, Tick \/ NotListening \/ BoardAnswers PROVE IInv'
<1>1. TypeOK'
  BY DEF IInv, TypeOK, Tick, NotListening, BoardAnswers, tickVars, Stages
<1>2. probe' = probe /\ opened' = opened
  BY DEF Tick, NotListening, BoardAnswers, tickVars
<1>3. FirstTickFree'
  BY <1>2, FreeKept DEF IInv, TypeOK
<1>4. RotatedOnce' /\ Versions' /\ Late'
  BY DEF IInv, RotatedOnce, Versions, Late, Armed, Tick, NotListening, BoardAnswers, tickVars
<1>5. Unscored'
  <2>1. "rest" \notin ToSet(Requested)
    BY DayNames DEF Stages
  <2> QED BY <2>1 DEF IInv, Unscored, Tick, NotListening, BoardAnswers, tickVars
<1> QED BY <1>1, <1>3, <1>4, <1>5 DEF IInv

LEMMA RemeasuredIInv == ASSUME IInv, Remeasured PROVE IInv'
<1>1. opened \subseteq opened' /\ opened' \subseteq PhaseNames
  BY DEF IInv, TypeOK, Remeasured
<1>2. stage' \in {"charge"} \cup ToSet(Requested)
  <2>1. Requested = <<>> \/ Head(Requested) \in ToSet(Requested)
    BY DayBounds DEF ToSet
  <2> QED BY <2>1 DEF Remeasured
<1>3. TypeOK'
  BY <1>1, <1>2 DEF IInv, TypeOK, Remeasured, Stages
<1>4. FirstTickFree'
  BY <1>1, FreeKept DEF IInv, Remeasured
<1>5. RotatedOnce' /\ Versions'
  <2>1. stage' \notin {"open", "read", "rotate"}
    BY <1>2, DayNames DEF Stages
  <2> QED BY <2>1 DEF IInv, RotatedOnce, Versions, Remeasured
<1>6. Unscored'
  BY <1>2 DEF IInv, Unscored, Remeasured
<1>7. Late'
  <2>1. Unlocks("stabilize", context) => time >= Plan["stabilize"]
    BY DEF Unlocks
  <2>2. "stabilize" \in opened' => "stabilize" \in opened \/ Unlocks("stabilize", context)
    BY DEF Remeasured
  <2> QED BY <2>1, <2>2 DEF IInv, Late, Armed, Remeasured
<1> QED BY <1>3, <1>4, <1>5, <1>6, <1>7 DEF IInv

LEMMA ProbedIInv == ASSUME IInv, NEW i, Probed(i) PROVE IInv'
<1>1. i \in DOMAIN Requested /\ stage \in ToSet(Requested)
  BY ProbeConstants DEF Probed
<1>2. stage' \in {"charge"} \cup ToSet(Requested)
  <2>1. i # Len(Requested) => i + 1 \in DOMAIN Requested
    BY <1>1, DayBounds
  <2> QED BY <2>1, ProbeConstants DEF Probed
<1>3. TypeOK'
  BY <1>1, <1>2, ProbeConstants DEF IInv, TypeOK, Probed, Stages
<1>4. FirstTickFree'
  BY FreeKept DEF IInv, TypeOK, Probed
<1>5. RotatedOnce' /\ Versions' /\ Late'
  <2>1. stage' \notin {"open", "read", "rotate"}
    BY <1>2, DayNames DEF Stages
  <2> QED BY <2>1 DEF IInv, RotatedOnce, Versions, Late, Armed, Probed
<1>6. Unscored'
  BY <1>1, <1>2 DEF IInv, Unscored, Probed
<1> QED BY <1>3, <1>4, <1>5, <1>6 DEF IInv

\* What one probe owes after a tick that found it `green`.
LEMMA ChargedOne ==
    ASSUME TypeOK, FirstTickFree, Unscored, scored < MaxTicks, NEW p \in Probes,
           NEW green \in BOOLEAN
    PROVE  /\ Charged(p, green) \in [green : BOOLEAN, armed : BOOLEAN,
                                     armedTicks : 0..MaxTicks, degradedTicks : 0..MaxTicks]
           /\ Charged(p, green).armedTicks <= scored + 1
           /\ Charged(p, green).degradedTicks <= scored + 1
           /\ Charged(p, green).armed =>
                Charged(p, green).degradedTicks < Charged(p, green).armedTicks
           /\ ~Charged(p, green).armed =>
                Charged(p, green).armedTicks = 0 /\ Charged(p, green).degradedTicks = 0
           /\ Charged(p, green).armed => CurrentPhase >= PhaseIndex(OpensAt[p])
           /\ probe[p].armed => Charged(p, green).armed
<1> DEFINE was == probe[p]
           inPhase == CurrentPhase >= PhaseIndex(OpensAt[p])
           counts == inPhase /\ (was.armed \/ green)
           now == Charged(p, green)
<1>1. /\ was \in [green : BOOLEAN, armed : BOOLEAN, armedTicks : 0..MaxTicks,
                  degradedTicks : 0..MaxTicks]
      /\ was.armedTicks <= scored /\ was.degradedTicks <= scored
      /\ was.armed => was.degradedTicks < was.armedTicks
      /\ ~was.armed => was.armedTicks = 0 /\ was.degradedTicks = 0
      /\ was.armed => inPhase
  BY DEF TypeOK, FirstTickFree, Unscored
<1>2. now = [green |-> green, armed |-> was.armed \/ counts,
             armedTicks |-> was.armedTicks + IF counts THEN 1 ELSE 0,
             degradedTicks |-> was.degradedTicks + IF counts /\ ~green THEN 1 ELSE 0]
  BY DEF Charged, Arms
<1>3. scored \in Nat /\ scored + 1 <= MaxTicks /\ MaxTicks \in Nat
  BY DayBounds DEF TypeOK
<1>4. SUFFICES
        /\ now \in [green : BOOLEAN, armed : BOOLEAN, armedTicks : 0..MaxTicks,
                    degradedTicks : 0..MaxTicks]
        /\ now.armedTicks <= scored + 1 /\ now.degradedTicks <= scored + 1
        /\ now.armed => now.degradedTicks < now.armedTicks
        /\ ~now.armed => now.armedTicks = 0 /\ now.degradedTicks = 0
        /\ now.armed => inPhase
        /\ was.armed => now.armed
  OBVIOUS
<1> HIDE DEF was, inPhase, now, Phases
<1>5. CASE counts
  <2>1. /\ now.armed /\ inPhase /\ now.armedTicks = was.armedTicks + 1
        /\ green => now.degradedTicks = was.degradedTicks
        /\ ~green => now.degradedTicks = was.degradedTicks + 1
        /\ ~green => was.armed
    <3>1. inPhase /\ (was.armed \/ green)
      BY <1>5
    <3>2. (IF counts THEN 1 ELSE 0) = 1
      BY <1>5
    <3>3. (IF counts /\ ~green THEN 1 ELSE 0) = IF green THEN 0 ELSE 1
      BY <1>5
    <3>4. /\ now.armedTicks = was.armedTicks + 1
          /\ now.degradedTicks = was.degradedTicks + IF green THEN 0 ELSE 1
      BY <1>2, <3>2, <3>3
    <3>5. (was.armed \/ counts) = TRUE
      BY <1>5
    <3>6. now.armed = TRUE
      BY <1>2, <3>5
    <3>7. was.degradedTicks \in Nat
      BY <1>1
    <3>8. /\ green => now.degradedTicks = was.degradedTicks
          /\ ~green => now.degradedTicks = was.degradedTicks + 1
      BY <3>4, <3>7
    <3>9. ~green => was.armed
      BY <3>1
    <3> QED BY <3>1, <3>4, <3>6, <3>8, <3>9
  <2>2. was.armedTicks \in Nat /\ was.degradedTicks \in Nat
    BY <1>1
  <2>3. now.degradedTicks < now.armedTicks
    <3>1. CASE green
      BY <1>1, <2>1, <2>2, <3>1
    <3>2. CASE ~green
      BY <1>1, <2>1, <2>2, <3>2
    <3> QED BY <3>1, <3>2
  <2>4. now.armedTicks \in 0..MaxTicks /\ now.armedTicks <= scored + 1
    BY <1>1, <1>3, <2>1, <2>2
  <2>5. now.degradedTicks \in 0..MaxTicks /\ now.degradedTicks <= scored + 1
    <3>1. now.degradedTicks \in Nat
      BY <2>1, <2>2
    <3> QED BY <1>3, <2>3, <2>4, <3>1
  <2>6. now \in [green : BOOLEAN, armed : BOOLEAN, armedTicks : 0..MaxTicks,
                degradedTicks : 0..MaxTicks]
    BY <1>1, <1>2, <2>4, <2>5
  <2> QED BY <2>1, <2>3, <2>4, <2>5, <2>6
<1>6. CASE ~counts
  <2>1. /\ now.armed = was.armed /\ now.armedTicks = was.armedTicks
        /\ now.degradedTicks = was.degradedTicks
    BY <1>1, <1>2, <1>6
  <2>2. was.armedTicks \in 0..MaxTicks /\ was.degradedTicks \in 0..MaxTicks
    BY <1>1
  <2>3. now \in [green : BOOLEAN, armed : BOOLEAN, armedTicks : 0..MaxTicks,
                degradedTicks : 0..MaxTicks]
    BY <1>1, <1>2, <2>1, <2>2
  <2>4. now.armedTicks <= scored + 1 /\ now.degradedTicks <= scored + 1
    BY <1>1, <1>3, <2>1, <2>2
  <2> QED BY <1>1, <2>1, <2>3, <2>4
<1> QED BY <1>5, <1>6

LEMMA ChargeIInv == ASSUME IInv, Charge PROVE IInv'
<1> DEFINE green == found \cup ((Probes \ ToSet(Requested)) \cap context)
<1>1. /\ probe' = [p \in Probes |-> Charged(p, p \in green)]
      /\ scored < MaxTicks /\ scored \in Nat /\ scored' = scored + 1
      /\ UNCHANGED <<opened, whole, key, atOpen, rotations, time>>
  BY DEF IInv, TypeOK, Unscored, Charge
<1> HIDE DEF green, Phases
<1>2. ASSUME NEW p \in Probes
      PROVE  /\ probe'[p] \in [green : BOOLEAN, armed : BOOLEAN, armedTicks : 0..MaxTicks,
                               degradedTicks : 0..MaxTicks]
             /\ probe'[p].armedTicks <= scored + 1
             /\ probe'[p].degradedTicks <= scored + 1
             /\ probe'[p].armed => probe'[p].degradedTicks < probe'[p].armedTicks
             /\ ~probe'[p].armed => probe'[p].armedTicks = 0 /\ probe'[p].degradedTicks = 0
             /\ probe'[p].armed => CurrentPhase >= PhaseIndex(OpensAt[p])
             /\ probe[p].armed => probe'[p].armed
  <2>1. probe'[p] = Charged(p, p \in green)
    BY <1>1
  <2>2. (p \in green) \in BOOLEAN
    OBVIOUS
  <2> DEFINE ok == p \in green
  <2>3. ok \in BOOLEAN /\ probe'[p] = Charged(p, ok)
    BY <2>1, <2>2
  <2> HIDE DEF ok
  <2> QED BY <1>1, <2>3, ChargedOne DEF IInv
<1>3. CurrentPhase' = CurrentPhase
  BY <1>1 DEF CurrentPhase
<1>4. TypeOK'
  <2>1. probe' \in [Probes -> [green : BOOLEAN, armed : BOOLEAN, armedTicks : 0..MaxTicks,
                              degradedTicks : 0..MaxTicks]]
    BY <1>1, <1>2
  <2>2. scored' \in 0..MaxTicks
    BY <1>1, DayBounds
  <2>3. stage' \in Stages
    BY DEF Charge, Stages
  <2> QED BY <2>1, <2>2, <2>3 DEF IInv, TypeOK, Charge
<1>5. FirstTickFree'
  BY <1>2, <1>3 DEF FirstTickFree
<1>6. Unscored'
  <2>1. stage' \notin {"board", "measure", "charge"} \cup ToSet(Requested)
    BY DayNames DEF Charge, Stages
  <2> QED BY <1>1, <1>2, <2>1 DEF Unscored
<1>7. RotatedOnce' /\ Versions'
  BY DEF IInv, RotatedOnce, Versions, Charge
<1>8. Late'
  <2>1. Armed \subseteq Armed'
    BY <1>2 DEF Armed
  <2> QED BY <1>1, <2>1 DEF IInv, Late
<1> QED BY <1>4, <1>5, <1>6, <1>7, <1>8 DEF IInv

\* A step between the charge and the next tick leaves what is charged alone.
LEMMA UnscoredKept ==
    ASSUME Unscored, stage' \in {"rest", "settle", "open", "read", "rotate"},
           UNCHANGED <<probe, scored>>
    PROVE  Unscored'
<1>1. stage' \notin {"board", "measure", "charge"} \cup ToSet(Requested)
  BY DayNames DEF Stages
<1> QED BY <1>1 DEF Unscored

LEMMA SettleIInv == ASSUME IInv, Settle PROVE IInv'
<1>1. TypeOK'
  BY DEF IInv, TypeOK, Settle, Stages
<1>2. FirstTickFree'
  BY FreeKept DEF IInv, TypeOK, Settle
<1>3. Unscored'
  BY UnscoredKept DEF IInv, Settle
<1>4. RotatedOnce' /\ Versions'
  BY DEF IInv, RotatedOnce, Versions, Settle
<1>5. Late'
  BY DEF IInv, Late, Settle, Available, Armed
<1> QED BY <1>1, <1>2, <1>3, <1>4, <1>5 DEF IInv

LEMMA RotationIInv == ASSUME IInv, ReadOpen \/ Read \/ RotateKey PROVE IInv'
<1>1. UNCHANGED <<facts, time, started, context, found, opened, probe, whole, scored>>
  BY DEF ReadOpen, Read, RotateKey
<1>2. stage' \in {"rest", "settle", "read", "rotate"}
  BY DEF ReadOpen, Read, RotateKey
<1>3. key \in Nat /\ rotations \in Nat /\ (atOpen # None => atOpen \in 0..key)
  BY DEF IInv, TypeOK
<1>4. FirstTickFree'
  BY <1>1, FreeKept DEF IInv, TypeOK
<1>5. Unscored'
  BY <1>1, <1>2, UnscoredKept DEF IInv
<1>6. Late'
  BY <1>1 DEF IInv, Late, Armed
<1>7. RotatedOnce' /\ Versions' /\ key' \in Nat /\ rotations' \in 0..key'
      /\ atOpen' \in 0..key' \cup {None} /\ rotation' \in {"pending", "done"}
  <2>1. CASE ReadOpen
    BY <1>3, <2>1, DayNames DEF IInv, TypeOK, RotatedOnce, Versions, ReadOpen
  <2>2. CASE Read
    BY <1>3, <2>2, DayNames DEF IInv, TypeOK, RotatedOnce, Versions, Read, Due
  <2>3. CASE RotateKey
    BY <1>3, <2>3, DayNames DEF IInv, TypeOK, RotatedOnce, Versions, RotateKey
  <2> QED BY <2>1, <2>2, <2>3
<1>8. TypeOK'
  BY <1>1, <1>2, <1>7 DEF IInv, TypeOK, Stages
<1> QED BY <1>4, <1>5, <1>6, <1>7, <1>8 DEF IInv

LEMMA OutsideIInv ==
    ASSUME IInv, Pass \/ OwnRotation \/ \E fact \in Facts : Work(fact)
    PROVE  IInv'
<1>1. UNCHANGED <<stage, context, found, opened, probe, whole, rotation, atOpen, rotations, scored>>
  BY DEF Pass, OwnRotation, Work, tickVars
<1>2. /\ time' \in 0..MaxTime /\ time' >= time
      /\ key' \in Nat /\ key' >= key /\ facts' \subseteq Facts /\ started' = started
  <2>1. CASE Pass
    BY <2>1, DayBounds DEF IInv, TypeOK, Pass, tickVars
  <2>2. CASE OwnRotation
    BY <2>2, DayBounds DEF IInv, TypeOK, OwnRotation
  <2>3. CASE \E fact \in Facts : Work(fact)
    BY <2>3, DayBounds DEF IInv, TypeOK, Work, tickVars
  <2> QED BY <2>1, <2>2, <2>3
<1>3. TypeOK'
  BY <1>1, <1>2 DEF IInv, TypeOK
<1>4. FirstTickFree'
  BY <1>1, FreeKept DEF IInv, TypeOK
<1>5. Unscored'
  BY <1>1 DEF IInv, Unscored
<1>6. RotatedOnce' /\ Versions'
  BY <1>1, <1>2 DEF IInv, TypeOK, RotatedOnce, Versions
<1>7. Late'
  <2>1. time \in Nat /\ Plan["stabilize"] \in Nat
    BY DayBounds, PhasesAre DEF IInv, TypeOK
  <2> QED BY <1>1, <1>2, <2>1 DEF IInv, Late, Armed
<1> QED BY <1>3, <1>4, <1>5, <1>6, <1>7 DEF IInv

LEMMA NextIInv == IInv /\ [Next]_dayVars => IInv'
<1> SUFFICES ASSUME IInv, [Next]_dayVars PROVE IInv'
  OBVIOUS
<1>1. CASE Tick \/ NotListening \/ BoardAnswers
  BY <1>1, TickIInv
<1>2. CASE Remeasured \/ \E i \in DOMAIN Requested : Probed(i)
  BY <1>2, RemeasuredIInv, ProbedIInv
<1>3. CASE Charge
  BY <1>3, ChargeIInv
<1>4. CASE Settle
  BY <1>4, SettleIInv
<1>5. CASE ReadOpen \/ Read \/ RotateKey
  BY <1>5, RotationIInv
<1>6. CASE Pass \/ OwnRotation \/ \E fact \in Facts : Work(fact)
  BY <1>6, OutsideIInv
<1>7. CASE UNCHANGED dayVars
  <2>1. TypeOK' /\ RotatedOnce' /\ Unscored' /\ Versions' /\ Late'
    BY <1>7 DEF dayVars, IInv, TypeOK, RotatedOnce, Unscored, Versions, Late, Armed
  <2>2. FirstTickFree'
    BY <1>7, FreeKept DEF dayVars, IInv, TypeOK
  <2> QED BY <2>1, <2>2 DEF IInv
<1> QED BY <1>1, <1>2, <1>3, <1>4, <1>5, <1>6, <1>7 DEF Next

-----------------------------------------------------------------------------
(* Theorems.                                                               *)

LEMMA Inductive == Spec => []IInv
BY InitIInv, NextIInv, PTL DEF Spec

\* The types hold: no counter of a probe passes the ticks that measured.
THEOREM DayTypes == Spec => []TypeOK
<1>1. IInv => TypeOK
  BY DEF IInv
<1> QED BY <1>1, Inductive, PTL

\* DaySafe: the scheduled rotation takes place once at most whatever answers are lost,
\* the tick that commits a probe is free, and the sign-off comes after the last phase
\* opened, with a committed probe (gameday.mjs:808-830, 917-952).
THEOREM DayIsSafe == Spec => []DaySafe
<1>1. IInv => DaySafe
  <2>1. SignOff => "stabilize" \in opened /\ whole # None
    BY PhasesAre DEF SignOff, HoldSatisfied
  <2> QED BY <2>1 DEF IInv, Late, SignedLate, DaySafe
<1> QED BY <1>1, Inductive, PTL

-----------------------------------------------------------------------------
(* The drill of "defend".                                                  *)

\* The newest draft of the drill is missing from the table that is in force.
Minted == drill # <<>> /\ ~drill[Len(drill)]

\* The board is wrong and stays wrong until it is edited.
Wrong == kind \in {"open", "off"} \/ (kind = "table" /\ Minted)

Flying == round # Drill!Idle

\* A round begun under the policy in force catches what is wrong in its first group.
Caught ==
    Wrong /\ Flying /\ round.whole /\ ~round.lost /\ round.group > 1 => Drill!Bad(round)

\* What may make a right board look wrong spoils the round.
Spoilt == Flying /\ (spent \/ round.raced) => ~round.whole

\* Until a draft is minted the rounds since the edit all fit in one turn.
OneTurn ==
    kind = "table" /\ ~Minted =>
        /\ tested <= parity
        /\ Flying /\ round.whole => parity # Drill!RotateEvery - 1

\* A wrong board lost its hold with the first full round that tested it.
HoldLost ==
    /\ kind \in {"open", "off"} /\ tested >= 1 => ~clean
    /\ kind = "table" /\ tested >= Drill!RotateEvery => ~clean

\* The rounds that tested a right board are the newest of the window, and none is bad.
Recent ==
    kind = "right" =>
        /\ tested <= Len(history)
        /\ \A i \in DOMAIN history :
               i > Len(history) - tested => ~Drill!Bad(history[i])

DrillInv ==
    Drill!TypeOK /\ Caught /\ Spoilt /\ OneTurn /\ HoldLost /\ Drill!RightHolds /\ Recent

LEMMA DrillBounds == /\ DrillWindow \in Nat /\ DrillWindow >= 3 /\ DrillDrafts \in Nat \ {0}
                     /\ Drill!RotateEvery \in Nat /\ Drill!RotateEvery >= 2
<1>1. DrillWindow \in Nat /\ DrillWindow >= 3 /\ DrillDrafts \in Nat \ {0}
  BY WatchBounds DEF Drill!DefendBounds
<1>2. (2 * DrillWindow + 3) \div 6 \in Int
  BY <1>1
<1> QED BY <1>1, <1>2 DEF Drill!RotateEvery

LEMMA GroupsAre == Len(Drill!Groups) = 3 /\ DOMAIN Drill!Groups = 1..3
                   /\ Drill!Groups[1] = "list" /\ Drill!Groups[2] = "drafts"
                   /\ Drill!Groups[3] = "attack"
BY DEF Drill!Groups

LEMMA FlightFields ==
    ASSUME NEW r \in Drill!Flights
    PROVE  /\ r.group \in 1..4 /\ r.service \in Drill!Results /\ r.attack \in Drill!Results
           /\ r.raced \in BOOLEAN /\ r.whole \in BOOLEAN /\ r.lost \in BOOLEAN
           /\ r # Drill!Idle
<1>1. r.group \in 1..4
  BY GroupsAre DEF Drill!Flights
<1>2. Drill!Idle.group = 0
  BY DEF Drill!Idle
<1> QED BY <1>1, <1>2 DEF Drill!Flights

LEMMA FlyingRound == Drill!TypeOK /\ Flying => round \in Drill!Flights
BY DEF Drill!TypeOK, Flying

LEMMA IdleGroup == Drill!Idle.group = 0
BY DEF Drill!Idle

\* A rotation keeps within the limit and leaves the newest draft last.
LEMMA RotatedFacts ==
    ASSUME Drill!TypeOK
    PROVE  /\ Drill!Rotated \in Seq(BOOLEAN) /\ Len(Drill!Rotated) <= DrillDrafts
           /\ Len(Drill!Rotated) > 0
           /\ Drill!Rotated[Len(Drill!Rotated)] = (kind # "table")
<1> DEFINE all == Append(drill, kind # "table")
<1>1. drill \in Seq(BOOLEAN) /\ Len(drill) \in Nat /\ Len(drill) <= DrillDrafts
  BY DEF Drill!TypeOK
<1>2. /\ all \in Seq(BOOLEAN) /\ Len(all) = Len(drill) + 1
      /\ all[Len(all)] = (kind # "table")
  BY <1>1
<1>3. Drill!Rotated = IF Len(all) > DrillDrafts THEN Tail(all) ELSE all
  BY DEF Drill!Rotated
<1> HIDE DEF all
<1>4. CASE Len(all) > DrillDrafts
  <2>1. Len(all) = DrillDrafts + 1 /\ Len(all) >= 2
    BY <1>1, <1>2, <1>4, DrillBounds
  <2>2. /\ Tail(all) \in Seq(BOOLEAN) /\ Len(Tail(all)) = Len(all) - 1
        /\ Tail(all)[Len(all) - 1] = all[Len(all)]
    BY <1>2, <2>1
  <2> QED BY <1>2, <1>3, <1>4, <2>1, <2>2, DrillBounds
<1>5. CASE ~(Len(all) > DrillDrafts)
  BY <1>1, <1>2, <1>3, <1>5, DrillBounds
<1> QED BY <1>4, <1>5

\* A history one round longer, without its oldest where it is full.
LEMMA SlidFacts ==
    ASSUME Drill!TypeOK, NEW r \in Drill!Rounds
    PROVE  LET new == Drill!Slid(Append(history, r))
           IN  /\ new \in Seq(Drill!Rounds) /\ Len(new) <= DrillWindow
               /\ Len(new) > 0 /\ new[Len(new)] = r
               /\ \/ Len(new) = Len(history) + 1 /\ \A i \in 1..Len(history) : new[i] = history[i]
                  \/ /\ Len(history) = DrillWindow /\ Len(new) = Len(history)
                     /\ \A i \in 1..Len(history) - 1 : new[i] = history[i + 1]
<1> DEFINE all == Append(history, r)
           new == Drill!Slid(all)
<1>1. history \in Seq(Drill!Rounds) /\ Len(history) \in Nat /\ Len(history) <= DrillWindow
  BY DEF Drill!TypeOK
<1>2. /\ all \in Seq(Drill!Rounds) /\ Len(all) = Len(history) + 1
      /\ all[Len(all)] = r
      /\ \A i \in 1..Len(history) : all[i] = history[i]
  BY <1>1
<1>3. new = IF Len(all) > DrillWindow THEN Tail(all) ELSE all
  BY DEF Drill!Slid
<1> HIDE DEF all, new
<1>4. CASE Len(all) > DrillWindow
  <2>1. Len(history) = DrillWindow /\ Len(all) >= 2
    BY <1>1, <1>2, <1>4, DrillBounds
  <2>2. /\ new \in Seq(Drill!Rounds) /\ Len(new) = Len(history)
        /\ \A i \in 1..Len(history) : new[i] = all[i + 1]
    BY <1>1, <1>2, <1>3, <1>4, <2>1, DrillBounds
  <2>3. \A i \in 1..Len(history) - 1 : new[i] = history[i + 1]
    BY <1>1, <1>2, <2>2
  <2>4. Len(new) > 0 /\ new[Len(new)] = r
    BY <1>1, <1>2, <2>1, <2>2, DrillBounds
  <2> QED BY <1>1, <2>1, <2>2, <2>3, <2>4 DEF new, all
<1>5. CASE ~(Len(all) > DrillWindow)
  <2>1. new = all /\ Len(new) = Len(history) + 1 /\ Len(new) <= DrillWindow /\ Len(new) > 0
    BY <1>1, <1>2, <1>3, <1>5, DrillBounds
  <2> QED BY <1>2, <2>1 DEF new, all
<1> QED BY <1>4, <1>5

-----------------------------------------------------------------------------
(* The drill's own steps.                                                  *)

LEMMA BeginDrill == ASSUME DrillInv, Drill!BeginRound PROVE DrillInv'
<1> DEFINE next == [group |-> 1, service |-> "lost", attack |-> "lost", raced |-> FALSE,
                    whole |-> TRUE, lost |-> FALSE]
<1>1. /\ round = Drill!Idle /\ round' = next /\ spent' = FALSE
      /\ UNCHANGED <<kind, untabled, parity, history, clean, tested>>
      /\ drill' = IF parity = Drill!RotateEvery - 1 THEN Drill!Rotated ELSE drill
  BY DEF Drill!BeginRound
<1>2. next \in Drill!Flights
  BY GroupsAre DEF Drill!Flights, Drill!Results
<1>3. /\ next.group = 1 /\ next.service = "lost" /\ next.attack = "lost" /\ next.raced = FALSE
      /\ next.whole = TRUE /\ next.lost = FALSE
  OBVIOUS
<1> HIDE DEF next
<1>4. drill' \in Seq(BOOLEAN) /\ Len(drill') <= DrillDrafts
  BY <1>1, RotatedFacts DEF DrillInv, Drill!TypeOK
<1>5. Drill!TypeOK'
  BY <1>1, <1>2, <1>4 DEF DrillInv, Drill!TypeOK
<1>6. ~(round'.group > 1) /\ Caught'
  BY <1>1, <1>3 DEF Caught
<1>7. Spoilt'
  BY <1>1, <1>3 DEF Spoilt
<1>8. ~Drill!Bad(next)
  BY <1>3 DEF Drill!Bad
<1>9. Drill!RightHolds'
  BY <1>1, <1>8 DEF Drill!RightHolds
<1>10. OneTurn'
  <2>1. CASE parity = Drill!RotateEvery - 1
    <3>1. drill' = Drill!Rotated /\ kind' = kind
      BY <1>1, <2>1
    <3>2. kind = "table" => Minted'
      <4> SUFFICES ASSUME kind = "table" PROVE Minted'
        OBVIOUS
      <4>1. Len(drill') > 0 /\ drill'[Len(drill')] = FALSE
        BY <3>1, RotatedFacts DEF DrillInv
      <4>2. drill' # <<>>
        BY <4>1
      <4> QED BY <4>1, <4>2 DEF Minted
    <3> QED BY <3>1, <3>2 DEF OneTurn
  <2>2. CASE parity # Drill!RotateEvery - 1
    <3>1. drill' = drill /\ UNCHANGED <<kind, tested, parity>>
      BY <1>1, <2>2
    <3>2. Minted' <=> Minted
      BY <3>1 DEF Minted
    <3> QED BY <2>2, <3>1, <3>2 DEF DrillInv, OneTurn
  <2> QED BY <2>1, <2>2
<1>11. HoldLost' /\ Recent'
  BY <1>1 DEF DrillInv, HoldLost, Recent
<1> QED BY <1>5, <1>6, <1>7, <1>9, <1>10, <1>11 DEF DrillInv

\* Bad answers stay bad.
LEMMA JoinedFacts ==
    ASSUME NEW old \in Drill!Results, NEW new \in Drill!Results
    PROVE  /\ Drill!Joined(old, new) \in Drill!Results
           /\ Drill!Joined(old, new) = "bad" <=> old = "bad" \/ new = "bad"
BY DEF Drill!Results, Drill!Joined

\* What a group of requests does to the round in flight.
LEMMA ProbeEffect ==
    ASSUME DrillInv, Drill!ProbeGroup
    PROVE  \E silent \in BOOLEAN, fails \in Drill!MayFail(Drill!Groups[round.group]) :
             /\ round \in Drill!Flights /\ round' \in Drill!Flights
             /\ round.group \in 1..3 /\ round'.group = round.group + 1
             /\ round'.whole = round.whole
             /\ round'.lost = (round.lost \/ silent)
             /\ round'.raced = FALSE
             /\ Drill!Bad(round') <=> Drill!Bad(round) \/ (~silent /\ fails)
<1>1. round.group \in 1..3
  BY GroupsAre DEF Drill!ProbeGroup
<1>2. round \in Drill!Flights
  BY <1>1, IdleGroup, FlyingRound DEF DrillInv, Flying
<1>3. PICK silent \in BOOLEAN, fails \in Drill!MayFail(Drill!Groups[round.group]) :
        LET saw == IF silent THEN "lost" ELSE IF fails THEN "bad" ELSE "ok"
            class == IF Drill!Groups[round.group] = "attack" THEN "attack" ELSE "service"
        IN  round' = [round EXCEPT ![class] = Drill!Joined(@, saw), !.group = @ + 1,
                        !.lost = @ \/ silent, !.raced = FALSE]
  BY DEF Drill!ProbeGroup
<1> DEFINE saw == IF silent THEN "lost" ELSE IF fails THEN "bad" ELSE "ok"
<1>4. saw \in Drill!Results /\ (saw = "bad" <=> ~silent /\ fails)
  BY DEF Drill!Results
<1> HIDE DEF saw
<1>5. /\ round.group + 1 \in 1..Len(Drill!Groups) + 1
      /\ (round.lost \/ silent) \in BOOLEAN
  BY <1>1, GroupsAre
<1>6. CASE Drill!Groups[round.group] = "attack"
  <2>1. round' = [round EXCEPT !.attack = Drill!Joined(@, saw), !.group = @ + 1,
                    !.lost = @ \/ silent, !.raced = FALSE]
    BY <1>3, <1>6 DEF saw
  <2>2. Drill!Joined(round.attack, saw) \in Drill!Results
    BY <1>2, <1>4, FlightFields, JoinedFacts
  <2>3. round' \in Drill!Flights
    BY <1>2, <1>5, <2>1, <2>2 DEF Drill!Flights
  <2>4. /\ round'.group = round.group + 1 /\ round'.whole = round.whole
        /\ round'.lost = (round.lost \/ silent) /\ round'.raced = FALSE
        /\ round'.attack = Drill!Joined(round.attack, saw) /\ round'.service = round.service
    BY <1>2, <2>1 DEF Drill!Flights
  <2>5. Drill!Bad(round') <=> Drill!Bad(round) \/ (~silent /\ fails)
    BY <1>2, <1>4, <2>4, FlightFields, JoinedFacts DEF Drill!Bad
  <2> QED BY <1>1, <1>2, <2>3, <2>4, <2>5
<1>7. CASE Drill!Groups[round.group] # "attack"
  <2>1. round' = [round EXCEPT !.service = Drill!Joined(@, saw), !.group = @ + 1,
                    !.lost = @ \/ silent, !.raced = FALSE]
    BY <1>3, <1>7 DEF saw
  <2>2. Drill!Joined(round.service, saw) \in Drill!Results
    BY <1>2, <1>4, FlightFields, JoinedFacts
  <2>3. round' \in Drill!Flights
    BY <1>2, <1>5, <2>1, <2>2 DEF Drill!Flights
  <2>4. /\ round'.group = round.group + 1 /\ round'.whole = round.whole
        /\ round'.lost = (round.lost \/ silent) /\ round'.raced = FALSE
        /\ round'.service = Drill!Joined(round.service, saw) /\ round'.attack = round.attack
    BY <1>2, <2>1 DEF Drill!Flights
  <2>5. Drill!Bad(round') <=> Drill!Bad(round) \/ (~silent /\ fails)
    BY <1>2, <1>4, <2>4, FlightFields, JoinedFacts DEF Drill!Bad
  <2> QED BY <1>1, <1>2, <2>3, <2>4, <2>5
<1> QED BY <1>6, <1>7

\* The first group finds what is wrong, if it is answered.
LEMMA WrongFails ==
    ASSUME Drill!TypeOK, Wrong
    PROVE  Drill!MayFail("list") = {TRUE}
<1>1. CASE kind \in {"open", "off"}
  <2>1. kind = "open" \/ kind = "off"
    BY <1>1
  <2> QED BY <2>1 DEF Drill!MayFail
<1>2. CASE kind = "table" /\ Minted
  <2>1. Len(drill) \in DOMAIN drill /\ drill[Len(drill)] = FALSE
    BY <1>2 DEF Drill!TypeOK, Minted
  <2>2. ~Drill!TableHolds
    BY <2>1 DEF Drill!TableHolds
  <2> QED BY <1>2, <2>2 DEF Drill!MayFail
<1> QED BY <1>1, <1>2 DEF Wrong

\* A right board fails a group only where the participant spoilt it.
LEMMA RightAnswers ==
    ASSUME DrillInv, kind = "right", round \in Drill!Flights, round.whole,
           NEW i \in 1..3
    PROVE  Drill!MayFail(Drill!Groups[i]) = {FALSE}
<1>1. spent = FALSE /\ round.raced = FALSE
  BY FlightFields DEF DrillInv, Spoilt, Flying, Drill!TypeOK
<1>2. kind # "off" /\ kind # "open" /\ kind # "table"
  OBVIOUS
<1>3. Drill!Groups[i] \in {"list", "drafts", "attack"}
  BY GroupsAre
<1>4. CASE Drill!Groups[i] = "list"
  BY <1>1, <1>2, <1>4 DEF Drill!MayFail
<1>5. CASE Drill!Groups[i] = "attack"
  BY <1>1, <1>2, <1>5 DEF Drill!MayFail
<1>6. CASE Drill!Groups[i] = "drafts"
  BY <1>1, <1>2, <1>6 DEF Drill!MayFail
<1> QED BY <1>3, <1>4, <1>5, <1>6

LEMMA ProbeDrill == ASSUME DrillInv, Drill!ProbeGroup PROVE DrillInv'
<1>1. PICK silent \in BOOLEAN, fails \in Drill!MayFail(Drill!Groups[round.group]) :
        /\ round \in Drill!Flights /\ round' \in Drill!Flights
        /\ round.group \in 1..3 /\ round'.group = round.group + 1
        /\ round'.whole = round.whole
        /\ round'.lost = (round.lost \/ silent)
        /\ round'.raced = FALSE
        /\ Drill!Bad(round') <=> Drill!Bad(round) \/ (~silent /\ fails)
  BY ProbeEffect
<1>2. UNCHANGED <<kind, drill, untabled, parity, history, clean, spent, tested>>
  BY DEF Drill!ProbeGroup
<1>3. Drill!TypeOK'
  BY <1>1, <1>2 DEF DrillInv, Drill!TypeOK
<1>4. Minted' = Minted /\ Wrong' = Wrong
  BY <1>2 DEF Minted, Wrong
<1>5. Flying /\ Flying'
  BY <1>1, FlightFields DEF Flying
<1>6. Caught'
  <2> SUFFICES ASSUME Wrong, round.whole, ~round'.lost
               PROVE  Drill!Bad(round')
    BY <1>1, <1>4 DEF Caught
  <2>1. ~silent /\ ~round.lost
    BY <1>1
  <2>2. CASE round.group = 1
    <3>1. fails = TRUE
      BY <1>1, <2>2, WrongFails, GroupsAre DEF DrillInv
    <3> QED BY <1>1, <2>1, <3>1
  <2>3. CASE round.group > 1
    BY <1>1, <1>5, <2>1, <2>3 DEF DrillInv, Caught
  <2> QED BY <1>1, <2>2, <2>3
<1>7. Spoilt'
  BY <1>1, <1>2, <1>5 DEF DrillInv, Spoilt
<1>8. Drill!RightHolds'
  <2> SUFFICES ASSUME kind = "right", round.whole
               PROVE  ~Drill!Bad(round')
    <3>1. kind' = kind /\ round'.whole = round.whole
      BY <1>1, <1>2
    <3> QED BY <3>1 DEF Drill!RightHolds
  <2>1. fails = FALSE
    <3>1. round \in Drill!Flights /\ round.group \in 1..3
      BY <1>1
    <3>2. Drill!MayFail(Drill!Groups[round.group]) = {FALSE}
      BY <3>1, RightAnswers
    <3> QED BY <3>2
  <2>2. ~Drill!Bad(round)
    BY <1>5 DEF DrillInv, Drill!RightHolds, Flying
  <2> QED BY <1>1, <2>1, <2>2
<1>9. OneTurn' /\ HoldLost' /\ Recent'
  BY <1>1, <1>2, <1>4, <1>5 DEF DrillInv, OneTurn, HoldLost, Recent
<1> QED BY <1>3, <1>6, <1>7, <1>8, <1>9 DEF DrillInv

LEMMA EndDrill == ASSUME DrillInv, Drill!EndRound PROVE DrillInv'
<1> DEFINE entry == [service |-> round.service, attack |-> round.attack]
<1>1. /\ round.group > 3 /\ round' = Drill!Idle
      /\ parity' = (parity + 1) % Drill!RotateEvery
      /\ history' = Drill!Slid(Append(history, entry))
      /\ clean' = Drill!CleanAfter
      /\ tested' = IF ~round.whole THEN 0
                   ELSE IF ~round.lost /\ tested < DrillWindow THEN tested + 1 ELSE tested
      /\ UNCHANGED <<kind, drill, untabled, spent>>
  BY GroupsAre DEF Drill!EndRound
<1>2. Flying /\ round \in Drill!Flights
  BY <1>1, IdleGroup, FlyingRound DEF DrillInv, Flying
<1>3. entry \in Drill!Rounds /\ (Drill!Bad(entry) <=> Drill!Bad(round))
  BY <1>2, FlightFields DEF Drill!Rounds, Drill!Bad
<1> HIDE DEF entry
<1>4. /\ history \in Seq(Drill!Rounds) /\ Len(history) <= DrillWindow /\ clean \in BOOLEAN
      /\ parity \in 0..Drill!RotateEvery - 1 /\ tested \in 0..DrillWindow
  BY DEF DrillInv, Drill!TypeOK
<1>5. tested' \in 0..DrillWindow
  BY <1>1, <1>4, DrillBounds
<1>6. parity' \in 0..Drill!RotateEvery - 1
      /\ (parity # Drill!RotateEvery - 1 => parity' = parity + 1)
  <2>1. CASE parity = Drill!RotateEvery - 1
    <3>1. parity' = 0
      BY <1>1, <1>4, <2>1, DrillBounds
    <3> QED BY <2>1, <3>1, DrillBounds
  <2>2. CASE parity # Drill!RotateEvery - 1
    <3>1. parity' = parity + 1
      BY <1>1, <1>4, <2>2, DrillBounds
    <3> QED BY <1>4, <2>2, <3>1, DrillBounds
  <2> QED BY <2>1, <2>2
<1>7. clean' \in BOOLEAN
  BY <1>1, <1>4 DEF Drill!CleanAfter
<1>8. /\ history' \in Seq(Drill!Rounds) /\ Len(history') <= DrillWindow
      /\ Len(history') > 0 /\ history'[Len(history')] = entry
      /\ \/ /\ Len(history') = Len(history) + 1
            /\ \A i \in 1..Len(history) : history'[i] = history[i]
         \/ /\ Len(history) = DrillWindow /\ Len(history') = Len(history)
            /\ \A i \in 1..Len(history) - 1 : history'[i] = history[i + 1]
  BY <1>1, <1>3, SlidFacts DEF DrillInv
<1>9. Drill!TypeOK'
  BY <1>1, <1>5, <1>6, <1>7, <1>8 DEF DrillInv, Drill!TypeOK
<1>10. ~Flying' /\ Minted' = Minted
  BY <1>1 DEF Flying, Minted
<1>11. Caught' /\ Spoilt' /\ Drill!RightHolds'
  BY <1>1, <1>10 DEF Caught, Spoilt, Drill!RightHolds, Flying
<1>12. OneTurn'
  <2> SUFFICES ASSUME kind = "table", ~Minted
               PROVE  tested' <= parity'
    BY <1>1, <1>10 DEF OneTurn
  <2>1. tested <= parity /\ (round.whole => parity # Drill!RotateEvery - 1)
    BY <1>2 DEF DrillInv, OneTurn
  <2>2. CASE round.whole
    BY <1>1, <1>4, <1>6, <2>1, <2>2, DrillBounds
  <2>3. CASE ~round.whole
    BY <1>1, <1>6, <2>3, DrillBounds
  <2> QED BY <2>2, <2>3
\* A full round of a wrong board takes its hold.
<1>13. Wrong /\ round.whole /\ ~round.lost => ~clean'
  <2>1. round.group \in 1..4 /\ round.group > 1
    BY <1>1, <1>2, FlightFields
  <2>2. Wrong /\ round.whole /\ ~round.lost => Drill!Bad(round)
    BY <1>2, <2>1 DEF DrillInv, Caught
  <2> QED BY <1>1, <2>2 DEF Drill!CleanAfter
<1>14. round.whole /\ round.lost => tested' = tested /\ (clean' => clean)
  BY <1>1 DEF Drill!CleanAfter
<1>15. ~round.whole => tested' = 0
  BY <1>1
<1>16. HoldLost'
  <2>1. kind \in {"open", "off"} /\ tested' >= 1 => ~clean'
    <3> SUFFICES ASSUME kind \in {"open", "off"}, tested' >= 1
                 PROVE  ~clean'
      OBVIOUS
    <3>1. round.whole /\ Wrong
      BY <1>15 DEF Wrong
    <3>2. CASE round.lost
      BY <1>14, <3>1, <3>2 DEF DrillInv, HoldLost
    <3> QED BY <1>13, <3>1, <3>2
  <2>2. kind = "table" /\ tested' >= Drill!RotateEvery => ~clean'
    <3> SUFFICES ASSUME kind = "table", tested' >= Drill!RotateEvery
                 PROVE  ~clean'
      OBVIOUS
    <3>1. round.whole
      BY <1>15, DrillBounds
    <3>2. Minted
      <4> SUFFICES ASSUME ~Minted PROVE FALSE
        OBVIOUS
      <4>1. tested' <= parity' /\ parity' \in 0..Drill!RotateEvery - 1 /\ tested' \in Nat
        BY <1>1, <1>5, <1>6, <1>10, <1>12, DrillBounds DEF OneTurn
      <4> QED BY <4>1, DrillBounds
    <3>3. Wrong
      BY <3>2 DEF Wrong
    <3>4. CASE round.lost
      BY <1>14, <3>1, <3>4 DEF DrillInv, HoldLost
    <3> QED BY <1>13, <3>1, <3>3, <3>4
  <2> QED BY <1>1, <2>1, <2>2 DEF HoldLost
<1>17. Recent'
  <2> SUFFICES ASSUME kind = "right"
               PROVE  /\ tested' <= Len(history')
                      /\ \A i \in DOMAIN history' :
                             i > Len(history') - tested' => ~Drill!Bad(history'[i])
    BY <1>1 DEF Recent
  <2>1. /\ tested <= Len(history)
        /\ \A i \in 1..Len(history) : i > Len(history) - tested => ~Drill!Bad(history[i])
    BY <1>4 DEF DrillInv, Recent
  <2>2. CASE ~round.whole
    BY <1>8, <1>15, <2>2
  <2>3. CASE round.whole
    <3>1. ~Drill!Bad(entry)
      BY <1>2, <1>3, <2>3 DEF DrillInv, Drill!RightHolds, Flying
    <3>2. tested' <= tested + 1 /\ tested' \in 0..DrillWindow /\ Len(history) \in Nat
          /\ Len(history') \in Nat
      BY <1>1, <1>4, <1>5, <1>8
    <3>3. tested' <= Len(history')
      BY <1>4, <1>8, <2>1, <3>2, DrillBounds
    <3>4. ASSUME NEW i \in 1..Len(history'), i > Len(history') - tested'
          PROVE  ~Drill!Bad(history'[i])
      <4>1. CASE i = Len(history')
        BY <1>8, <3>1, <4>1
      <4>2. CASE i # Len(history')
        <5>1. CASE /\ Len(history') = Len(history) + 1
                   /\ \A j \in 1..Len(history) : history'[j] = history[j]
          <6>1. i \in 1..Len(history) /\ i > Len(history) - tested
            BY <1>4, <3>2, <3>4, <4>2, <5>1
          <6> QED BY <2>1, <5>1, <6>1
        <5>2. CASE /\ Len(history) = DrillWindow /\ Len(history') = Len(history)
                   /\ \A j \in 1..Len(history) - 1 : history'[j] = history[j + 1]
          <6>1. /\ i \in 1..Len(history) - 1 /\ i + 1 \in 1..Len(history)
                /\ i + 1 > Len(history) - tested
            BY <1>4, <3>2, <3>4, <4>2, <5>2
          <6> QED BY <2>1, <5>2, <6>1
        <5> QED BY <1>8, <5>1, <5>2
      <4> QED BY <4>1, <4>2
    <3>5. DOMAIN history' = 1..Len(history')
      BY <1>8
    <3> QED BY <3>3, <3>4, <3>5
  <2> QED BY <2>2, <2>3
<1> QED BY <1>9, <1>11, <1>12, <1>16, <1>17 DEF DrillInv

-----------------------------------------------------------------------------
(* The participant's steps.                                                *)

LEMMA EditDrill == ASSUME DrillInv, NEW k \in Drill!Kinds, Drill!Edit(k) PROVE DrillInv'
<1>1. /\ kind' = k /\ drill' = [i \in DOMAIN drill |-> TRUE] /\ untabled' = FALSE
      /\ tested' = 0
      /\ round' = IF round = Drill!Idle THEN Drill!Idle ELSE [round EXCEPT !.whole = FALSE]
      /\ UNCHANGED <<parity, history, clean, spent>>
  BY DEF Drill!Edit
<1>2. drill \in Seq(BOOLEAN) /\ Len(drill) <= DrillDrafts /\ DOMAIN drill = 1..Len(drill)
      /\ Len(drill) \in Nat
  BY DEF DrillInv, Drill!TypeOK
<1>3. drill' \in Seq(BOOLEAN) /\ Len(drill') = Len(drill)
      /\ \A i \in 1..Len(drill) : drill'[i] = TRUE
  BY <1>1, <1>2
<1>4. \/ round' = Drill!Idle
      \/ round' \in Drill!Flights /\ ~round'.whole
  <2>1. CASE round = Drill!Idle
    BY <1>1, <2>1
  <2>2. CASE round # Drill!Idle
    <3>1. round \in Drill!Flights
      BY <2>2, FlyingRound DEF DrillInv, Flying
    <3> QED BY <1>1, <2>2, <3>1 DEF Drill!Flights
  <2> QED BY <2>1, <2>2
<1>5. 0 \in 0..DrillWindow
  BY DrillBounds
<1>6. Drill!TypeOK'
  BY <1>1, <1>2, <1>3, <1>4, <1>5 DEF DrillInv, Drill!TypeOK
<1>7. ~Minted'
  <2> SUFFICES ASSUME drill' # <<>> PROVE drill'[Len(drill')] = TRUE
    BY DEF Minted
  <2>1. Len(drill') \in 1..Len(drill)
    BY <1>3
  <2> QED BY <1>3, <2>1
<1>8. Flying' => ~round'.whole
  BY <1>4 DEF Flying
<1>9. Caught' /\ Spoilt' /\ Drill!RightHolds'
  BY <1>8 DEF Caught, Spoilt, Drill!RightHolds, Flying
<1>10. OneTurn' /\ HoldLost'
  BY <1>1, <1>8, DrillBounds DEF DrillInv, Drill!TypeOK, OneTurn, HoldLost
<1>11. Recent'
  BY <1>1 DEF DrillInv, Drill!TypeOK, Recent
<1> QED BY <1>6, <1>9, <1>10, <1>11 DEF DrillInv

\* Traffic of the participant leaves a round as it is, or spoils it.
LEMMA QuietDrill ==
    ASSUME DrillInv, Drill!TypeOK', UNCHANGED <<kind, drill, parity, history, clean, tested>>,
           \/ round' = round /\ (spent' = spent \/ ~Flying)
           \/ round' \in Drill!Flights /\ ~round'.whole
    PROVE  DrillInv'
<1>1. Minted' = Minted /\ Wrong' = Wrong
  BY DEF Minted, Wrong
<1>2. HoldLost' /\ Recent'
  BY DEF DrillInv, HoldLost, Recent
<1>3. CASE round' = round /\ (spent' = spent \/ ~Flying)
  <2>1. Flying' = Flying
    BY <1>3 DEF Flying
  <2>2. Caught' /\ Spoilt' /\ OneTurn' /\ Drill!RightHolds'
    BY <1>1, <1>3, <2>1 DEF DrillInv, Caught, Spoilt, OneTurn, Drill!RightHolds
  <2> QED BY <1>2, <2>2 DEF DrillInv
<1>4. CASE round' \in Drill!Flights /\ ~round'.whole
  <2>1. Caught' /\ Spoilt' /\ OneTurn' /\ Drill!RightHolds'
    BY <1>1, <1>4 DEF DrillInv, Caught, Spoilt, OneTurn, Drill!RightHolds
  <2> QED BY <1>2, <2>1 DEF DrillInv
<1> QED BY <1>3, <1>4

LEMMA WriteDrill == ASSUME DrillInv, Drill!WriteDraft PROVE DrillInv'
<1>1. /\ untabled' = (untabled \/ kind = "table")
      /\ round' \in IF round = Drill!Idle THEN {Drill!Idle}
           ELSE IF round.group # 1 THEN {round}
           ELSE {round, [round EXCEPT !.raced = TRUE, !.whole = FALSE]}
      /\ UNCHANGED <<kind, drill, parity, history, clean, spent, tested>>
  BY DEF Drill!WriteDraft
<1>2. \/ round' = round
      \/ round' \in Drill!Flights /\ ~round'.whole
  <2>1. CASE round = Drill!Idle
    BY <1>1, <2>1
  <2>2. CASE round # Drill!Idle
    <3>1. round \in Drill!Flights
      BY <2>2, FlyingRound DEF DrillInv, Flying
    <3>2. \/ round' = round \/ round' = [round EXCEPT !.raced = TRUE, !.whole = FALSE]
      BY <1>1, <2>2
    <3> QED BY <3>1, <3>2 DEF Drill!Flights
  <2> QED BY <2>1, <2>2
<1>3. Drill!TypeOK'
  BY <1>1, <1>2 DEF DrillInv, Drill!TypeOK
<1> QED BY <1>1, <1>2, <1>3, QuietDrill

LEMMA ReadDrill == ASSUME DrillInv, Drill!UseUpReads PROVE DrillInv'
<1>1. /\ round # Drill!Idle /\ spent' = TRUE /\ round' = [round EXCEPT !.whole = FALSE]
      /\ UNCHANGED <<kind, drill, untabled, parity, history, clean, tested>>
  BY DEF Drill!UseUpReads
<1>2. round \in Drill!Flights
  BY <1>1, FlyingRound DEF DrillInv, Flying
<1>3. round' \in Drill!Flights /\ ~round'.whole
  BY <1>1, <1>2 DEF Drill!Flights
<1>4. Drill!TypeOK'
  BY <1>1, <1>3 DEF DrillInv, Drill!TypeOK
<1> QED BY <1>1, <1>3, <1>4, QuietDrill

LEMMA DrillStart == Drill!Init => DrillInv
<1> SUFFICES ASSUME Drill!Init PROVE DrillInv
  OBVIOUS
<1> USE DEF Drill!Init
<1>1. Drill!TypeOK
  <2>1. 0 \in 0..Drill!RotateEvery - 1 /\ 0 \in 0..DrillWindow /\ Len(<<>>) = 0
        /\ 0 <= DrillWindow /\ 0 <= DrillDrafts
    BY DrillBounds
  <2>2. <<>> \in Seq(BOOLEAN) /\ <<>> \in Seq(Drill!Rounds)
    OBVIOUS
  <2> QED BY <2>1, <2>2 DEF Drill!TypeOK, Drill!Kinds
<1>2. ~Flying /\ ~Minted
  BY DEF Flying, Minted
<1>3. Caught /\ Spoilt /\ OneTurn /\ HoldLost /\ Drill!RightHolds /\ Recent
  BY <1>2, DrillBounds DEF Caught, Spoilt, OneTurn, HoldLost, Drill!RightHolds, Recent, Flying
<1> QED BY <1>1, <1>3 DEF DrillInv

LEMMA DrillStep == DrillInv /\ [Drill!Next]_defendVars => DrillInv'
<1> SUFFICES ASSUME DrillInv, [Drill!Next]_defendVars PROVE DrillInv'
  OBVIOUS
<1>1. CASE UNCHANGED defendVars
  <2>1. UNCHANGED <<kind, drill, untabled, round, parity, history, clean, spent, tested>>
    BY <1>1 DEF defendVars
  <2>2. Drill!TypeOK'
    BY <2>1 DEF DrillInv, Drill!TypeOK
  <2> QED BY <2>1, <2>2, QuietDrill
<1> QED BY <1>1, BeginDrill, ProbeDrill, EndDrill, EditDrill, WriteDrill, ReadDrill DEF Drill!Next

LEMMA DrillInvSafe == DrillInv => Drill!TypeOK /\ Drill!DefendSafe
<1> SUFFICES ASSUME DrillInv PROVE Drill!TypeOK /\ Drill!DefendSafe
  OBVIOUS
<1>1. Drill!BluntLoses /\ Drill!TableLoses
  BY DEF DrillInv, HoldLost, Drill!BluntLoses, Drill!TableLoses, Drill!Ready
<1>2. Drill!RightRegains
  <2> SUFFICES ASSUME kind = "right", tested = DrillWindow
               PROVE  Len(history) >= DrillWindow /\ \A i \in DOMAIN history : ~Drill!Bad(history[i])
    BY DEF Drill!RightRegains
  <2>1. history \in Seq(Drill!Rounds) /\ Len(history) <= DrillWindow
    BY DEF DrillInv, Drill!TypeOK
  <2>2. Len(history) = DrillWindow
    BY <2>1, DrillBounds DEF DrillInv, Recent
  <2>3. \A i \in DOMAIN history : i > Len(history) - tested
    BY <2>1, <2>2, DrillBounds
  <2> QED BY <2>1, <2>2, <2>3, DrillBounds DEF DrillInv, Recent
<1> QED BY <1>1, <1>2 DEF DrillInv, Drill!DefendSafe

\* Only the scenario that was loaded takes steps.
LEMMA DrillAlone == [WatchNext]_watchVars => [Drill!Next]_defendVars
BY DEF WatchNext, watchVars

\* Whatever the participant edits, writes and reads while rounds run: a blunt policy and a
\* table of draft ids lose the hold, and a right one loses it to nothing but the
\* participant's own traffic (defend.mjs:105-115, 886-905, 1039-1130).
THEOREM DrillIsSafe == WatchSpec => []DefendSafe
<1>1. WatchInit => DrillInv
  BY DrillStart DEF WatchInit
<1>2. DrillInv /\ [WatchNext]_watchVars => DrillInv'
  BY DrillStep, DrillAlone
<1>3. DrillInv => DefendSafe
  BY DrillInvSafe DEF DefendSafe
<1> QED BY <1>1, <1>2, <1>3, PTL DEF WatchSpec

-----------------------------------------------------------------------------
(* The probes of "recover".                                                *)

\* What was sampled is true of the policy it was sampled under.
TrueOf(sample) ==
    /\ sample.health => "healthz" \notin sample.revision.covers
    /\ sample.read => "board" \notin sample.revision.covers
    /\ sample.anonymous = "unauthorized" => "posts" \in sample.revision.covers

\* A probe during which nobody edited ran under the policy in force.
FlightsTrue ==
    \A s \in OutageSlots :
        /\ probes[s] # Outage!Idle /\ ~probes[s].edited =>
               probes[s].revision = rules /\ TrueOf(probes[s])
        /\ probes[s] # Outage!Idle /\ probes[s].for = "restart" =>
               probes[s].revision \in restarted

LastTrue == lastProbe # None /\ ~lastProbe.edited => TrueOf(lastProbe)

OutageInv == Outage!TypeOK /\ FlightsTrue /\ LastTrue /\ Outage!RestartUnderFix

LEMMA OutageBounds ==
    /\ OutagePolicies \subseteq Outage!PolicyShape /\ OutageStarter \in OutagePolicies
    /\ OutageLedger \in Nat \ {0} /\ OutageChanges \in Nat
BY WatchBounds DEF Outage!RecoverPolicies, Outage!RecoverBounds

LEMMA OutageIdle == Outage!Idle \notin Outage!Flights /\ Outage!Idle.step = "idle"
<1>1. \A f \in Outage!Flights : f.step # "idle"
  BY DEF Outage!Flights
<1>2. Outage!Idle.step = "idle"
  BY DEF Outage!Idle
<1> QED BY <1>1, <1>2

LEMMA InFlight ==
    ASSUME Outage!TypeOK, NEW s \in OutageSlots, probes[s] # Outage!Idle
    PROVE  probes[s] \in Outage!Flights
BY DEF Outage!TypeOK

\* What a step may make of a probe that is in flight: the samples of one that was not
\* edited are what the policy in force makes them.
Kept(old, new) ==
    /\ new.revision = old.revision /\ new.for = old.for /\ (old.edited => new.edited)
    /\ new.health => old.health \/ Outage!HealthAnswers
    /\ new.read => old.read \/ Outage!BoardAnswers
    /\ new.anonymous = "unauthorized" =>
           old.anonymous = "unauthorized" \/ Outage!AnonymousWrite = "unauthorized"

\* A step that leaves the policy alone and only moves probes on.
LEMMA MovedOn ==
    ASSUME OutageInv, Outage!TypeOK', rules' = rules, restarted \subseteq restarted',
           \A s \in OutageSlots :
               \/ probes'[s] = Outage!Idle
               \/ probes[s] # Outage!Idle /\ Kept(probes[s], probes'[s])
               \/ /\ probes'[s].revision = rules /\ ~probes'[s].health /\ ~probes'[s].read
                  /\ probes'[s].anonymous # "unauthorized"
                  /\ probes'[s].for = "restart" => rules \in restarted'
    PROVE  FlightsTrue'
<1> SUFFICES ASSUME NEW s \in OutageSlots, probes'[s] # Outage!Idle
             PROVE  /\ ~probes'[s].edited => probes'[s].revision = rules' /\ TrueOf(probes'[s])
                    /\ probes'[s].for = "restart" => probes'[s].revision \in restarted'
  BY DEF FlightsTrue, TrueOf
<1>1. CASE probes[s] # Outage!Idle /\ Kept(probes[s], probes'[s])
  <2>1. /\ ~probes[s].edited => probes[s].revision = rules /\ TrueOf(probes[s])
        /\ probes[s].for = "restart" => probes[s].revision \in restarted
    BY <1>1 DEF OutageInv, FlightsTrue
  <2>2. ~probes[s].edited => TrueOf(probes'[s])
    BY <1>1, <2>1 DEF Kept, TrueOf, Outage!HealthAnswers, Outage!BoardAnswers, Outage!AnonymousWrite
  <2> QED BY <1>1, <2>1, <2>2 DEF Kept
<1>2. CASE /\ probes'[s].revision = rules /\ ~probes'[s].health /\ ~probes'[s].read
           /\ probes'[s].anonymous # "unauthorized"
           /\ probes'[s].for = "restart" => rules \in restarted'
  BY <1>2 DEF TrueOf
<1> QED BY <1>1, <1>2

LEMMA BegunProbe ==
    ASSUME Outage!TypeOK, NEW s \in OutageSlots, NEW purpose \in Outage!Purposes
    PROVE  LET new == Outage!Begin(s, purpose)[s]
           IN  /\ new \in Outage!Flights /\ new.revision = rules /\ ~new.health /\ ~new.read
               /\ new.anonymous = "unavailable" /\ new.for = purpose
               /\ \A q \in OutageSlots \ {s} : Outage!Begin(s, purpose)[q] = probes[q]
               /\ Outage!Begin(s, purpose) \in [OutageSlots -> {Outage!Idle} \cup Outage!Flights]
<1> DEFINE new == [step |-> "health", for |-> purpose, revision |-> rules,
        health |-> FALSE, read |-> FALSE, anonymous |-> "unavailable", kept |-> 0, edited |-> FALSE]
<1>1. new \in Outage!Flights
  BY OutageBounds DEF Outage!TypeOK, Outage!Flights, Outage!Answers
<1>2. /\ new.revision = rules /\ ~new.health /\ ~new.read
      /\ new.anonymous = "unavailable" /\ new.for = purpose
  OBVIOUS
<1>3. Outage!Begin(s, purpose) = [probes EXCEPT ![s] = new]
  BY DEF Outage!Begin
<1>4. probes \in [OutageSlots -> {Outage!Idle} \cup Outage!Flights]
  BY DEF Outage!TypeOK
<1> HIDE DEF new
<1>5. Outage!Begin(s, purpose)[s] = new
  BY <1>3, <1>4
<1> QED BY <1>1, <1>2, <1>3, <1>4, <1>5

LEMMA JobTypes ==
    ASSUME Outage!TypeOK, Outage!RunDigest
    PROVE  {lastDigest', output'} \subseteq OutagePolicies \cup {None}
BY DEF Outage!TypeOK, Outage!RunDigest

\* A probe begins.
LEMMA BeginOutage ==
    ASSUME OutageInv, NEW s \in OutageSlots, Outage!Probe(s) \/ Outage!CheckRecurrence(s)
    PROVE  OutageInv'
<1>1. /\ probes' = Outage!Begin(s, "status")
      /\ UNCHANGED <<rules, changes, shedding, lastProbe, restart, healed, restarted>>
      /\ {lastDigest', output'} \subseteq OutagePolicies \cup {None}
  BY JobTypes DEF OutageInv, Outage!TypeOK, Outage!Probe, Outage!CheckRecurrence
<1>2. /\ probes'[s].revision = rules /\ ~probes'[s].health /\ ~probes'[s].read
      /\ probes'[s].anonymous # "unauthorized" /\ probes'[s].for # "restart"
      /\ \A q \in OutageSlots \ {s} : probes'[q] = probes[q]
      /\ probes' \in [OutageSlots -> {Outage!Idle} \cup Outage!Flights]
  BY <1>1, BegunProbe DEF OutageInv, Outage!Purposes
<1>3. Outage!TypeOK'
  BY <1>1, <1>2 DEF OutageInv, Outage!TypeOK
<1>4. FlightsTrue'
  BY <1>1, <1>2, <1>3, MovedOn DEF Kept
<1>5. LastTrue' /\ Outage!RestartUnderFix'
  BY <1>1 DEF OutageInv, LastTrue, TrueOf, Outage!RestartUnderFix
<1> QED BY <1>3, <1>4, <1>5 DEF OutageInv

\* A request of a probe is answered.
LEMMA SampleOutage ==
    ASSUME OutageInv, NEW s \in OutageSlots,
           \/ Outage!SampleHealth(s) \/ Outage!SampleRead(s) \/ Outage!Watchdog(s)
           \/ Outage!SampleAnonymous(s) \/ Outage!SampleToken(s)
    PROVE  OutageInv'
<1>0. probes \in [OutageSlots -> {Outage!Idle} \cup Outage!Flights] /\ shedding \in BOOLEAN
  BY DEF OutageInv, Outage!TypeOK
<1>1. UNCHANGED <<rules, changes, lastProbe, lastDigest, output, restart, healed, restarted>>
  BY DEF Outage!SampleHealth, Outage!SampleRead, Outage!Watchdog, Outage!SampleAnonymous,
         Outage!SampleToken, Outage!Answered
<1>2. probes[s] \in Outage!Flights
  BY <1>0, OutageIdle DEF Outage!SampleHealth, Outage!SampleRead, Outage!Watchdog,
     Outage!SampleAnonymous, Outage!SampleToken
<1>3. /\ Outage!HealthAnswers \in BOOLEAN /\ Outage!BoardAnswers \in BOOLEAN
      /\ Outage!AnonymousWrite \in Outage!Answers
  BY <1>0, OutageBounds DEF OutageInv, Outage!TypeOK, Outage!PolicyShape, Outage!HealthAnswers,
     Outage!BoardAnswers, Outage!AnonymousWrite, Outage!Answers
<1>4. /\ Outage!Pushed \in [OutageSlots -> {Outage!Idle} \cup Outage!Flights]
      /\ \A q \in OutageSlots :
            \/ Outage!Pushed[q] = probes[q]
            \/ /\ probes[q] # Outage!Idle /\ Outage!Pushed[q] \in Outage!Flights
               /\ Kept(probes[q], Outage!Pushed[q])
  <2>1. ASSUME NEW q \in OutageSlots
        PROVE  \/ Outage!Pushed[q] = probes[q]
               \/ /\ probes[q] # Outage!Idle /\ Outage!Pushed[q] \in Outage!Flights
                  /\ Kept(probes[q], Outage!Pushed[q])
    <3>1. CASE probes[q].step # "done"
      BY <3>1 DEF Outage!Pushed
    <3>2. CASE probes[q].step = "done"
      <4>1. probes[q] \in Outage!Flights
        BY <1>0, <3>2, OutageIdle
      <4>2. Outage!Pushed[q] = [probes[q] EXCEPT !.kept = Outage!Older(@)]
        BY <3>2 DEF Outage!Pushed
      <4>3. Outage!Older(probes[q].kept) \in 0..OutageLedger
        <5>1. probes[q].kept \in 0..OutageLedger
          BY <4>1 DEF Outage!Flights
        <5> QED BY <5>1, OutageBounds DEF Outage!Older
      <4>4. Outage!Pushed[q] \in Outage!Flights /\ Kept(probes[q], Outage!Pushed[q])
        BY <4>1, <4>2, <4>3 DEF Outage!Flights, Kept
      <4> QED BY <4>1, <4>4, OutageIdle
    <3> QED BY <3>1, <3>2
  <2>2. \A q \in OutageSlots : Outage!Pushed[q] \in {Outage!Idle} \cup Outage!Flights
    BY <1>0, <2>1
  <2> QED BY <2>1, <2>2 DEF Outage!Pushed
<1>5. /\ shedding' \in BOOLEAN
      /\ probes'[s] \in Outage!Flights /\ Kept(probes[s], probes'[s])
      /\ \A q \in OutageSlots \ {s} : probes'[q] \in {probes[q], Outage!Pushed[q]}
      /\ \E f : probes' = [f EXCEPT ![s] = probes'[s]]
                /\ f \in [OutageSlots -> {Outage!Idle} \cup Outage!Flights]
  <2>1. CASE Outage!SampleHealth(s)
    <3>1. /\ probes' = [probes EXCEPT ![s] = [[@ EXCEPT !["health"] = Outage!HealthAnswers] EXCEPT !.step = "heard"]]
          /\ shedding' = shedding
      BY <2>1 DEF Outage!SampleHealth, Outage!Answered
    <3>2. probes'[s] = [probes[s] EXCEPT !.health = Outage!HealthAnswers, !.step = "heard"]
      BY <1>0, <1>2, <3>1 DEF Outage!Flights
    <3>3. probes'[s] \in Outage!Flights /\ Kept(probes[s], probes'[s])
      BY <1>2, <1>3, <3>2 DEF Outage!Flights, Kept
    <3> QED BY <1>0, <3>1, <3>3
  <2>2. CASE Outage!SampleRead(s)
    <3>1. /\ probes' = [probes EXCEPT ![s] = [[@ EXCEPT !["read"] = Outage!BoardAnswers] EXCEPT !.step = "anonymous"]]
          /\ shedding' = shedding
      BY <2>2 DEF Outage!SampleRead, Outage!Answered
    <3>2. probes'[s] = [probes[s] EXCEPT !.read = Outage!BoardAnswers, !.step = "anonymous"]
      BY <1>0, <1>2, <3>1 DEF Outage!Flights
    <3>3. probes'[s] \in Outage!Flights /\ Kept(probes[s], probes'[s])
      BY <1>2, <1>3, <3>2 DEF Outage!Flights, Kept
    <3> QED BY <1>0, <3>1, <3>3
  <2>3. CASE Outage!Watchdog(s)
    <3>1. /\ probes' = [probes EXCEPT ![s].step = "read"] /\ shedding' = ~probes[s].health
      BY <2>3 DEF Outage!Watchdog
    <3>2. probes'[s] = [probes[s] EXCEPT !.step = "read"]
      BY <1>0, <3>1
    <3>3. probes'[s] \in Outage!Flights /\ Kept(probes[s], probes'[s])
      BY <1>2, <3>2 DEF Outage!Flights, Kept
    <3> QED BY <1>0, <1>2, <3>1, <3>3
  <2>4. CASE Outage!SampleAnonymous(s)
    <3> DEFINE base == IF Outage!AnonymousWrite = "stored" THEN Outage!Pushed ELSE probes
    <3>1. /\ probes[s].step = "anonymous" /\ shedding' = shedding
          /\ probes' = [base EXCEPT ![s].step = "token", ![s].anonymous = Outage!AnonymousWrite]
      BY <2>4 DEF Outage!SampleAnonymous
    <3>2. Outage!Pushed[s] = probes[s]
      BY <3>1 DEF Outage!Pushed
    <3>3. /\ base \in [OutageSlots -> {Outage!Idle} \cup Outage!Flights] /\ base[s] = probes[s]
          /\ \A q \in OutageSlots : base[q] \in {probes[q], Outage!Pushed[q]}
      BY <1>0, <1>4, <3>2
    <3> HIDE DEF base
    <3>4. /\ probes'[s] = [probes[s] EXCEPT !.step = "token", !.anonymous = Outage!AnonymousWrite]
          /\ \A q \in OutageSlots \ {s} : probes'[q] = base[q]
          /\ probes' = [base EXCEPT ![s] = probes'[s]]
      BY <1>2, <3>1, <3>3
    <3>5. probes'[s] \in Outage!Flights /\ Kept(probes[s], probes'[s])
      BY <1>2, <1>3, <3>4 DEF Outage!Flights, Kept
    <3> QED BY <1>0, <3>1, <3>3, <3>4, <3>5
  <2>5. CASE Outage!SampleToken(s)
    <3> DEFINE base == IF Outage!TokenWrites THEN Outage!Pushed ELSE probes
               kept == IF Outage!TokenWrites THEN OutageLedger ELSE 0
    <3>1. /\ probes[s].step = "token" /\ shedding' = shedding
          /\ probes' = [base EXCEPT ![s].step = "done", ![s].kept = kept]
      BY <2>5 DEF Outage!SampleToken
    <3>2. Outage!Pushed[s] = probes[s]
      BY <3>1 DEF Outage!Pushed
    <3>3. /\ base \in [OutageSlots -> {Outage!Idle} \cup Outage!Flights] /\ base[s] = probes[s]
          /\ \A q \in OutageSlots : base[q] \in {probes[q], Outage!Pushed[q]}
          /\ kept \in 0..OutageLedger
      BY <1>0, <1>4, <3>2, OutageBounds
    <3> HIDE DEF base, kept
    <3>4. /\ probes'[s] = [probes[s] EXCEPT !.step = "done", !.kept = kept]
          /\ \A q \in OutageSlots \ {s} : probes'[q] = base[q]
          /\ probes' = [base EXCEPT ![s] = probes'[s]]
      BY <1>2, <3>1, <3>3
    <3>5. probes'[s] \in Outage!Flights /\ Kept(probes[s], probes'[s])
      BY <1>2, <3>3, <3>4 DEF Outage!Flights, Kept
    <3> QED BY <1>0, <3>1, <3>3, <3>4, <3>5
  <2> QED BY <2>1, <2>2, <2>3, <2>4, <2>5
<1>6. probes' \in [OutageSlots -> {Outage!Idle} \cup Outage!Flights]
  BY <1>5
<1>7. Outage!TypeOK'
  BY <1>1, <1>5, <1>6 DEF OutageInv, Outage!TypeOK
<1>8. \A q \in OutageSlots :
          probes'[q] = Outage!Idle \/ (probes[q] # Outage!Idle /\ Kept(probes[q], probes'[q]))
  <2>1. \A q \in OutageSlots : Kept(probes[q], probes[q])
    BY DEF Kept
  <2> QED BY <1>2, <1>4, <1>5, <2>1, OutageIdle
<1>9. FlightsTrue'
  BY <1>1, <1>7, <1>8, MovedOn
<1>10. LastTrue' /\ Outage!RestartUnderFix'
  BY <1>1 DEF OutageInv, LastTrue, TrueOf, Outage!RestartUnderFix
<1> QED BY <1>7, <1>9, <1>10 DEF OutageInv

LEMMA FinishOutage ==
    ASSUME OutageInv, NEW s \in OutageSlots, Outage!Finish(s)
    PROVE  OutageInv'
<1> DEFINE new == [revision |-> probes[s].revision, shedding |-> shedding,
         health |-> probes[s].health, read |-> probes[s].read,
         anonymous |-> probes[s].anonymous, landed |-> probes[s].kept > 0,
         edited |-> probes[s].edited]
<1>1. /\ probes[s].step = "done"
      /\ probes' = [probes EXCEPT ![s] = Outage!Idle]
      /\ lastProbe' = new
      /\ UNCHANGED <<rules, changes, shedding, lastDigest, output, restarted>>
      /\ IF probes[s].for = "restart"
         THEN /\ restart' = rules
              /\ healed' = Outage!Entered(Outage!ServiceRestored' /\ Outage!AuthEnforced' /\ Outage!DigestOk')
         ELSE UNCHANGED <<restart, healed>>
  BY DEF Outage!Finish
<1>2. probes \in [OutageSlots -> {Outage!Idle} \cup Outage!Flights]
  BY DEF OutageInv, Outage!TypeOK
<1>3. probes[s] \in Outage!Flights /\ probes[s] # Outage!Idle
  BY <1>1, <1>2, OutageIdle
<1>4. new \in Outage!Measured
  <2>1. (probes[s].kept > 0) \in BOOLEAN
    OBVIOUS
  <2> QED BY <1>3 DEF OutageInv, Outage!TypeOK, Outage!Flights, Outage!Measured
<1>5. /\ new.revision = probes[s].revision /\ new.health = probes[s].health
      /\ new.read = probes[s].read /\ new.anonymous = probes[s].anonymous
      /\ new.edited = probes[s].edited
  OBVIOUS
<1> HIDE DEF new
<1>6. healed' = healed \/ (/\ healed' = healed \cup {rules} /\ probes[s].for = "restart"
                           /\ Outage!ServiceRestored')
  BY <1>1 DEF Outage!Entered
<1>7. Outage!TypeOK'
  <2>1. probes' \in [OutageSlots -> {Outage!Idle} \cup Outage!Flights]
    BY <1>1, <1>2
  <2>2. restart' \in OutagePolicies \cup {None} /\ healed' \subseteq OutagePolicies
    BY <1>1, <1>6 DEF OutageInv, Outage!TypeOK
  <2> QED BY <1>1, <1>4, <2>1, <2>2 DEF OutageInv, Outage!TypeOK
<1>8. FlightsTrue'
  <2>1. \A q \in OutageSlots :
          probes'[q] = Outage!Idle \/ (probes[q] # Outage!Idle /\ Kept(probes[q], probes'[q]))
    BY <1>1, <1>2 DEF Kept
  <2> QED BY <1>1, <1>7, <2>1, MovedOn
<1>9. LastTrue'
  <2>1. ~probes[s].edited => TrueOf(probes[s])
    BY <1>3 DEF OutageInv, FlightsTrue
  <2> QED BY <1>1, <1>5, <2>1 DEF LastTrue, TrueOf
<1>10. Outage!RestartUnderFix'
  <2>1. CASE healed' = healed
    BY <1>1, <2>1 DEF OutageInv, Outage!RestartUnderFix
  <2>2. CASE /\ healed' = healed \cup {rules} /\ probes[s].for = "restart"
             /\ Outage!ServiceRestored'
    <3>1. lastProbe'.revision = rules
      BY <1>1, <2>2 DEF Outage!ServiceRestored, Outage!Fresh
    <3>2. probes[s].revision = rules
      BY <1>1, <1>5, <3>1
    <3>3. rules \in restarted
      BY <1>3, <2>2, <3>2 DEF OutageInv, FlightsTrue
    <3> QED BY <1>1, <2>2, <3>3 DEF OutageInv, Outage!RestartUnderFix
  <2> QED BY <1>6, <2>1, <2>2
<1> QED BY <1>7, <1>8, <1>9, <1>10 DEF OutageInv

LEMMA EditOutage ==
    ASSUME OutageInv, NEW p \in OutagePolicies, Outage!Edit(p)
    PROVE  OutageInv'
<1>1. /\ changes < OutageChanges /\ changes' = changes + 1 /\ rules' = p
      /\ probes' = [s \in OutageSlots |->
           IF probes[s] = Outage!Idle THEN Outage!Idle ELSE [probes[s] EXCEPT !.edited = TRUE]]
      /\ UNCHANGED <<shedding, lastProbe, lastDigest, output, restart, healed, restarted>>
  BY DEF Outage!Edit
<1>2. changes \in Nat /\ changes' \in 0..OutageChanges
  BY <1>1, OutageBounds DEF OutageInv, Outage!TypeOK
<1>3. \A s \in OutageSlots :
          \/ probes'[s] = Outage!Idle
          \/ /\ probes[s] # Outage!Idle /\ probes'[s] \in Outage!Flights /\ probes'[s].edited
             /\ probes'[s].for = probes[s].for /\ probes'[s].revision = probes[s].revision
  <2> SUFFICES ASSUME NEW s \in OutageSlots, probes[s] # Outage!Idle
               PROVE  /\ probes'[s] \in Outage!Flights /\ probes'[s].edited
                      /\ probes'[s].for = probes[s].for
                      /\ probes'[s].revision = probes[s].revision
    BY <1>1
  <2>1. probes[s] \in Outage!Flights
    BY InFlight DEF OutageInv
  <2>2. probes'[s] = [probes[s] EXCEPT !.edited = TRUE]
    BY <1>1
  <2> QED BY <2>1, <2>2 DEF Outage!Flights
<1>4. Outage!TypeOK'
  <2>1. probes' \in [OutageSlots -> {Outage!Idle} \cup Outage!Flights]
    <3>1. \A s \in OutageSlots : probes'[s] \in {Outage!Idle} \cup Outage!Flights
      BY <1>3
    <3> QED BY <1>1, <3>1
  <2> QED BY <1>1, <1>2, <2>1 DEF OutageInv, Outage!TypeOK
<1>5. FlightsTrue'
  BY <1>1, <1>3 DEF OutageInv, FlightsTrue
<1>6. LastTrue' /\ Outage!RestartUnderFix'
  BY <1>1 DEF OutageInv, LastTrue, TrueOf, Outage!RestartUnderFix
<1> QED BY <1>4, <1>5, <1>6 DEF OutageInv

LEMMA RestartOutage ==
    ASSUME OutageInv, NEW s \in OutageSlots, Outage!Restart(s)
    PROVE  OutageInv'
<1>1. /\ probes[s] = Outage!Idle
      /\ changes < OutageChanges /\ changes' = changes + 1
      /\ shedding' = FALSE /\ lastProbe' = None /\ Outage!RunDigest
      /\ probes' = [q \in OutageSlots |->
           IF q = s THEN Outage!Begin(s, "restart")[s]
           ELSE IF probes[q] = Outage!Idle THEN Outage!Idle ELSE [probes[q] EXCEPT !.kept = 0]]
      /\ restarted' = restarted \cup {rules}
      /\ UNCHANGED <<rules, restart, healed>>
  BY DEF Outage!Restart
<1>2. changes \in Nat /\ changes' \in 0..OutageChanges
  BY <1>1, OutageBounds DEF OutageInv, Outage!TypeOK
<1>3. /\ probes'[s] \in Outage!Flights /\ probes'[s].revision = rules
      /\ ~probes'[s].health /\ ~probes'[s].read /\ probes'[s].anonymous # "unauthorized"
  BY <1>1, BegunProbe DEF OutageInv, Outage!Purposes
<1>4. \A q \in OutageSlots \ {s} :
          \/ probes'[q] = Outage!Idle
          \/ /\ probes[q] # Outage!Idle /\ probes'[q] \in Outage!Flights
             /\ Kept(probes[q], probes'[q])
  <2> SUFFICES ASSUME NEW q \in OutageSlots \ {s}, probes[q] # Outage!Idle
               PROVE  probes'[q] \in Outage!Flights /\ Kept(probes[q], probes'[q])
    BY <1>1
  <2>1. probes[q] \in Outage!Flights
    BY InFlight DEF OutageInv
  <2>2. probes'[q] = [probes[q] EXCEPT !.kept = 0]
    BY <1>1
  <2>3. 0 \in 0..OutageLedger
    BY OutageBounds
  <2> QED BY <2>1, <2>2, <2>3 DEF Outage!Flights, Kept
<1>5. Outage!TypeOK'
  <2>1. probes' \in [OutageSlots -> {Outage!Idle} \cup Outage!Flights]
    <3>1. \A q \in OutageSlots : probes'[q] \in {Outage!Idle} \cup Outage!Flights
      BY <1>3, <1>4
    <3> QED BY <1>1, <3>1
  <2>2. {lastDigest', output'} \subseteq OutagePolicies \cup {None}
    BY <1>1, JobTypes DEF OutageInv
  <2> QED BY <1>1, <1>2, <2>1, <2>2 DEF OutageInv, Outage!TypeOK
<1>6. FlightsTrue'
  BY <1>1, <1>3, <1>4, <1>5, MovedOn
<1>7. LastTrue' /\ Outage!RestartUnderFix'
  BY <1>1 DEF OutageInv, LastTrue, Outage!RestartUnderFix
<1> QED BY <1>5, <1>6, <1>7 DEF OutageInv

LEMMA OutageStart == Outage!Init => OutageInv
<1> SUFFICES ASSUME Outage!Init PROVE OutageInv
  OBVIOUS
<1>1. Outage!TypeOK
  <2>1. 0 \in 0..OutageChanges
    BY OutageBounds
  <2> QED BY <2>1, OutageBounds DEF Outage!Init, Outage!TypeOK
<1>2. FlightsTrue /\ LastTrue /\ Outage!RestartUnderFix
  BY DEF Outage!Init, FlightsTrue, LastTrue, Outage!RestartUnderFix
<1> QED BY <1>1, <1>2 DEF OutageInv

LEMMA OutageStep == OutageInv /\ [Outage!Next]_recoverVars => OutageInv'
<1> SUFFICES ASSUME OutageInv, [Outage!Next]_recoverVars PROVE OutageInv'
  OBVIOUS
<1>1. CASE Outage!RunJob
  <2>1. /\ UNCHANGED <<rules, changes, shedding, probes, lastProbe, restart, healed, restarted>>
        /\ {lastDigest', output'} \subseteq OutagePolicies \cup {None}
    BY <1>1, JobTypes DEF OutageInv, Outage!RunJob
  <2>2. Outage!TypeOK'
    BY <2>1 DEF OutageInv, Outage!TypeOK
  <2>3. FlightsTrue' /\ LastTrue' /\ Outage!RestartUnderFix'
    BY <2>1 DEF OutageInv, FlightsTrue, LastTrue, TrueOf, Outage!RestartUnderFix
  <2> QED BY <2>2, <2>3 DEF OutageInv
<1>2. CASE UNCHANGED recoverVars
  BY <1>2 DEF recoverVars, OutageInv, Outage!TypeOK, FlightsTrue, LastTrue, TrueOf,
              Outage!RestartUnderFix
<1> QED BY <1>1, <1>2, BeginOutage, SampleOutage, FinishOutage, EditOutage, RestartOutage
        DEF Outage!Next

LEMMA OutageAlone == [WatchNext]_watchVars => [Outage!Next]_recoverVars
BY DEF WatchNext, watchVars

\* However probes overlap and restarts come between, a probe that nobody edited under tells
\* the truth about the policy in force, and a ledger entry calls healthy only a policy
\* that a restart began under (recover.mjs:697-772, 1240-1247).
THEOREM OutageIsTold == WatchSpec => []RecoverSafe
<1>1. WatchInit => OutageInv
  BY OutageStart DEF WatchInit
<1>2. OutageInv /\ [WatchNext]_watchVars => OutageInv'
  BY OutageStep, OutageAlone
<1>3. OutageInv => RecoverSafe
  <2>1. OutageInv => Outage!GatesTrue
    BY DEF OutageInv, LastTrue, TrueOf, Outage!GatesTrue, Outage!ServiceRestored,
           Outage!AuthEnforced, Outage!Fresh
  <2> QED BY <2>1 DEF OutageInv, RecoverSafe, Outage!RecoverSafe
<1> QED BY <1>1, <1>2, <1>3, PTL DEF WatchSpec

-----------------------------------------------------------------------------
(* The portal of "safe-exposure".                                          *)

PortalInv ==
    /\ Portal!TypeOK
    /\ policy # None =>
           policy = [defaultEffect |-> policy.defaultEffect, rules |-> policy.rules]
    /\ Portal!SignedWhole

LEMMA PortalBounds ==
    /\ \A document \in PortalStarting :
        /\ document = [defaultEffect |-> document.defaultEffect, rules |-> document.rules]
        /\ document.defaultEffect \in {"allow", "deny"}
    /\ None \notin Portal!accounts
    /\ None \notin Portal!Seeds
    /\ \A who \in Portal!accounts, v \in Portal!Visibilities : None # Portal!Created(who, v)
    /\ PortalEdits \in Nat
BY WatchBounds DEF Portal!ExposureDocuments, Portal!ExposureNone, Portal!ExposureBounds

\* What the requirements can tell of two callers and two drafts.
SameSight(w1, d1, w2, d2) ==
    /\ w1 # None /\ w2 # None /\ d1 # None /\ d2 # None
    /\ w1.role = w2.role
    /\ \/ w1.subject = w2.subject
       \/ /\ w1.subject \in {"sre-anzu", "pm-kenji"} /\ w2.subject \in {"sre-anzu", "pm-kenji"}
          /\ ~Portal!Singled
    /\ d1.owner = w1.subject <=> d2.owner = w2.subject
    /\ d1.tenant = w1.tenant <=> d2.tenant = w2.tenant
    /\ d1.visibility = "team" <=> d2.visibility = "team"

\* A document decides by what its own rules require.
LEMMA SameRules ==
    ASSUME NEW w1, NEW d1, NEW w2, NEW d2,
           \A i \in DOMAIN policy.rules : \A requirement \in policy.rules[i].require :
               Portal!Satisfies(requirement, w1, d1) <=> Portal!Satisfies(requirement, w2, d2)
    PROVE  Portal!Allowed("GET", "draft", w1, d1) <=> Portal!Allowed("GET", "draft", w2, d2)
<1>1. \A i \in DOMAIN policy.rules :
          Portal!Matches(policy.rules[i], "GET", "draft", w1, d1)
              <=> Portal!Matches(policy.rules[i], "GET", "draft", w2, d2)
  BY DEF Portal!Matches
<1>2. {i \in DOMAIN policy.rules : Portal!Matches(policy.rules[i], "GET", "draft", w1, d1)}
        = {i \in DOMAIN policy.rules : Portal!Matches(policy.rules[i], "GET", "draft", w2, d2)}
  BY <1>1
<1> QED BY <1>2 DEF Portal!Allowed

\* No document, whatever its rules are, can treat them differently.
LEMMA SameAnswer ==
    ASSUME NEW w1, NEW d1, NEW w2, NEW d2, SameSight(w1, d1, w2, d2)
    PROVE  Portal!Allowed("GET", "draft", w1, d1) <=> Portal!Allowed("GET", "draft", w2, d2)
<1>1. ASSUME NEW i \in DOMAIN policy.rules, NEW requirement \in policy.rules[i].require
      PROVE  Portal!Satisfies(requirement, w1, d1) <=> Portal!Satisfies(requirement, w2, d2)
  <2>1. CASE w1.subject = w2.subject
    BY <2>1 DEF SameSight, Portal!Satisfies
  <2>2. CASE /\ w1.subject \in {"sre-anzu", "pm-kenji"} /\ w2.subject \in {"sre-anzu", "pm-kenji"}
             /\ ~Portal!Singled
    <3>1. requirement # "subject:sre-anzu" /\ requirement # "subject:pm-kenji"
      BY <2>2 DEF Portal!Singled
    <3> QED BY <2>2, <3>1 DEF SameSight, Portal!Satisfies
  <2> QED BY <2>1, <2>2 DEF SameSight
<1> QED BY <1>1, SameRules

\* A caller without a key is told of a draft that it is shared, or that it is not.
LEMMA SameForNobody ==
    ASSUME NEW d1, NEW d2, d1 # None, d2 # None,
           d1.visibility = "team" <=> d2.visibility = "team"
    PROVE  Portal!Allowed("GET", "draft", None, d1) <=> Portal!Allowed("GET", "draft", None, d2)
<1>1. \A requirement :
          Portal!Satisfies(requirement, None, d1) <=> Portal!Satisfies(requirement, None, d2)
  BY DEF Portal!Satisfies
<1> QED BY <1>1, SameRules

\* The accounts and the drafts the portal ships with, field by field.
LEMMA AccountFields ==
    /\ Portal!anzu.subject = "sre-anzu" /\ Portal!anzu.tenant = "tenka" /\ Portal!anzu.role = "member"
    /\ Portal!kenji.subject = "pm-kenji" /\ Portal!kenji.tenant = "tenka" /\ Portal!kenji.role = "member"
    /\ Portal!mika.subject = "mika-hoshino" /\ Portal!mika.tenant = "hoshino"
    /\ Portal!mika.role = "member"
    /\ Portal!daichi.subject = "cto-daichi" /\ Portal!daichi.tenant = "tenka"
    /\ Portal!daichi.role = "admin"
BY DEF Portal!anzu, Portal!kenji, Portal!mika, Portal!daichi, Portal!Account

LEMMA MembersAre == Portal!Members = {Portal!anzu, Portal!kenji, Portal!mika}
<1>1. Portal!anzu # Portal!daichi /\ Portal!kenji # Portal!daichi /\ Portal!mika # Portal!daichi
  BY AccountFields
<1> QED BY <1>1 DEF Portal!Members, Portal!accounts

LEMMA DraftFields ==
    ASSUME NEW name, NEW owner, NEW visibility
    PROVE  LET draft == Portal!Draft(name, owner, visibility)
           IN  draft.owner = owner.subject /\ draft.tenant = owner.tenant
                   /\ draft.visibility = visibility
BY DEF Portal!Draft

LEMMA SeedFields ==
    /\ Portal!AnzuPrivate.owner = "sre-anzu" /\ Portal!AnzuPrivate.tenant = "tenka"
    /\ Portal!AnzuPrivate.visibility = "private"
    /\ Portal!KenjiPrivate.owner = "pm-kenji" /\ Portal!KenjiPrivate.tenant = "tenka"
    /\ Portal!KenjiPrivate.visibility = "private"
    /\ Portal!TeamRunbook.owner = "pm-kenji" /\ Portal!TeamRunbook.tenant = "tenka"
    /\ Portal!TeamRunbook.visibility = "team"
    /\ Portal!HoshinoContract.owner = "mika-hoshino" /\ Portal!HoshinoContract.tenant = "hoshino"
    /\ Portal!HoshinoContract.visibility = "private"
BY DraftFields, AccountFields
   DEF Portal!AnzuPrivate, Portal!KenjiPrivate, Portal!TeamRunbook, Portal!HoshinoContract

LEMMA CreatedFields ==
    \A who, v : /\ Portal!Created(who, v).owner = who.subject
                /\ Portal!Created(who, v).tenant = who.tenant
                /\ Portal!Created(who, v).visibility = v
BY DraftFields DEF Portal!Created

\* Every draft is somebody's, in their tenant.
LEMMA DraftsAre ==
    ASSUME Portal!TypeOK, NEW draft \in drafts
    PROVE  /\ draft # None
           /\ draft.visibility \in {"private", "team"}
           /\ \/ draft.owner \in {"sre-anzu", "pm-kenji", "cto-daichi"} /\ draft.tenant = "tenka"
              \/ draft.owner = "mika-hoshino" /\ draft.tenant = "hoshino"
<1>1. CASE draft \in Portal!Seeds
  BY <1>1, PortalBounds, SeedFields DEF Portal!Seeds
<1>2. CASE draft \in {Portal!Created(w, v) : w \in Portal!accounts, v \in Portal!Visibilities}
  <2>1. PICK w \in Portal!accounts, v \in Portal!Visibilities : draft = Portal!Created(w, v)
    BY <1>2
  <2> QED BY <2>1, PortalBounds, CreatedFields, AccountFields
          DEF Portal!accounts, Portal!Visibilities
<1> QED BY <1>1, <1>2 DEF Portal!TypeOK

\* A read that is answered or refused shows the decision.
LEMMA ReadShows ==
    ASSUME NEW who \in Portal!accounts, NEW draft \in drafts, draft # None, policy # None
    PROVE  /\ Portal!Read(who, draft) = 200 => Portal!Allowed("GET", "draft", who, draft)
           /\ Portal!Read(who, draft) = 403 => ~Portal!Allowed("GET", "draft", who, draft)
<1>1. who # None
  BY PortalBounds
<1>2. Portal!Read(who, draft) = Portal!Status("GET", "draft", who, draft)
  BY DEF Portal!Read
<1> QED BY <1>1, <1>2 DEF Portal!Status

\* A read without a key that is refused shows the decision.
LEMMA NobodyShows ==
    ASSUME NEW draft \in drafts, draft # None, policy # None, Portal!Read(None, draft) = 401
    PROVE  ~Portal!Allowed("GET", "draft", None, draft)
BY DEF Portal!Read, Portal!Status

\* The list is the reads of what there is.
LEMMA ListShows ==
    ASSUME Portal!DraftsScoped, NEW draft \in drafts,
           Portal!Allowed("GET", "draft", Portal!anzu, draft)
    PROVE  draft.owner = "sre-anzu" \/ (draft.tenant = "tenka" /\ draft.visibility = "team")
<1>1. draft \in Portal!Listed(Portal!anzu, Portal!Remaining)
  BY DEF Portal!Listed, Portal!Remaining
<1> QED BY <1>1 DEF Portal!DraftsScoped

\* Under a document the gates pass, what the probes read shows what is read.
LEMMA ReadyReads ==
    ASSUME Portal!TypeOK, Portal!Ready
    PROVE  Portal!ReadsRight
<1> DEFINE A(who, draft) == Portal!Allowed("GET", "draft", who, draft)
           Own(who, draft) == draft.owner = who.subject
           Teams(who, draft) == draft.tenant = who.tenant /\ draft.visibility = "team"
<1>1. /\ Portal!Seeds \subseteq drafts /\ policy # None /\ Portal!DraftsScoped
  BY DEF Portal!Ready, Portal!AdminAvailable
<1>2. /\ {Portal!AnzuPrivate, Portal!KenjiPrivate, Portal!TeamRunbook, Portal!HoshinoContract}
             \subseteq drafts
      /\ {Portal!anzu, Portal!kenji, Portal!mika} \subseteq Portal!accounts
  BY <1>1 DEF Portal!Seeds, Portal!accounts
<1>3. /\ None \notin {Portal!anzu, Portal!kenji, Portal!mika}
      /\ None \notin {Portal!AnzuPrivate, Portal!KenjiPrivate, Portal!TeamRunbook, Portal!HoshinoContract}
  BY PortalBounds, <1>2 DEF Portal!Seeds
<1>4. /\ A(Portal!anzu, Portal!AnzuPrivate) /\ A(Portal!kenji, Portal!KenjiPrivate)
      /\ A(Portal!mika, Portal!HoshinoContract) /\ A(Portal!anzu, Portal!TeamRunbook)
  BY <1>1, <1>2, <1>3, ReadShows DEF Portal!Ready, Portal!ServiceIntact
<1>5. /\ ~A(Portal!anzu, Portal!KenjiPrivate) /\ ~A(Portal!anzu, Portal!HoshinoContract)
      /\ ~A(Portal!mika, Portal!AnzuPrivate) /\ ~A(Portal!mika, Portal!TeamRunbook)
  BY <1>1, <1>2, <1>3, ReadShows DEF Portal!Ready, Portal!DraftsScoped, Portal!Scoped
<1>6. ~A(None, Portal!AnzuPrivate)
  BY <1>1, <1>2, <1>3, NobodyShows DEF Portal!DraftsScoped, Portal!Scoped
<1> SUFFICES ASSUME NEW draft \in drafts
             PROVE  /\ \A who \in Portal!Members :
                          /\ Own(who, draft) /\ ~Teams(who, draft) => A(who, draft)
                          /\ ~(who = Portal!kenji /\ Portal!Singled)
                                 /\ ~(Own(who, draft) /\ Teams(who, draft))
                                 => (A(who, draft) <=> Own(who, draft) \/ Teams(who, draft))
                    /\ draft.visibility = "private" => ~A(None, draft)
  BY DEF Portal!ReadsRight
<1>7. /\ draft # None
      /\ draft.visibility \in {"private", "team"}
      /\ \/ draft.owner \in {"sre-anzu", "pm-kenji", "cto-daichi"} /\ draft.tenant = "tenka"
         \/ draft.owner = "mika-hoshino" /\ draft.tenant = "hoshino"
  BY DraftsAre
<1>8. A(Portal!anzu, draft) => draft.owner = "sre-anzu" \/ Teams(Portal!anzu, draft)
  BY <1>1, ListShows, AccountFields
<1>9. ASSUME NEW w1, NEW w2, NEW d2, SameSight(w1, draft, w2, d2)
      PROVE  A(w1, draft) <=> A(w2, d2)
  BY <1>9, SameAnswer
<1>10. draft.visibility = "private" => ~A(None, draft)
  <2>1. ASSUME draft.visibility = "private" PROVE A(None, draft) <=> A(None, Portal!AnzuPrivate)
    BY <1>3, <1>7, <2>1, SameForNobody, SeedFields
  <2> QED BY <1>6, <2>1
<1> HIDE DEF A
\* Two of the members are asked of every kind of draft.
<1>11. Own(Portal!anzu, draft) \/ (A(Portal!anzu, draft) <=> Teams(Portal!anzu, draft))
  <2>1. CASE draft.tenant = "tenka" /\ draft.visibility = "team" /\ draft.owner # "sre-anzu"
    <3>1. SameSight(Portal!anzu, draft, Portal!anzu, Portal!TeamRunbook)
      BY <1>3, <1>7, <2>1, SeedFields, AccountFields DEF SameSight
    <3> QED BY <1>4, <1>9, <2>1, <3>1, AccountFields
  <2> QED BY <1>8, <2>1, AccountFields
<1>12. Own(Portal!anzu, draft) /\ ~Teams(Portal!anzu, draft) => A(Portal!anzu, draft)
  <2>1. ASSUME Own(Portal!anzu, draft), ~Teams(Portal!anzu, draft)
        PROVE  SameSight(Portal!anzu, draft, Portal!anzu, Portal!AnzuPrivate)
    BY <1>3, <1>7, <2>1, SeedFields, AccountFields DEF SameSight
  <2> QED BY <1>4, <1>9, <2>1
<1>13. Own(Portal!mika, draft) /\ ~Teams(Portal!mika, draft) => A(Portal!mika, draft)
  <2>1. ASSUME Own(Portal!mika, draft), ~Teams(Portal!mika, draft)
        PROVE  SameSight(Portal!mika, draft, Portal!mika, Portal!HoshinoContract)
    BY <1>3, <1>7, <2>1, SeedFields, AccountFields DEF SameSight
  <2> QED BY <1>4, <1>9, <2>1
<1>14. Own(Portal!mika, draft) \/ (~A(Portal!mika, draft) /\ ~Teams(Portal!mika, draft))
  <2>1. ASSUME ~Own(Portal!mika, draft) PROVE draft.tenant = "tenka" /\ draft.owner # "mika-hoshino"
    BY <1>7, <2>1, AccountFields
  <2>2. ASSUME ~Own(Portal!mika, draft), draft.visibility = "team"
        PROVE  SameSight(Portal!mika, draft, Portal!mika, Portal!TeamRunbook)
    BY <1>3, <1>7, <2>1, <2>2, SeedFields, AccountFields DEF SameSight
  <2>3. ASSUME ~Own(Portal!mika, draft), draft.visibility # "team"
        PROVE  SameSight(Portal!mika, draft, Portal!mika, Portal!AnzuPrivate)
    BY <1>3, <1>7, <2>1, <2>3, SeedFields, AccountFields DEF SameSight
  <2> QED BY <1>5, <1>9, <2>1, <2>2, <2>3, AccountFields
<1>15. Own(Portal!kenji, draft) /\ ~Teams(Portal!kenji, draft) => A(Portal!kenji, draft)
  <2>1. ASSUME Own(Portal!kenji, draft), ~Teams(Portal!kenji, draft)
        PROVE  SameSight(Portal!kenji, draft, Portal!kenji, Portal!KenjiPrivate)
    BY <1>3, <1>7, <2>1, SeedFields, AccountFields DEF SameSight
  <2> QED BY <1>4, <1>9, <2>1
\* Their colleague is treated as sre-anzu is, before a draft of somebody else.
<1>16. Own(Portal!kenji, draft) \/ Portal!Singled
          \/ (A(Portal!kenji, draft) <=> Teams(Portal!kenji, draft))
  <2> SUFFICES ASSUME ~Own(Portal!kenji, draft), ~Portal!Singled
               PROVE  A(Portal!kenji, draft) <=> Teams(Portal!kenji, draft)
    OBVIOUS
  <2>1. CASE draft.tenant = "hoshino"
    <3>1. SameSight(Portal!kenji, draft, Portal!anzu, draft)
      BY <1>3, <1>7, <2>1, AccountFields DEF SameSight
    <3>2. ~A(Portal!anzu, draft)
      BY <1>7, <1>8, <2>1, AccountFields
    <3> QED BY <1>9, <2>1, <3>1, <3>2, AccountFields
  <2>2. CASE draft.tenant = "tenka" /\ draft.visibility = "team"
    <3>1. SameSight(Portal!kenji, draft, Portal!anzu, Portal!TeamRunbook)
      BY <1>3, <1>7, <2>2, SeedFields, AccountFields DEF SameSight
    <3> QED BY <1>4, <1>9, <2>2, <3>1, AccountFields
  <2>3. CASE draft.tenant = "tenka" /\ draft.visibility = "private"
    <3>1. SameSight(Portal!kenji, draft, Portal!anzu, Portal!KenjiPrivate)
      BY <1>3, <1>7, <2>3, SeedFields, AccountFields DEF SameSight
    <3> QED BY <1>5, <1>9, <2>3, <3>1
  <2> QED BY <1>7, <2>1, <2>2, <2>3
<1> HIDE DEF Own, Teams
<1> QED BY <1>10, <1>11, <1>12, <1>13, <1>14, <1>15, <1>16, MembersAre

\* The gates measure what the surfaces answer.
LEMMA ReadyAnswers == Portal!Ready => \A i \in 1..3 : Portal!Answers(Portal!Surfaces[i])
<1> SUFFICES ASSUME Portal!Ready PROVE \A i \in 1..3 : Portal!Answers(Portal!Surfaces[i])
  OBVIOUS
<1>1. Portal!HealthAnswers
  BY DEF Portal!Ready, Portal!ServiceIntact, Portal!HealthAnswers
<1>2. Portal!AdminSurfaceAnswers
  BY DEF Portal!Ready, Portal!AdminAvailable, Portal!AdminSealed, Portal!AdminReads,
         Portal!AdminSurfaceAnswers
<1>3. Portal!DraftSurfaceAnswers
  BY DEF Portal!Ready, Portal!ServiceIntact, Portal!DraftsUsable, Portal!DraftsScoped, Portal!Scoped,
         Portal!DraftSurfaceAnswers
<1>4. /\ Portal!Surfaces[1] = "health" /\ Portal!Surfaces[2] = "admin"
      /\ Portal!Surfaces[3] = "drafts"
  BY DEF Portal!Surfaces
<1>5. \A i \in 1..3 : i = 1 \/ i = 2 \/ i = 3
  OBVIOUS
<1> QED BY <1>1, <1>2, <1>3, <1>4, <1>5 DEF Portal!Answers

LEMMA SurfacesAre ==
    /\ Portal!ToSet(Portal!Surfaces) = {"health", "admin", "drafts", "gates"}
    /\ DOMAIN Portal!Surfaces = 1..4
    /\ \A i \in 1..4 : Portal!Surfaces[i] \in {"health", "admin", "drafts", "gates"}
    /\ Portal!Surfaces[4] = "gates"
<1>1. /\ DOMAIN Portal!Surfaces = 1..4 /\ Portal!Surfaces[1] = "health"
      /\ Portal!Surfaces[2] = "admin" /\ Portal!Surfaces[3] = "drafts"
      /\ Portal!Surfaces[4] = "gates"
  BY DEF Portal!Surfaces
<1>2. \A i \in 1..4 : i = 1 \/ i = 2 \/ i = 3 \/ i = 4
  OBVIOUS
<1> HIDE DEF Portal!Surfaces
<1> QED BY <1>1, <1>2 DEF Portal!ToSet

LEMMA PortalStart == Portal!Init => PortalInv
<1> SUFFICES ASSUME Portal!Init PROVE PortalInv
  OBVIOUS
<1>1. policy = [defaultEffect |-> policy.defaultEffect, rules |-> policy.rules]
      /\ policy.defaultEffect \in {"allow", "deny"}
  BY PortalBounds DEF Portal!Init
<1>2. 0 \in 0..PortalEdits
  BY PortalBounds
<1> QED BY <1>1, <1>2, SurfacesAre DEF Portal!Init, PortalInv, Portal!TypeOK, Portal!SignedWhole

LEMMA PortalStep == PortalInv /\ [Portal!Next]_exposureVars => PortalInv'
<1> SUFFICES ASSUME PortalInv, [Portal!Next]_exposureVars PROVE PortalInv'
  OBVIOUS
<1>0. /\ edits \in 0..PortalEdits
      /\ drafts \subseteq Portal!Seeds \cup
           {Portal!Created(who, v) : who \in Portal!accounts, v \in Portal!Visibilities}
      /\ asking \in {"health", "admin", "drafts", "gates", "none"}
      /\ signed \in {"none", "whole"}
      /\ policy # None =>
           /\ policy = [defaultEffect |-> policy.defaultEffect, rules |-> policy.rules]
           /\ policy.defaultEffect \in {"allow", "deny"}
  BY SurfacesAre DEF PortalInv, Portal!TypeOK, Portal!SignedWhole
<1> SUFFICES
      /\ edits' \in 0..PortalEdits
      /\ drafts' \subseteq Portal!Seeds \cup
           {Portal!Created(who, v) : who \in Portal!accounts, v \in Portal!Visibilities}
      /\ asking' \in {"health", "admin", "drafts", "gates", "none"}
      /\ signed' \in {"none", "whole"}
      /\ policy' # None =>
           /\ policy' = [defaultEffect |-> policy'.defaultEffect, rules |-> policy'.rules]
           /\ policy'.defaultEffect \in {"allow", "deny"}
  BY SurfacesAre DEF PortalInv, Portal!TypeOK, Portal!SignedWhole
<1>1. CASE Portal!SignOff
  BY <1>0, <1>1 DEF Portal!SignOff
<1>2. ASSUME NEW i \in DOMAIN Portal!Surfaces, Portal!Asked(i)
      PROVE  asking' \in {"health", "admin", "drafts", "gates", "none"}
             /\ UNCHANGED <<policy, edits, drafts, signed>>
  <2>1. i \in 1..3
    BY <1>2, SurfacesAre DEF Portal!Asked
  <2>2. Portal!Surfaces[i + 1] \in {"health", "admin", "drafts", "gates"}
    BY <2>1, SurfacesAre
  <2> QED BY <1>2, <2>2 DEF Portal!Asked
<1>3. CASE \E i \in DOMAIN Portal!Surfaces : Portal!Asked(i)
  BY <1>0, <1>2, <1>3
<1>4. CASE Portal!Measured
  <2>1. signed' \in {"none", "whole"}
    BY <1>4, ReadyAnswers DEF Portal!Measured
  <2> QED BY <1>0, <1>4, <2>1 DEF Portal!Measured
<1>5. CASE Portal!Edit
  <2>1. /\ policy # None /\ edits' = edits + 1 /\ edits < PortalEdits
        /\ UNCHANGED <<drafts, asking, signed>>
        /\ \/ \E rules_ \in Portal!Edited : policy' = [policy EXCEPT !.rules = rules_]
           \/ policy' = [policy EXCEPT !.defaultEffect = IF @ = "allow" THEN "deny" ELSE "allow"]
    BY <1>5 DEF Portal!Edit
  <2>2. edits' \in 0..PortalEdits
    BY <1>0, <2>1, PortalBounds
  <2> DEFINE effect == policy.defaultEffect
             held == policy.rules
  <2>3. policy = [defaultEffect |-> effect, rules |-> held] /\ effect \in {"allow", "deny"}
    BY <1>0, <2>1
  <2> HIDE DEF effect, held
  <2>4. CASE \E rules_ \in Portal!Edited : policy' = [policy EXCEPT !.rules = rules_]
    <3>1. PICK rules_ : policy' = [policy EXCEPT !.rules = rules_]
      BY <2>4
    <3>2. policy' = [defaultEffect |-> effect, rules |-> rules_]
      BY <2>3, <3>1
    <3> QED BY <1>0, <2>1, <2>2, <2>3, <3>2
  <2>5. CASE policy' = [policy EXCEPT !.defaultEffect = IF @ = "allow" THEN "deny" ELSE "allow"]
    <3>1. policy' = [defaultEffect |-> IF effect = "allow" THEN "deny" ELSE "allow", rules |-> held]
      BY <2>3, <2>5
    <3> QED BY <1>0, <2>1, <2>2, <2>3, <3>1
  <2> QED BY <2>1, <2>4, <2>5
<1>6. CASE Portal!Replace
  <2>1. edits' \in 0..PortalEdits
    BY <1>6, PortalBounds DEF Portal!Replace
  <2>2. policy' # None =>
           /\ policy' = [defaultEffect |-> policy'.defaultEffect, rules |-> policy'.rules]
           /\ policy'.defaultEffect \in {"allow", "deny"}
    BY <1>6, PortalBounds DEF Portal!Replace
  <2> QED BY <1>0, <1>6, <2>1, <2>2 DEF Portal!Replace
<1>7. CASE \E who \in {Portal!anzu, Portal!mika}, v \in Portal!Visibilities :
              Portal!Post(Portal!Created(who, v), who)
  BY <1>0, <1>7 DEF Portal!Post, Portal!accounts
<1>8. CASE \E who \in {Portal!kenji, Portal!daichi}, draft \in drafts : Portal!Delete(who, draft)
  BY <1>0, <1>8 DEF Portal!Delete
<1>9. CASE UNCHANGED exposureVars
  BY <1>0, <1>9 DEF exposureVars
<1> QED BY <1>1, <1>3, <1>4, <1>5, <1>6, <1>7, <1>8, <1>9 DEF Portal!Next

LEMMA PortalAlone == [WatchNext]_watchVars => [Portal!Next]_exposureVars
BY DEF WatchNext, watchVars

\* Whatever document the participant has arrived at: if the gates pass it, a member the probes
\* ask as reads what is theirs and what their team shares and nothing else, so does their
\* colleague unless a rule singles one of the two out, and nothing private is read without a
\* key; nothing of the business is gone, and a sign-off is of one instant
\* (safe-exposure.mjs:640-985, 1446-1462).
THEOREM ExposureIsSafe == WatchSpec => []ExposureSafe
<1>1. WatchInit => PortalInv
  BY PortalStart DEF WatchInit
<1>2. PortalInv /\ [WatchNext]_watchVars => PortalInv'
  BY PortalStep, PortalAlone
<1>3. PortalInv => ExposureSafe
  <2>1. PortalInv => Portal!ReadsRight
    <3>1. CASE Portal!Ready
      BY <3>1, ReadyReads DEF PortalInv
    <3>2. CASE ~Portal!Ready
      BY <3>2 DEF Portal!ReadsRight
    <3> QED BY <3>1, <3>2
  <2>2. Portal!NothingLost
    BY DEF Portal!NothingLost, Portal!Ready, Portal!AdminAvailable
  <2> QED BY <2>1, <2>2 DEF PortalInv, ExposureSafe, Portal!ExposureSafe
<1> QED BY <1>1, <1>2, <1>3, PTL DEF WatchSpec

-----------------------------------------------------------------------------
(* The relay of "observability".                                           *)

Outcome == {"archived", "dropped"}

\* Lines that may stand in the log in this epoch, under settings that show this detail.
LinesOf(now, shown) ==
    {l \in [epoch : Nat, result : Outcome \cup {"other"}, detail : Archive!Details \cup {"none"}] :
        l.result # "other" => l.epoch <= now /\ (l.epoch = now => l.detail = shown)}

\* How many posts on the board the relay has not looked at.
Waiting == IF Len(posts) <= nextId - 1 - lastRelayed THEN Len(posts) ELSE nextId - 1 - lastRelayed

\* The board holds the last posts there were, without a gap between their ids.
Numbered ==
    /\ posts \in Seq([id : Nat, result : Outcome]) /\ Len(posts) <= nextId - 1
    /\ \A i \in DOMAIN posts : posts[i].id = nextId - Len(posts) + i - 1

ArchiveInv ==
    /\ Archive!TypeOK /\ Numbered
    /\ counted.archived + counted.dropped + evicted + Waiting = nextId - 1
    /\ logged \in Seq(LinesOf(epoch, seen.detail))
    /\ settings # seen => epoch <= ArchiveEpochs
    /\ served = epoch => watched = seen

LEMMA CardSame == \A S : Archive!Cardinality(S) = Cardinality(S)
BY DEF Archive!Cardinality, Cardinality, Archive!IsFiniteSet, IsFiniteSet

LEMMA ArchiveBounds ==
    /\ ArchiveOffered \subseteq Archive!Settings
    /\ ArchiveBoard \in Nat \ {0} /\ ArchivePrologue \in Nat /\ ArchiveLog \in Nat \ {0}
    /\ ArchivePosts \in Nat /\ ArchiveEpochs \in Nat
BY WatchBounds DEF Archive!RelayBounds

\* The last elements of a sequence.
LEMMA TailOf ==
    ASSUME NEW S, NEW s \in Seq(S), NEW n \in 0..Len(s)
    PROVE  /\ SubSeq(s, Len(s) - n + 1, Len(s)) \in Seq(S)
           /\ Len(SubSeq(s, Len(s) - n + 1, Len(s))) = n
           /\ \A i \in 1..n : SubSeq(s, Len(s) - n + 1, Len(s))[i] = s[Len(s) - n + i]
<1>1. Len(s) \in Nat
  OBVIOUS
<1>2. \A i \in Len(s) - n + 1..Len(s) : s[i] \in S
  BY <1>1
<1> QED BY <1>1, <1>2, SubSeqProperties

\* What stands in the log stood there before or is new, and it is never too long.
LEMMA EnteredIn ==
    ASSUME NEW S, NEW lines \in Seq(S), NEW new \in Seq(S)
    PROVE  /\ Archive!Entered(lines, new) \in Seq(S)
           /\ Len(Archive!Entered(lines, new)) <= ArchivePrologue + ArchiveLog
<1> DEFINE all == lines \o new
<1>1. all \in Seq(S) /\ Len(all) \in Nat
  BY ConcatProperties
<1> HIDE DEF all
<1>2. CASE Len(all) <= ArchivePrologue + ArchiveLog
  BY <1>1, <1>2 DEF Archive!Entered, all
<1>3. CASE ~(Len(all) <= ArchivePrologue + ArchiveLog)
  <2> DEFINE front == SubSeq(all, 1, ArchivePrologue)
             back == SubSeq(all, Len(all) - ArchiveLog + 1, Len(all))
  <2>1. ArchivePrologue \in 0..Len(all) /\ ArchiveLog \in 0..Len(all)
    BY <1>1, <1>3, ArchiveBounds
  <2>2. back \in Seq(S) /\ Len(back) = ArchiveLog
    BY <1>1, <2>1, TailOf
  <2>3. \A i \in 1..ArchivePrologue : all[i] \in S
    BY <1>1, <2>1
  <2>4. front \in Seq(S) /\ Len(front) = ArchivePrologue
    BY <1>1, <2>1, <2>3, SubSeqProperties, ArchiveBounds
  <2>5. Archive!Entered(lines, new) = front \o back
    BY <1>3 DEF Archive!Entered, all
  <2> HIDE DEF front, back
  <2> QED BY <2>2, <2>4, <2>5, ConcatProperties, ArchiveBounds
<1> QED BY <1>2, <1>3

\* The posts not considered are the last ones of the board, and as many as are waiting.
LEMMA UnseenAre ==
    ASSUME Numbered, nextId \in Nat, lastRelayed \in 0..nextId - 1
    PROVE  /\ Waiting \in 0..Len(posts)
           /\ Archive!Unseen(lastRelayed) = SubSeq(posts, Len(posts) - Waiting + 1, Len(posts))
           /\ Archive!Unseen(lastRelayed) \in Seq([id : Nat, result : Outcome])
           /\ Len(Archive!Unseen(lastRelayed)) = Waiting
           /\ Waiting > 0 => Archive!Unseen(lastRelayed)[Waiting].id = nextId - 1
<1> DEFINE later == {i \in DOMAIN posts : posts[i].id > lastRelayed}
<1>1. Len(posts) \in Nat /\ DOMAIN posts = 1..Len(posts)
  BY DEF Numbered
<1>2. Waiting \in 0..Len(posts)
  BY <1>1 DEF Waiting, Numbered
<1>3. later = Len(posts) - Waiting + 1..Len(posts)
  <2>1. \A i \in 1..Len(posts) : posts[i].id > lastRelayed <=> i >= Len(posts) - Waiting + 1
    <3> TAKE i \in 1..Len(posts)
    <3>1. posts[i].id = nextId - Len(posts) + i - 1
      BY <1>1 DEF Numbered
    <3> QED BY <1>1, <3>1 DEF Waiting, Numbered
  <2> QED BY <1>1, <1>2, <2>1
<1>4. Cardinality(later) = Waiting
  <2> DEFINE a == Len(posts) - Waiting + 1
             b == Len(posts)
  <2>1. a \in Int /\ b \in Int /\ Waiting = (IF a > b THEN 0 ELSE b - a + 1)
    BY <1>1, <1>2
  <2>2. later = a..b
    BY <1>3
  <2> HIDE DEF a, b, later
  <2>3. Cardinality(a..b) = IF a > b THEN 0 ELSE b - a + 1
    BY <2>1, FS_Interval
  <2> QED BY <2>1, <2>2, <2>3
<1>5. Archive!Unseen(lastRelayed) = SubSeq(posts, Len(posts) - Waiting + 1, Len(posts))
  BY <1>4, CardSame DEF Archive!Unseen
<1>6. posts \in Seq([id : Nat, result : Outcome])
  BY DEF Numbered
<1>7. /\ Archive!Unseen(lastRelayed) \in Seq([id : Nat, result : Outcome])
      /\ Len(Archive!Unseen(lastRelayed)) = Waiting
      /\ \A i \in 1..Waiting : Archive!Unseen(lastRelayed)[i] = posts[Len(posts) - Waiting + i]
  <2>1. /\ SubSeq(posts, Len(posts) - Waiting + 1, Len(posts)) \in Seq([id : Nat, result : Outcome])
        /\ Len(SubSeq(posts, Len(posts) - Waiting + 1, Len(posts))) = Waiting
        /\ \A i \in 1..Waiting :
             SubSeq(posts, Len(posts) - Waiting + 1, Len(posts))[i] = posts[Len(posts) - Waiting + i]
    <3> HIDE DEF later
    <3> QED BY <1>2, <1>6, TailOf
  <2> QED BY <1>5, <2>1
<1>8. ASSUME Waiting > 0 PROVE Archive!Unseen(lastRelayed)[Waiting].id = nextId - 1
  <2>1. Waiting \in 1..Waiting /\ Len(posts) - Waiting + Waiting = Len(posts) /\ Len(posts) \in 1..Len(posts)
    BY <1>1, <1>2, <1>8
  <2>2. Archive!Unseen(lastRelayed)[Waiting] = posts[Len(posts)]
    BY <1>7, <2>1
  <2>3. posts[Len(posts)].id = nextId - Len(posts) + Len(posts) - 1
    BY <1>1, <2>1 DEF Numbered
  <2> QED BY <1>1, <2>2, <2>3
<1> QED BY <1>2, <1>5, <1>7, <1>8

\* Each post of a batch is archived or dropped.
LEMMA OutcomesAdd ==
    ASSUME NEW batch \in Seq([id : Nat, result : Outcome])
    PROVE  /\ Archive!Outcomes(batch, "archived") \in Nat
           /\ Archive!Outcomes(batch, "dropped") \in Nat
           /\ Archive!Outcomes(batch, "archived") + Archive!Outcomes(batch, "dropped") = Len(batch)
<1> DEFINE A == {i \in DOMAIN batch : batch[i].result = "archived"}
           B == {i \in DOMAIN batch : batch[i].result = "dropped"}
<1>1. DOMAIN batch = 1..Len(batch) /\ Len(batch) \in Nat
  OBVIOUS
<1>2. IsFiniteSet(1..Len(batch)) /\ Cardinality(1..Len(batch)) = Len(batch)
  BY <1>1, FS_Interval
<1>3. A \cup B = 1..Len(batch) /\ A \cap B = {}
  <2>1. \A i \in 1..Len(batch) : batch[i] \in [id : Nat, result : Outcome]
    BY ElementOfSeq
  <2>2. \A i \in 1..Len(batch) : batch[i].result \in Outcome
    BY <2>1
  <2> QED BY <1>1, <2>2 DEF Outcome
<1>4. IsFiniteSet(A) /\ IsFiniteSet(B)
  BY <1>1, <1>2, FS_Subset
<1>5. Cardinality(A) \in Nat /\ Cardinality(B) \in Nat
  BY <1>4, FS_CardinalityType
<1>6. Cardinality(A \cup B) = Cardinality(A) + Cardinality(B) - Cardinality(A \cap B)
  BY <1>4, FS_Union
<1>7. Cardinality(A \cap B) = 0
  BY <1>3, FS_EmptySet
<1>8. Archive!Outcomes(batch, "archived") = Cardinality(A) /\ Archive!Outcomes(batch, "dropped") = Cardinality(B)
  BY CardSame DEF Archive!Outcomes
<1> HIDE DEF A, B
<1>9. Cardinality(A) + Cardinality(B) = Len(batch)
  <2>1. Cardinality(A \cup B) = Len(batch)
    BY <1>2, <1>3
  <2> QED BY <1>5, <1>6, <1>7, <2>1
<1> QED BY <1>5, <1>8, <1>9

LEMMA LongerSeq == ASSUME NEW S, NEW T, S \subseteq T, NEW s \in Seq(S) PROVE s \in Seq(T)
OBVIOUS

LEMMA LinesFacts ==
    /\ \A now, shown : Archive!Other \in LinesOf(now, shown)
    /\ \A now \in Nat : \A shown, other : LinesOf(now, shown) \subseteq LinesOf(now + 1, other)
<1>1. \A now, shown : Archive!Other \in LinesOf(now, shown)
  BY DEF LinesOf, Archive!Other
<1>2. ASSUME NEW now \in Nat, NEW shown, NEW other, NEW l \in LinesOf(now, shown)
      PROVE  l \in LinesOf(now + 1, other)
  BY <1>2 DEF LinesOf
<1> QED BY <1>1, <1>2

LEMMA NewLines ==
    ASSUME NEW batch \in Seq([id : Nat, result : Outcome]), NEW now \in Nat, now = Archive!EpochNow,
           settings \in Archive!Settings \cup {Archive!Bad}
    PROVE  Archive!RelayLines(batch) \in Seq(LinesOf(now, settings.detail))
<1>1. settings.detail \in Archive!Details \cup {"none"}
  BY DEF Archive!Settings, Archive!Bad
<1>2. \A i \in DOMAIN batch : batch[i] \in [id : Nat, result : Outcome]
  <2>1. DOMAIN batch = 1..Len(batch)
    OBVIOUS
  <2> QED BY <2>1, ElementOfSeq
<1>3. \A i \in DOMAIN batch :
        [epoch |-> now, result |-> batch[i].result, detail |-> settings.detail]
          \in LinesOf(now, settings.detail)
  BY <1>1, <1>2 DEF LinesOf
<1>4. <<>> \in Seq(LinesOf(now, settings.detail))
  OBVIOUS
<1>5. [i \in DOMAIN batch |->
         [epoch |-> now, result |-> batch[i].result, detail |-> settings.detail]]
        \in Seq(LinesOf(now, settings.detail))
  <2>1. DOMAIN batch = 1..Len(batch) /\ Len(batch) \in Nat
    OBVIOUS
  <2> QED BY <1>3, <2>1
<1> QED BY <1>4, <1>5 DEF Archive!RelayLines

LEMMA ArchiveStart == Archive!Init => ArchiveInv
<1> SUFFICES ASSUME Archive!Init PROVE ArchiveInv
  OBVIOUS
<1> USE ArchiveBounds DEF Archive!Init
<1>1. Archive!TypeOK
  BY DEF Archive!TypeOK
<1>2. Numbered
  BY DEF Numbered
<1>3. Waiting = 0
  BY DEF Waiting
<1> QED BY <1>1, <1>2, <1>3 DEF ArchiveInv

\* What a pump leaves on the board is known, and counted once.
LEMMA PumpArchive ==
    ASSUME ArchiveInv, Archive!Pump,
           \/ served' = served /\ watched' = watched
           \/ served' = Archive!EpochNow /\ watched' = settings
    PROVE  ArchiveInv'
<1> DEFINE batch == Archive!Unseen(lastRelayed)
           now == Archive!EpochNow
           news == IF settings = seen THEN <<>> ELSE <<Archive!Other>>
<1>1. /\ settings \in Archive!Settings \cup {Archive!Bad} /\ Numbered
      /\ epoch \in 0..ArchiveEpochs + 1 /\ served \in 0..epoch
      /\ nextId \in 1..ArchivePosts + 1 /\ lastRelayed \in 0..nextId - 1 /\ evicted \in 0..ArchivePosts
      /\ Len(posts) <= ArchiveBoard
      /\ counted \in [archived : 0..ArchivePosts, dropped : 0..ArchivePosts]
      /\ counted.archived + counted.dropped + evicted + Waiting = nextId - 1
      /\ logged \in Seq(LinesOf(epoch, seen.detail))
      /\ settings # seen => epoch <= ArchiveEpochs
      /\ served = epoch => watched = seen
  BY DEF ArchiveInv, Archive!TypeOK
<1>2. /\ seen' = settings /\ epoch' = now
      /\ lastRelayed' = Archive!Considered(batch)
      /\ counted' = [archived |-> counted.archived + Archive!Outcomes(batch, "archived"),
                     dropped |-> counted.dropped + Archive!Outcomes(batch, "dropped")]
      /\ logged' = Archive!Entered(logged, news \o Archive!RelayLines(batch))
      /\ settings' = settings /\ posts' = posts /\ nextId' = nextId /\ evicted' = evicted
  BY DEF Archive!Pump
<1>3. /\ Waiting \in 0..Len(posts) /\ batch \in Seq([id : Nat, result : Outcome])
      /\ Len(batch) = Waiting /\ (Waiting > 0 => batch[Waiting].id = nextId - 1)
  BY <1>1, UnseenAre
<1>4. Len(posts) \in Nat
  BY <1>1 DEF Numbered
<1>5. now \in 0..ArchiveEpochs + 1 /\ now \in Nat /\ now >= epoch /\ (settings = seen => now = epoch)
      /\ (settings # seen => now = epoch + 1)
  BY <1>1, ArchiveBounds DEF Archive!EpochNow
<1> HIDE DEF now, batch
<1>6. /\ lastRelayed' = IF Waiting = 0 THEN lastRelayed ELSE nextId - 1
  BY <1>2, <1>3, <1>4 DEF Archive!Considered
<1>7. lastRelayed' \in 0..nextId - 1 /\ Waiting' = 0
  BY <1>1, <1>2, <1>3, <1>4, <1>6 DEF Waiting
<1>8. /\ counted' \in [archived : Nat, dropped : Nat]
      /\ counted'.archived + counted'.dropped + evicted' + Waiting' = nextId' - 1
  <2>1. /\ Archive!Outcomes(batch, "archived") \in Nat /\ Archive!Outcomes(batch, "dropped") \in Nat
        /\ Archive!Outcomes(batch, "archived") + Archive!Outcomes(batch, "dropped") = Waiting
    BY <1>3, OutcomesAdd
  <2>2. counted.archived \in Nat /\ counted.dropped \in Nat /\ evicted \in Nat
    BY <1>1
  <2>3. /\ counted'.archived = counted.archived + Archive!Outcomes(batch, "archived")
        /\ counted'.dropped = counted.dropped + Archive!Outcomes(batch, "dropped")
        /\ counted' \in [archived : Nat, dropped : Nat]
    BY <1>2, <2>1, <2>2
  <2>4. evicted' = evicted /\ nextId' = nextId /\ Waiting' = 0 /\ Waiting \in Nat /\ nextId \in Nat
        /\ counted.archived + counted.dropped + evicted + Waiting = nextId - 1
    BY <1>1, <1>2, <1>3, <1>4, <1>7
  <2> HIDE DEF batch
  <2> QED BY <2>1, <2>2, <2>3, <2>4
<1>9. counted' \in [archived : 0..ArchivePosts, dropped : 0..ArchivePosts]
  BY <1>1, <1>2, <1>7, <1>8, ArchiveBounds
<1>10. /\ logged' \in Seq(LinesOf(now, settings.detail))
       /\ Len(logged') <= ArchivePrologue + ArchiveLog
  <2>1. logged \in Seq(LinesOf(now, settings.detail))
    <3>1. LinesOf(epoch, seen.detail) \subseteq LinesOf(now, settings.detail)
      BY <1>1, <1>5, LinesFacts
    <3> QED BY <1>1, <3>1, LongerSeq
  <2>2. news \in Seq(LinesOf(now, settings.detail))
    <3>1. Archive!Other \in LinesOf(now, settings.detail)
      BY LinesFacts
    <3>2. <<Archive!Other>> \in Seq(LinesOf(now, settings.detail))
      BY <3>1
    <3>3. <<>> \in Seq(LinesOf(now, settings.detail))
      OBVIOUS
    <3>4. news = <<>> \/ news = <<Archive!Other>>
      OBVIOUS
    <3> HIDE DEF news
    <3> QED BY <3>2, <3>3, <3>4
  <2>3. Archive!RelayLines(batch) \in Seq(LinesOf(now, settings.detail))
    BY <1>1, <1>3, <1>5, NewLines DEF now
  <2> HIDE DEF news
  <2>4. news \o Archive!RelayLines(batch) \in Seq(LinesOf(now, settings.detail))
    BY <2>2, <2>3, ConcatProperties
  <2> QED BY <1>2, <2>1, <2>4, EnteredIn
<1>11. served' \in 0..epoch' /\ (served' = epoch' => watched' = seen')
  BY <1>1, <1>2, <1>5 DEF now
<1>12. Archive!TypeOK'
  BY <1>1, <1>2, <1>5, <1>7, <1>9, <1>10, <1>11 DEF ArchiveInv, Archive!TypeOK
<1>13. Numbered'
  BY <1>1, <1>2 DEF Numbered
<1> QED BY <1>2, <1>8, <1>10, <1>11, <1>12, <1>13 DEF ArchiveInv

\* A line of no account is entered: the log stays one of this epoch.
LEMMA OtherEntered ==
    ASSUME ArchiveInv, logged' = Archive!Entered(logged, <<Archive!Other>>)
    PROVE  /\ logged' \in Seq(LinesOf(epoch, seen.detail))
           /\ Len(logged') <= ArchivePrologue + ArchiveLog
<1> DEFINE S == LinesOf(epoch, seen.detail)
<1>1. Archive!Other \in S
  BY LinesFacts
<1>2. logged \in Seq(S)
  BY DEF ArchiveInv
<1> HIDE DEF S
<1>3. <<Archive!Other>> \in Seq(S)
  BY <1>1
<1>4. logged' \in Seq(S) /\ Len(logged') <= ArchivePrologue + ArchiveLog
  BY <1>2, <1>3, EnteredIn
<1> QED BY <1>4 DEF S

\* A post that is written is waiting; the one that leaves was counted, or is evicted.
LEMMA PostArchive ==
    ASSUME ArchiveInv, NEW result \in Outcome, Archive!Post(result)
    PROVE  ArchiveInv'
<1> DEFINE new == [id |-> nextId, result |-> result]
           all == Append(posts, new)
<1>1. /\ settings \in Archive!Settings \cup {Archive!Bad}
      /\ nextId \in 1..ArchivePosts /\ lastRelayed \in 0..nextId - 1 /\ evicted \in 0..ArchivePosts
      /\ Len(posts) <= ArchiveBoard /\ Numbered
      /\ counted.archived \in Nat /\ counted.dropped \in Nat
      /\ counted.archived + counted.dropped + evicted + Waiting = nextId - 1
  <2>1. nextId <= ArchivePosts
    BY DEF Archive!Post
  <2> QED BY <2>1, ArchiveBounds DEF ArchiveInv, Archive!TypeOK
<1>2. /\ posts' = IF Len(all) > ArchiveBoard THEN Tail(all) ELSE all
      /\ evicted' = IF Len(all) > ArchiveBoard /\ Head(all).id > lastRelayed THEN evicted + 1 ELSE evicted
      /\ nextId' = nextId + 1 /\ logged' = Archive!Entered(logged, <<Archive!Other>>)
      /\ settings' = settings /\ seen' = seen /\ epoch' = epoch /\ served' = served
      /\ lastRelayed' = lastRelayed /\ counted' = counted /\ watched' = watched
  BY DEF Archive!Post
<1>3. posts \in Seq([id : Nat, result : Outcome]) /\ Len(posts) \in Nat /\ Len(posts) <= nextId - 1
  BY <1>1 DEF Numbered
<1>4. new \in [id : Nat, result : Outcome] /\ new.id = nextId
  BY <1>1
<1>5. /\ all \in Seq([id : Nat, result : Outcome]) /\ Len(all) = Len(posts) + 1
      /\ \A i \in 1..Len(all) : all[i].id = nextId - Len(posts) + i - 1
  <2>1. /\ all \in Seq([id : Nat, result : Outcome]) /\ Len(all) = Len(posts) + 1
        /\ \A i \in 1..Len(posts) : all[i] = posts[i]
        /\ all[Len(posts) + 1] = new
    <3> HIDE DEF new
    <3> QED BY <1>3, <1>4, AppendProperties
  <2> HIDE DEF all
  <2>2. ASSUME NEW i \in 1..Len(all) PROVE all[i].id = nextId - Len(posts) + i - 1
    <3>1. CASE i \in 1..Len(posts)
      <4>1. posts[i].id = nextId - Len(posts) + i - 1
        BY <1>1, <3>1 DEF Numbered
      <4> QED BY <2>1, <3>1, <4>1
    <3>2. CASE i = Len(posts) + 1
      BY <1>1, <1>3, <1>4, <2>1, <3>2
    <3> QED BY <1>3, <2>1, <3>1, <3>2
  <2> QED BY <2>1, <2>2
<1> HIDE DEF all
<1>6. Head(all).id = nextId - Len(posts)
  <2>1. Head(all) = all[1] /\ 1 \in 1..Len(all)
    BY <1>3, <1>5
  <2>2. all[1].id = nextId - Len(posts) + 1 - 1
    BY <1>5, <2>1
  <2> QED BY <1>1, <1>3, <2>1, <2>2
<1>9. /\ nextId \in Nat /\ lastRelayed \in Nat /\ lastRelayed <= nextId - 1 /\ evicted \in Nat
      /\ nextId' = nextId + 1 /\ lastRelayed' = lastRelayed /\ Len(posts) \in Nat
      /\ Len(posts) <= nextId - 1
  BY <1>1, <1>2, <1>3
<1>7. CASE Len(posts) + 1 <= ArchiveBoard
  <2>1. posts' = all /\ evicted' = evicted /\ Len(posts') = Len(posts) + 1
    BY <1>2, <1>3, <1>5, <1>7, ArchiveBounds
  <2>2. Waiting' = Waiting + 1
    BY <1>1, <1>2, <1>3, <2>1 DEF Waiting
  <2>3. Numbered'
    <3>1. Len(posts') \in Nat /\ DOMAIN posts' = 1..Len(posts')
      BY <1>5, <2>1
    <3>2. \A i \in DOMAIN posts' : posts'[i].id = nextId' - Len(posts') + i - 1
      <4> TAKE i \in DOMAIN posts'
      <4>1. i \in 1..Len(all) /\ i \in Nat /\ posts'[i] = all[i] /\ Len(posts') = Len(posts) + 1
        BY <1>5, <1>9, <2>1, <3>1
      <4>2. all[i].id = nextId - Len(posts) + i - 1
        BY <1>5, <4>1
      <4> QED BY <1>9, <4>1, <4>2
    <3>3. posts' \in Seq([id : Nat, result : Outcome])
      BY <1>5, <2>1
    <3>4. Len(posts') <= nextId' - 1
      BY <1>9, <2>1
    <3> QED BY <3>2, <3>3, <3>4 DEF Numbered
  <2>4. Waiting \in Nat /\ Len(posts') <= ArchiveBoard
    BY <1>1, <1>3, <1>7, <2>1 DEF Waiting
  <2>5. /\ counted'.archived + counted'.dropped + evicted' + Waiting' = nextId' - 1
        /\ evicted' \in 0..ArchivePosts
    <3>1. evicted' = evicted /\ nextId' = nextId + 1 /\ counted' = counted
      BY <1>2, <2>1
    <3>2. /\ counted.archived \in Nat /\ counted.dropped \in Nat /\ evicted \in Nat
          /\ evicted \in 0..ArchivePosts
          /\ counted.archived + counted.dropped + evicted + Waiting = nextId - 1
      BY <1>1
    <3>3. counted.archived + counted.dropped + evicted + (Waiting + 1) = (nextId + 1) - 1
      BY <1>9, <2>4, <3>2
    <3> QED BY <2>2, <3>1, <3>2, <3>3
  <2> QED BY <1>1, <1>2, <2>3, <2>4, <2>5, OtherEntered, ArchiveBounds DEF ArchiveInv, Archive!TypeOK
<1>8. CASE Len(posts) = ArchiveBoard
  <2>1. /\ posts' = Tail(all)
        /\ evicted' = IF nextId - Len(posts) > lastRelayed THEN evicted + 1 ELSE evicted
    BY <1>2, <1>3, <1>5, <1>6, <1>8, ArchiveBounds
  <2>2. /\ posts' \in Seq([id : Nat, result : Outcome]) /\ Len(posts') = Len(posts)
        /\ \A i \in 1..Len(posts) : posts'[i] = all[i + 1]
    <3>1. all # <<>> /\ Len(all) - 1 = Len(posts)
      BY <1>3, <1>5
    <3> QED BY <1>5, <2>1, <3>1, HeadTailProperties
  <2>3. Numbered'
    <3>1. DOMAIN posts' = 1..Len(posts)
      BY <2>2
    <3>2. ASSUME NEW i \in 1..Len(posts) PROVE posts'[i].id = nextId' - Len(posts') + i - 1
      <4>1. i + 1 \in 1..Len(all)
        BY <1>3, <1>5
      <4>2. all[i + 1].id = nextId - Len(posts) + (i + 1) - 1
        BY <1>5, <4>1
      <4>3. posts'[i] = all[i + 1] /\ i \in Nat /\ Len(posts') = Len(posts)
        BY <2>2
      <4> QED BY <1>9, <4>2, <4>3
    <3>3. Len(posts') <= nextId' - 1
      BY <1>9, <2>2
    <3> QED BY <2>2, <3>1, <3>2, <3>3 DEF Numbered
  <2>4. Waiting \in Nat /\ Len(posts') <= ArchiveBoard
    BY <1>1, <1>3, <1>8, <2>2 DEF Waiting
  <2>5. evicted' + Waiting' = evicted + Waiting + 1
    <3>1. /\ Waiting' = IF Len(posts) <= nextId - lastRelayed THEN Len(posts) ELSE nextId - lastRelayed
          /\ Waiting = IF Len(posts) <= nextId - 1 - lastRelayed THEN Len(posts)
                       ELSE nextId - 1 - lastRelayed
      BY <1>9, <2>2 DEF Waiting
    <3>2. evicted' = IF nextId - Len(posts) > lastRelayed THEN evicted + 1 ELSE evicted
      BY <2>1
    <3>3. CASE nextId - Len(posts) > lastRelayed
      <4>1. evicted' = evicted + 1 /\ Waiting' = Len(posts) /\ Waiting = Len(posts)
        BY <1>9, <3>1, <3>2, <3>3
      <4> QED BY <1>9, <4>1
    <3>4. CASE ~(nextId - Len(posts) > lastRelayed)
      <4>1. evicted' = evicted /\ Waiting' = nextId - lastRelayed /\ Waiting = nextId - 1 - lastRelayed
        BY <1>9, <3>1, <3>2, <3>4
      <4> QED BY <1>9, <4>1
    <3> QED BY <3>3, <3>4
  <2>6. /\ counted'.archived + counted'.dropped + evicted' + Waiting' = nextId' - 1
        /\ evicted' \in 0..ArchivePosts
    <3>1. Waiting' \in Nat /\ evicted' \in Nat
      <4>1. evicted' = evicted \/ evicted' = evicted + 1
        BY <2>1
      <4>2. Waiting' = IF Len(posts) <= nextId - lastRelayed THEN Len(posts) ELSE nextId - lastRelayed
        BY <1>9, <2>2 DEF Waiting
      <4> QED BY <1>9, <4>1, <4>2
    <3>2. counted' = counted /\ nextId <= ArchivePosts
      BY <1>1, <1>2
    <3>3. counted.archived + counted.dropped + evicted + Waiting = nextId - 1
      BY <1>1
    <3>4. counted.archived \in Nat /\ counted.dropped \in Nat
      BY <1>1
    <3>5. counted.archived + counted.dropped + evicted' + Waiting' = nextId' - 1
      <4>1. Waiting \in Nat /\ nextId' = nextId + 1 /\ evicted \in Nat /\ nextId \in Nat
        BY <1>9, <2>4
      <4>2. /\ counted.archived \in Nat /\ counted.dropped \in Nat
            /\ counted.archived + counted.dropped + evicted + Waiting = nextId - 1
        BY <3>3, <3>4
      <4>3. evicted' + Waiting' = evicted + Waiting + 1
        BY <2>5
      <4>4. evicted' \in Nat /\ Waiting' \in Nat
        BY <3>1
      <4>6. \A f, v \in Nat : f + v = evicted + Waiting + 1 =>
              counted.archived + counted.dropped + f + v = (nextId + 1) - 1
        BY <4>1, <4>2
      <4>5. counted.archived + counted.dropped + evicted' + Waiting' = (nextId + 1) - 1
        BY <4>3, <4>4, <4>6
      <4> QED BY <4>1, <4>5
    <3>6. evicted' <= ArchivePosts
      BY <1>9, <3>1, <3>2, <3>4, <3>5, ArchiveBounds
    <3> QED BY <3>1, <3>2, <3>5, <3>6, ArchiveBounds
  <2> QED BY <1>1, <1>2, <2>3, <2>4, <2>6, OtherEntered, ArchiveBounds DEF ArchiveInv, Archive!TypeOK
<1> QED BY <1>1, <1>3, <1>7, <1>8, ArchiveBounds

LEMMA ChangeArchive ==
    ASSUME ArchiveInv, NEW new \in ArchiveOffered \cup {Archive!Bad}, Archive!Change(new)
    PROVE  ArchiveInv'
<1>1. /\ epoch < ArchiveEpochs /\ settings' = new
      /\ logged' = Archive!Entered(logged, <<Archive!Other>>)
      /\ seen' = seen /\ epoch' = epoch /\ served' = served /\ posts' = posts /\ nextId' = nextId
      /\ lastRelayed' = lastRelayed /\ counted' = counted /\ evicted' = evicted /\ watched' = watched
  BY DEF Archive!Change
<1>2. new \in Archive!Settings \cup {Archive!Bad}
  BY ArchiveBounds
<1>3. Numbered' /\ Waiting' = Waiting
  BY <1>1 DEF ArchiveInv, Numbered, Waiting
<1>4. epoch' <= ArchiveEpochs
  BY <1>1, ArchiveBounds DEF ArchiveInv, Archive!TypeOK
<1> QED BY <1>1, <1>2, <1>3, <1>4, OtherEntered DEF ArchiveInv, Archive!TypeOK

LEMMA RestartArchive == ASSUME ArchiveInv, Archive!Restart PROVE ArchiveInv'
<1> USE ArchiveBounds DEF Archive!Restart, Archive!Fresh
<1>1. Archive!TypeOK'
  BY DEF ArchiveInv, Archive!TypeOK
<1>2. Numbered'
  BY DEF Numbered
<1>3. Waiting' = 0
  BY DEF Waiting
<1> QED BY <1>1, <1>2, <1>3 DEF ArchiveInv

LEMMA ArchiveStep == ArchiveInv /\ [Archive!Next]_relayVars => ArchiveInv'
<1> SUFFICES ASSUME ArchiveInv, [Archive!Next]_relayVars PROVE ArchiveInv'
  OBVIOUS
<1>1. CASE UNCHANGED relayVars
  BY <1>1 DEF relayVars, ArchiveInv, Archive!TypeOK, Numbered, Waiting
<1>2. CASE Archive!Drain
  BY <1>2, PumpArchive DEF Archive!Drain
<1>3. CASE Archive!Health
  BY <1>3, PumpArchive DEF Archive!Health
<1>4. CASE Archive!Restart
  BY <1>4, RestartArchive
<1>5. ASSUME NEW result \in {"archived", "dropped"}, Archive!Post(result) PROVE ArchiveInv'
  BY <1>5, PostArchive DEF Outcome
<1>6. ASSUME NEW new \in ArchiveOffered \cup {Archive!Bad}, Archive!Change(new) PROVE ArchiveInv'
  BY <1>6, ChangeArchive
<1> QED BY <1>1, <1>2, <1>3, <1>4, <1>5, <1>6 DEF Archive!Next

LEMMA ArchiveInvSafe == ArchiveInv => Archive!TypeOK /\ Archive!RelaySafe
<1> SUFFICES ASSUME ArchiveInv PROVE Archive!TypeOK /\ Archive!RelaySafe
  OBVIOUS
<1>1. Archive!TypeOK /\ Numbered
  BY DEF ArchiveInv
<1>2. Archive!Conserved
  <2>1. Len(Archive!Unseen(lastRelayed)) = Waiting
    BY <1>1, UnseenAre DEF Archive!TypeOK
  <2> QED BY <2>1 DEF ArchiveInv, Archive!Conserved
<1>3. \A i \in DOMAIN logged :
        logged[i].result # "other" /\ logged[i].epoch = epoch => logged[i].detail = seen.detail
  <2>1. DOMAIN logged = 1..Len(logged) /\ logged \in Seq(LinesOf(epoch, seen.detail))
    BY DEF ArchiveInv
  <2>2. \A i \in DOMAIN logged : logged[i] \in LinesOf(epoch, seen.detail)
    BY <2>1, ElementOfSeq
  <2> QED BY <2>2 DEF LinesOf
<1>4. \A i \in Archive!EpochLines("archived") \cup Archive!EpochLines("dropped") :
        logged[i].detail = seen.detail
  BY <1>3 DEF Archive!EpochLines
<1>5. ASSUME Archive!Looked, Archive!LeakShut PROVE settings.detail = "safe"
  <2>1. settings = seen /\ settings.logging = "on" /\ Archive!EpochLines("archived") # {}
    BY <1>5 DEF Archive!Looked, Archive!LeakShut
  <2>2. PICK i \in Archive!EpochLines("archived") : logged[i].detail # "minimal"
    BY <1>5 DEF Archive!LeakShut
  <2>3. logged[i].detail \notin {"full", "masked"} /\ logged[i].detail = settings.detail
    BY <1>4, <1>5, <2>1 DEF Archive!LeakShut
  <2>4. settings \in Archive!Settings
    BY <1>1, <2>1 DEF Archive!TypeOK, Archive!Bad
  <2> QED BY <2>2, <2>3, <2>4 DEF Archive!Settings, Archive!Details
<1>6. ASSUME Archive!Looked, Archive!HealthHonest PROVE watched.probes = Archive!Dependencies
  <2>1. watched = settings /\ Archive!Honest(settings.probes)
    BY <1>6 DEF ArchiveInv, Archive!Looked, Archive!HealthHonest
  <2> QED BY <2>1 DEF Archive!Honest, Archive!Healthy, Archive!Dependencies
<1> QED BY <1>1, <1>2, <1>4, <1>5, <1>6
       DEF Archive!RelaySafe, Archive!LeakShutTrue, Archive!HonestServed

\* Only the scenario that was loaded takes steps.
LEMMA ArchiveAlone == [WatchNext]_watchVars => [Archive!Next]_relayVars
BY DEF WatchNext, watchVars

\* Whatever is posted, changed, asked and restarted: every post is counted once, waiting or
\* gone unseen, and the receipts for a log that leaks nothing and for an honest health check
\* are given for what the settings in force do (observability.mjs:219-430).
THEOREM RelayIsSafe == WatchSpec => []RelaySafe
<1>1. WatchInit => ArchiveInv
  BY ArchiveStart DEF WatchInit
<1>2. ArchiveInv /\ [WatchNext]_watchVars => ArchiveInv'
  BY ArchiveStep, ArchiveAlone
<1>3. ArchiveInv => RelaySafe
  BY ArchiveInvSafe DEF RelaySafe
<1> QED BY <1>1, <1>2, <1>3, PTL DEF WatchSpec
===============================================================================
