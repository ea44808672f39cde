-------------------------------- MODULE GameDay --------------------------------
(***************************************************************************)
(* The scorer of the StackStack scenario "gameday" (scenarios/gameday.mjs):  *)
(* a tick that takes the measured facts, awaits the board, the search and    *)
(* the published site, opens phases, charges what has gone dark to an error  *)
(* budget, once rotates the signing key, and keeps the hold of the sign-off. *)
(* The facts are those of the seven imported scenarios; here they are what   *)
(* the participant makes them.                                               *)
(***************************************************************************)
EXTENDS Integers, Sequences, FiniteSets, FiniteSetsExt, SequencesExt

CONSTANTS
    None,
    Facts,      \* what the imported gates measure
    Needs,      \* the facts of each phase
    Secure,     \* the facts of the security fraction
    Plan,       \* when a phase opens whatever the facts say, in ticks of the clock
    OpensAt,    \* the phase from which a probe counts; its verdict is the fact of its name
    Requested,      \* the probes that send a request, in order; the others read the facts
    Hold,       \* how long the sign-off has to hold
    DarkShare,    \* a service may be dark in one armed tick of DarkShare
    MaxTime,    \* bound: the clock
    MaxTicks    \* bound: ticks that measure

Phases == <<"join", "build", "ship", "expose", "attack", "incident", "stabilize">>
PhaseNames == ToSet(Phases)
Probes == DOMAIN OpensAt
PhaseIndex(name) == CHOOSE i \in DOMAIN Phases : Phases[i] = name

ASSUME DayBounds ==
    /\ Needs \in [PhaseNames -> SUBSET Facts] /\ Secure \subseteq Facts
    /\ Plan \in [PhaseNames -> Nat] /\ Probes \subseteq Facts
    /\ OpensAt \in [Probes -> PhaseNames] /\ Requested \in Seq(Probes)
    /\ Hold \in Nat \ {0} /\ DarkShare \in Nat \ {0}
    /\ MaxTime \in Nat /\ MaxTicks \in Nat

\* The awaits of a tick are told apart by name.
Stages == {"rest", "board", "measure", "charge", "settle", "open", "read", "rotate"}

ASSUME DayNames == None \notin Nat /\ ToSet(Requested) \cap Stages = {}

VARIABLES
    facts,      \* what holds now
    time,       \* the clock; the event starts at 0
    started,    \* startedAt: the board has answered
    stage,      \* the await the tick is in, "rest" between two ticks
    context,    \* mergedContext() as the tick took it
    found,      \* what the probes of this tick have answered
    opened,     \* unlockedAt: the open phases
    probe,      \* probeState: a record per probe
    whole,      \* perfectSince
    rotation,   \* rotationState
    atOpen,     \* rotationVersionAtOpen
    key,        \* the version of the signing key, in ship.mjs's store
    rotations,  \* history: rotations the scorer asked for that took place
    scored      \* history: ticks that measured

dayVars == <<facts, time, started, stage, context, found, opened, probe, whole, rotation,
             atOpen, key, rotations, scored>>

tickVars == <<context, found, opened, probe, whole, rotation, atOpen, key, rotations, scored>>

Untouched == [green |-> FALSE, armed |-> FALSE, armedTicks |-> 0, degradedTicks |-> 0]

Init ==
    /\ facts = {} /\ time = 0 /\ started = FALSE /\ stage = "rest" /\ context = {}
    /\ found = {} /\ opened = {} /\ probe = [p \in Probes |-> Untouched] /\ whole = None
    /\ rotation = "pending" /\ atOpen = None /\ key = 0 /\ rotations = 0 /\ scored = 0

-----------------------------------------------------------------------------
(* What the tick computes.                                                  *)

Holds(name, ctx) == Needs[name] \subseteq ctx

\* A phase opens on the facts of the one before it or on the clock; the incident on a
\* post that was dropped, the last one on the clock alone.
Unlocks(name, ctx) ==
    \/ name = "join" \/ time >= Plan[name]
    \/ name \in {"build", "ship", "expose", "attack"} /\ Holds(Phases[PhaseIndex(name) - 1], ctx)
    \/ name = "incident" /\ "dropped" \in ctx

\* The latest phase open, whether or not those before it are.
CurrentPhase == Max({1} \cup {PhaseIndex(name) : name \in opened})

\* A probe is committed by the first tick of its phase that finds it working, and
\* from then on every dark tick is charged.
Arms(green, armed) == armed \/ green

Charged(p, green) ==
    LET was == probe[p]
        counts == CurrentPhase >= PhaseIndex(OpensAt[p]) /\ Arms(green, was.armed)
    IN  [green |-> green, armed |-> was.armed \/ counts,
         armedTicks |-> was.armedTicks + IF counts THEN 1 ELSE 0,
         degradedTicks |-> was.degradedTicks + IF counts /\ ~green THEN 1 ELSE 0]

Armed == {p \in Probes : probe[p].armed}
Available == Armed # {} /\ \A p \in Armed : probe[p].green

Total(field) == MapThenSumSet(LAMBDA p : probe[p][field], Probes)
WithinBudget == Total("degradedTicks") * DarkShare <= Total("armedTicks")

-----------------------------------------------------------------------------
(* The tick, cut at its awaits.                                             *)

Tick ==
    /\ stage = "rest" /\ scored < MaxTicks
    /\ context' = facts /\ found' = {} /\ stage' = "board"
    /\ UNCHANGED <<facts, time, started, opened, probe, whole, rotation, atOpen, key, rotations,
                   scored>>

\* Before the server listens there is no event; the finally block sets the next tick.
NotListening ==
    /\ stage = "board" /\ ~started
    /\ stage' = "rest" /\ UNCHANGED <<facts, time, started, tickVars>>

BoardAnswers ==
    /\ stage = "board"
    /\ started' = TRUE /\ stage' = "measure" /\ UNCHANGED <<facts, time, tickVars>>

\* The search has measured itself again, or it was not its turn.
Remeasured ==
    /\ stage = "measure"
    /\ opened' = opened \cup {name \in PhaseNames : Unlocks(name, context)}
    /\ stage' = IF Requested = <<>> THEN "charge" ELSE Head(Requested)
    /\ UNCHANGED <<facts, time, started, context, found, probe, whole, rotation, atOpen, key,
                   rotations, scored>>

Probed(i) ==
    /\ i \in DOMAIN Requested /\ stage = Requested[i]
    /\ found' = IF Requested[i] \in facts THEN found \cup {Requested[i]} ELSE found
    /\ stage' = IF i = Len(Requested) THEN "charge" ELSE Requested[i + 1]
    /\ UNCHANGED <<facts, time, started, context, opened, probe, whole, rotation, atOpen, key,
                   rotations, scored>>

Settled == rotation = "done" \/ "stabilize" \notin opened

Charge ==
    /\ stage = "charge"
    /\ LET green == found \cup ((Probes \ ToSet(Requested)) \cap context)
       IN  probe' = [p \in Probes |-> Charged(p, p \in green)]
    /\ scored' = scored + 1
    /\ stage' = IF Settled THEN "settle" ELSE IF atOpen = None THEN "open" ELSE "read"
    /\ UNCHANGED <<facts, time, started, context, found, opened, whole, rotation, atOpen, key,
                   rotations>>

\* perfectSince, set by the first tick that finds everything whole.
Settle ==
    /\ stage = "settle"
    /\ whole' = IF ~(Available /\ Secure \subseteq context) THEN None
                ELSE IF whole = None THEN time ELSE whole
    /\ stage' = "rest"
    /\ UNCHANGED <<facts, time, started, context, found, opened, probe, rotation, atOpen, key,
                   rotations, scored>>

-----------------------------------------------------------------------------
(* maybeRotate(): two reads of the store and a rotation, each a request.    *)

\* A read that fails leaves the rotation to the next tick.
ReadOpen ==
    /\ stage = "open"
    /\ \/ atOpen' = key /\ stage' = "read"
       \/ atOpen' = None /\ stage' = "settle"
    /\ UNCHANGED <<facts, time, started, context, found, opened, probe, whole, rotation, key,
                   rotations, scored>>

MutDue(version) == TRUE
Due(version) == version = atOpen

Read ==
    /\ stage = "read"
    /\ \/ stage' = "settle" /\ UNCHANGED rotation
       \/ Due(key) /\ stage' = "rotate" /\ UNCHANGED rotation
       \/ ~Due(key) /\ stage' = "settle" /\ rotation' = "done"
    /\ UNCHANGED <<facts, time, started, context, found, opened, probe, whole, atOpen, key,
                   rotations, scored>>

\* The answer may be lost whether or not the store has rotated; it may also break off
\* half read, which ends the tick in its catch.
RotateKey ==
    /\ stage = "rotate"
    /\ \E rotated \in BOOLEAN, answer \in {"read", "none", "broken"} :
         /\ answer # "none" => rotated
         /\ key' = key + IF rotated THEN 1 ELSE 0
         /\ rotations' = rotations + IF rotated THEN 1 ELSE 0
         /\ rotation' = IF answer = "read" THEN "done" ELSE rotation
         /\ stage' = IF answer = "broken" THEN "rest" ELSE "settle"
    /\ UNCHANGED <<facts, time, started, context, found, opened, probe, whole, atOpen, scored>>

-----------------------------------------------------------------------------
(* The clock and the participant, who may rotate the key too.               *)

Pass ==
    /\ started /\ time < MaxTime
    /\ time' = time + 1 /\ UNCHANGED <<facts, started, stage, tickVars>>

Work(fact) ==
    /\ facts' = IF fact \in facts THEN facts \ {fact} ELSE facts \cup {fact}
    /\ UNCHANGED <<time, started, stage, tickVars>>

\* bound: once
OwnRotation ==
    /\ key = rotations
    /\ key' = key + 1
    /\ UNCHANGED <<facts, time, started, stage, context, found, opened, probe, whole, rotation,
                   atOpen, rotations, scored>>

Next ==
    \/ Tick \/ NotListening \/ BoardAnswers \/ Remeasured \/ Charge \/ Settle
    \/ \E i \in DOMAIN Requested : Probed(i)
    \/ ReadOpen \/ Read \/ RotateKey
    \/ Pass \/ OwnRotation
    \/ \E fact \in Facts : Work(fact)

Spec == Init /\ [][Next]_dayVars

-----------------------------------------------------------------------------
(* The sign-off.                                                            *)

HoldSatisfied == whole # None /\ time - whole >= Hold

SignOff ==
    /\ WithinBudget /\ HoldSatisfied
    /\ \A name \in PhaseNames : name \in opened /\ Holds(name, facts)

-----------------------------------------------------------------------------
(* Properties.                                                             *)

TypeOK ==
    /\ facts \subseteq Facts /\ time \in 0..MaxTime /\ started \in BOOLEAN
    /\ stage \in Stages \cup ToSet(Requested)
    /\ context \subseteq Facts /\ found \subseteq ToSet(Requested) /\ opened \subseteq PhaseNames
    /\ probe \in [Probes -> [green : BOOLEAN, armed : BOOLEAN, armedTicks : 0..MaxTicks,
                             degradedTicks : 0..MaxTicks]]
    /\ whole \in 0..MaxTime \cup {None} /\ rotation \in {"pending", "done"}
    /\ key \in Nat /\ atOpen \in 0..key \cup {None} /\ rotations \in 0..key
    /\ scored \in 0..MaxTicks

\* The scheduled rotation takes place once at most, whatever answers were lost and
\* however often the tick came back to it (gameday.mjs:917-952).
RotatedOnce == rotations <= 1

\* A team owes nothing for the time before a service was up: the tick that commits a
\* probe found it working in its phase (gameday.mjs:808-830).
FirstTickFree ==
    \A p \in Probes :
        /\ probe[p].armed => probe[p].degradedTicks < probe[p].armedTicks
        /\ ~probe[p].armed => probe[p].armedTicks = 0 /\ probe[p].degradedTicks = 0
        /\ probe[p].armed => CurrentPhase >= PhaseIndex(OpensAt[p])

\* The sign-off needs every phase open and a clock past the opening of the last one,
\* and what keeps the hold is a tick that found every committed service up.
SignedLate == SignOff => time >= Plan["stabilize"] /\ Armed # {}

DaySafe == RotatedOnce /\ FirstTickFree /\ SignedLate
================================================================================
