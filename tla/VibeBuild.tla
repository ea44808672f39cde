------------------------------- MODULE VibeBuild -------------------------------
(***************************************************************************)
(* The StackStack scenario "vibe-build" (scenarios/vibe-build.mjs): the      *)
(* participant's search function runs in a child process that is replaced    *)
(* when the source changes, fails to load, does not answer in time or dies;  *)
(* calls wait in a map until the child answers them or goes.  Measurements   *)
(* of the function queue one behind the other, each a few requests through   *)
(* the same child, and the last one, with the stamp of the source it began   *)
(* under, is what the gates and the receipts report.                         *)
(***************************************************************************)
EXTENDS Integers, Sequences, FiniteSets

CONSTANTS
    Visitors,   \* who else calls the function, one call each
    MaxPending, \* MAX_PENDING_CALLS
    MaxQueued,  \* MAX_QUEUED
    Probes,     \* requests of a measurement
    MaxSaves    \* bound: saves of the source

\* What the constants have to satisfy.
VibeBounds ==
    /\ MaxPending \in Nat /\ MaxQueued \in Nat /\ Probes \in Nat \ {0} /\ MaxSaves \in Nat
    /\ "probe" \notin Visitors

\* What a source does with a call: answers by the specification or otherwise, does
\* not load, ends its process, never answers.
Sources == {"right", "wrong", "broken", "dies", "hangs"}
Calls == Visitors \cup {"probe"}
NoChild == [stamp |-> -1]
NoRun == [task |-> "none"]
Nothing == [stamp |-> -1, ok |-> FALSE]

VARIABLES
    code,     \* the sources saved so far; a stamp is a place in it, 0 the starter
    saved,    \* the stamp of the source in force
    child,    \* the running child by the stamp it was started for
    pending,  \* the calls that wait
    mute,     \* ... whose answer was swallowed
    doomed,   \* a killed child may still have text in its pipe
    spoiled,  \* childBuffer holds the beginning of a line no child will end
    queue,    \* measurements waiting
    run,      \* the one that runs
    measured, \* lastMeasured
    receipt,  \* the participant has seen the gate's receipt
    scorer    \* a /verify: idle, waiting for a slot, queued, or its verdict

vibeVars == <<code, saved, child, pending, mute, doomed, spoiled, queue, run, measured,
              receipt, scorer>>

Does(stamp) == IF stamp = 0 THEN "wrong" ELSE code[stamp]

Init ==
    /\ code = <<>> /\ saved = 0 /\ child = NoChild /\ pending = {} /\ mute = {}
    /\ doomed = FALSE /\ spoiled = FALSE /\ queue = <<>> /\ run = NoRun
    /\ measured = Nothing /\ receipt = FALSE /\ scorer = "idle"

-----------------------------------------------------------------------------
(* Calls into the child.                                                   *)

\* A probe that is not answered as it should be ends its measurement.
Failed(calls) == IF "probe" \in calls THEN [run EXCEPT !.ok = FALSE] ELSE run
Disturbed(r) == IF r = NoRun THEN r ELSE [r EXCEPT !.whole = FALSE]

\* restartChild: every call that waits fails.
Restarted ==
    /\ child' = NoChild /\ pending' = {} /\ mute' = {} /\ doomed' = TRUE
    /\ UNCHANGED spoiled

MutFits == child # NoChild
Fits == child # NoChild /\ child.stamp = saved

\* callFeature: past the cap the call is refused, before the child is looked at.
CallFeature(c) ==
    /\ c \notin pending
    /\ IF Cardinality(pending) >= MaxPending
       THEN /\ run' = Disturbed(Failed({c}))
            /\ UNCHANGED <<child, pending, mute, doomed, spoiled>>
       ELSE IF Fits
       THEN /\ pending' = pending \cup {c}
            /\ UNCHANGED <<child, mute, doomed, spoiled, run>>
       ELSE /\ run' = Failed(pending)
            /\ child' = [stamp |-> saved] /\ pending' = {c} /\ mute' = {} /\ spoiled' = FALSE
            /\ doomed' = (doomed \/ child # NoChild)
    /\ UNCHANGED <<code, saved, queue, measured, receipt, scorer>>

Visit(v) == v \in Visitors /\ CallFeature(v)

ProbeAsk ==
    /\ run # NoRun /\ run.ok /\ run.step <= Probes /\ "probe" \notin pending
    /\ CallFeature("probe")

\* A line of the child ends with what is left of a killed one's before it: it does
\* not parse, and the call waits for its timeout.
Swallowed(c) ==
    /\ spoiled' = FALSE /\ mute' = mute \cup {c}
    /\ run' = Disturbed(run)
    /\ UNCHANGED <<child, pending, doomed>>

Answered(c) ==
    /\ pending' = pending \ {c}
    /\ run' = IF c # "probe" THEN run
              ELSE IF Does(child.stamp) = "right" THEN [run EXCEPT !.step = @ + 1] ELSE Failed({c})
    /\ UNCHANGED <<child, mute, doomed, spoiled>>

\* A failure to load throws the process away.
Unloadable == run' = Failed(pending) /\ Restarted

Reply(c) ==
    /\ c \in pending \ mute /\ Does(child.stamp) \in {"right", "wrong", "broken"}
    /\ IF spoiled THEN Swallowed(c)
       ELSE IF Does(child.stamp) = "broken" THEN Unloadable ELSE Answered(c)
    /\ UNCHANGED <<code, saved, queue, measured, receipt, scorer>>

\* CALL_TIMEOUT_MS.
Timeout(c) ==
    /\ c \in pending /\ (c \in mute \/ Does(child.stamp) = "hangs")
    /\ run' = (IF c \in mute THEN Disturbed(Failed(pending)) ELSE Failed(pending))
    /\ Restarted
    /\ UNCHANGED <<code, saved, queue, measured, receipt, scorer>>

\* The child's exit, heard of by the one that is current only.
Exit ==
    /\ child # NoChild /\ pending # {} /\ Does(child.stamp) = "dies"
    /\ run' = Failed(pending)
    /\ child' = NoChild /\ pending' = {} /\ mute' = {}
    /\ UNCHANGED <<code, saved, doomed, spoiled, queue, measured, receipt, scorer>>

\* Text of a killed child reaches the shared buffer after its successor has started.
LateOutput ==
    /\ doomed
    /\ doomed' = FALSE /\ spoiled' \in {spoiled, child # NoChild}
    /\ UNCHANGED <<code, saved, child, pending, mute, queue, run, measured, receipt, scorer>>

-----------------------------------------------------------------------------
(* Measurements.                                                           *)

Queued == Len(queue) + (IF run = NoRun THEN 0 ELSE 1)

\* GET /api/selfcheck answers 409 past the bound.
Selfcheck ==
    /\ Queued < MaxQueued
    /\ queue' = Append(queue, "selfcheck")
    /\ UNCHANGED <<code, saved, child, pending, mute, doomed, spoiled, run, measured, receipt, scorer>>

\* /verify waits for a slot, and gives up after its attempts.
Verify ==
    /\ scorer = "idle" /\ scorer' = "waiting"
    /\ UNCHANGED <<code, saved, child, pending, mute, doomed, spoiled, queue, run, measured, receipt>>

Slot ==
    /\ scorer = "waiting"
    /\ IF Queued < MaxQueued
       THEN queue' = Append(queue, "verify") /\ scorer' = "queued"
       ELSE scorer' \in {"waiting", "incorrect"} /\ queue' = queue
    /\ UNCHANGED <<code, saved, child, pending, mute, doomed, spoiled, run, measured, receipt>>

\* The stamp is read when the measurement begins, not when its requests are made.
StartRun ==
    /\ run = NoRun /\ queue # <<>>
    /\ run' = [task |-> Head(queue), stamp |-> saved, step |-> 1, ok |-> TRUE, whole |-> TRUE]
    /\ queue' = Tail(queue)
    /\ UNCHANGED <<code, saved, child, pending, mute, doomed, spoiled, measured, receipt, scorer>>

RecordedStamp == run.stamp

EndRun ==
    /\ run # NoRun /\ "probe" \notin pending /\ (~run.ok \/ run.step > Probes)
    /\ measured' = [stamp |-> RecordedStamp, ok |-> run.ok]
    /\ scorer' = IF run.task # "verify" THEN scorer
                 ELSE IF run.ok /\ receipt THEN "correct" ELSE "incorrect"
    /\ run' = NoRun
    /\ UNCHANGED <<code, saved, child, pending, mute, doomed, spoiled, queue, receipt>>

Green == measured.ok /\ measured.stamp = saved

Posture ==
    /\ Green /\ ~receipt /\ receipt' = TRUE
    /\ UNCHANGED <<code, saved, child, pending, mute, doomed, spoiled, queue, run, measured, scorer>>

-----------------------------------------------------------------------------
(* The source.                                                             *)

\* PUT /api/source: a new file has a new stamp.
Save(source) ==
    /\ Len(code) < MaxSaves
    /\ code' = Append(code, source) /\ saved' = Len(code) + 1 /\ run' = Disturbed(run)
    /\ UNCHANGED <<child, pending, mute, doomed, spoiled, queue, measured, receipt, scorer>>

\* DELETE /api/source: the starter, with the stamp it always had.
Discard ==
    /\ saved # 0 /\ saved' = 0 /\ run' = Disturbed(run)
    /\ UNCHANGED <<code, child, pending, mute, doomed, spoiled, queue, measured, receipt, scorer>>

Next ==
    \/ ProbeAsk \/ Exit \/ LateOutput \/ Selfcheck \/ Verify \/ Slot \/ StartRun \/ EndRun
    \/ Posture \/ Discard
    \/ \E v \in Visitors : Visit(v)
    \/ \E c \in Calls : Reply(c) \/ Timeout(c)
    \/ \E source \in Sources : Save(source)

Spec == Init /\ [][Next]_vibeVars

-----------------------------------------------------------------------------
(* Properties.                                                             *)

Stamps == 0..Len(code)
Runs == [task : {"selfcheck", "verify"}, stamp : Stamps, step : 1..Probes + 1, ok : BOOLEAN,
         whole : BOOLEAN]

TypeOK ==
    /\ code \in Seq(Sources) /\ Len(code) <= MaxSaves /\ saved \in Stamps
    /\ child \in {NoChild} \cup [stamp : Stamps] /\ pending \subseteq Calls /\ mute \subseteq pending
    /\ doomed \in BOOLEAN /\ spoiled \in BOOLEAN /\ receipt \in BOOLEAN
    /\ queue \in Seq({"selfcheck", "verify"}) /\ run \in {NoRun} \cup Runs
    /\ measured \in {Nothing} \cup [stamp : Stamps, ok : BOOLEAN]
    /\ scorer \in {"idle", "waiting", "queued", "correct", "incorrect"}

\* No call waits on a child that is gone, more than the cap never wait, and no more
\* measurements are under way than the bound (vibe-build.mjs:204-225, 1173-1196).
CallsServed ==
    /\ pending # {} => child # NoChild
    /\ Cardinality(pending) <= MaxPending /\ Queued <= MaxQueued
    /\ "probe" \in pending => run # NoRun

\* A saved source whose gate is green is right: a result recorded for a stamp cannot
\* come from another source that is saved while the measurement runs
\* (vibe-build.mjs:1198-1226, 1651-1671).
SavedGateTrue == Green /\ saved # 0 => Does(saved) = "right"

\* A measurement over one source says what the source is; only a lost line, the cap on
\* calls or a save of the source in between can fail a right one, whatever visitors do.
RunTrue ==
    run # NoRun /\ run.whole =>
        /\ ~run.ok => Does(run.stamp) # "right"
        /\ run.step > 1 => Does(run.stamp) = "right"

VibeSafe == CallsServed /\ SavedGateTrue /\ RunTrue

\* "A gate is green when the last measurement of *this* version of the feature file
\* said so." (vibe-build.mjs:1651): not after a source that was saved during the
\* measurement of the starter, and has been discarded since.
GateOfThisVersion == Green => Does(saved) = "right"
================================================================================
