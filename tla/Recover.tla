-------------------------------- MODULE Recover --------------------------------
(***************************************************************************)
(* The StackStack scenario "recover" (scenarios/recover.mjs): a policy that  *)
(* is read again on every use, a watchdog that drains the board, and probes  *)
(* that send four requests to this very server.  Between two requests of a   *)
(* probe anything may happen: an edit, a restart, another probe.             *)
(*                                                                         *)
(* A policy stands for its revision: two policies that say the same are one. *)
(***************************************************************************)
EXTENDS Integers, FiniteSets

CONSTANTS
    None,       \* never probed, never run
    Policies,   \* policies in play, records as in PolicyShape
    Starter,    \* the policy the container ships with
    Slots,      \* requests that may probe at the same time
    LedgerMax,  \* PROBE_LEDGER_MAX
    MaxChanges  \* bound of the model: edits of the policy and restarts

\* ok: it loads; covers: edge paths an anonymous request is refused on; strong:
\* its token is a real one; scope: what the job and the canaries may write.
PolicyShape == [ok : BOOLEAN, covers : SUBSET {"healthz", "board", "posts"},
                strong : BOOLEAN, scope : {"none", "narrow", "wide"}, job : BOOLEAN]

\* What the constants have to satisfy.
RecoverPolicies == Policies \subseteq PolicyShape /\ Starter \in Policies
RecoverBounds == LedgerMax \in Nat \ {0} /\ MaxChanges \in Nat

VARIABLES
    rules,      \* policy.json with its override
    changes,    \* edits and restarts so far
    shedding,   \* watchdog.shedding
    probes,     \* runProbe() in flight, by slot
    lastProbe,  \* lastProbe
    lastDigest, \* digest.lastRun, as the policy of a run that succeeded
    output,     \* the policy the digest on disk was written under
    restart,    \* the policy in force when the last restart was entered in `ledger`
    healed,     \* policies of ledger entries with afterOk
    restarted   \* history: policies a restart began under

recoverVars == <<rules, changes, shedding, probes, lastProbe, lastDigest, output, restart,
                 healed, restarted>>

Idle == [step |-> "idle"]
Purposes == {"status", "restart"}
Answers == {"stored", "unauthorized", "unavailable"}

Init ==
    /\ rules = Starter /\ changes = 0 /\ shedding = FALSE
    /\ probes = [s \in Slots |-> Idle]
    /\ lastProbe = None /\ lastDigest = None /\ output = None
    /\ restart = None /\ healed = {} /\ restarted = {}

-----------------------------------------------------------------------------
(* The edge, and the job.                                                  *)

\* GET /edge/healthz is never drained; an anonymous request must not be covered.
HealthAnswers == rules.ok /\ "healthz" \notin rules.covers

BoardAnswers == ~shedding /\ rules.ok /\ "board" \notin rules.covers

\* edgeWrite, without a token: draining is looked at before authorization.
AnonymousWrite ==
    IF shedding \/ ~rules.ok THEN "unavailable"
    ELSE IF "posts" \in rules.covers THEN "unauthorized" ELSE "stored"

\* ... and with the token of the policy the probe started under: an edit of the
\* policies in play keeps the token.
TokenWrites == ~shedding /\ rules.ok

JobRuns == rules.ok /\ rules.job /\ rules.scope \in {"narrow", "wide"}

\* runDigest()
RunDigest ==
    /\ lastDigest' = IF JobRuns THEN rules ELSE None
    /\ output' = IF JobRuns THEN rules ELSE output

-----------------------------------------------------------------------------
(* snapshot(): what the gates read.                                        *)

MutFresh == lastProbe # None

\* Facts of a probe count while it was taken at the policy in force now.
Fresh == lastProbe # None /\ lastProbe.revision = rules

DigestOk == lastDigest = rules /\ output = rules

ScopeNarrow == rules.ok /\ rules.scope = "narrow"

ServiceRestored ==
    Fresh /\ rules.ok /\ ~lastProbe.shedding /\ lastProbe.health /\ lastProbe.read

AuthEnforced ==
    Fresh /\ rules.ok /\ rules.strong /\ lastProbe.anonymous = "unauthorized" /\ lastProbe.landed

SurvivedRestart == restart = rules /\ rules \in healed

-----------------------------------------------------------------------------
(* runProbe(), request by request.                                         *)

Begin(s, purpose) ==
    [probes EXCEPT ![s] = [step |-> "health", for |-> purpose, revision |-> rules,
        health |-> FALSE, read |-> FALSE, anonymous |-> "unavailable", kept |-> 0, edited |-> FALSE]]

\* GET /ops/status, POST /ops/probe and the checkpoint board-back.
Probe(s) ==
    /\ probes[s] = Idle
    /\ probes' = Begin(s, "status")
    /\ UNCHANGED <<rules, changes, shedding, lastProbe, lastDigest, output, restart, healed,
                   restarted>>

\* The checkpoint no-recurrence runs the job first.
CheckRecurrence(s) ==
    /\ probes[s] = Idle
    /\ RunDigest
    /\ probes' = Begin(s, "status")
    /\ UNCHANGED <<rules, changes, shedding, lastProbe, restart, healed, restarted>>

RunJob ==
    /\ RunDigest
    /\ UNCHANGED <<rules, changes, shedding, probes, lastProbe, restart, healed, restarted>>

\* A request of probe s is answered: the probe goes on with step `next`.
Answered(s, next, field, value) ==
    /\ probes' = [probes EXCEPT ![s] = [[@ EXCEPT ![field] = value] EXCEPT !.step = next]]
    /\ UNCHANGED <<rules, changes, shedding, lastProbe, lastDigest, output, restart, healed,
                   restarted>>

SampleHealth(s) == probes[s].step = "health" /\ Answered(s, "heard", "health", HealthAnswers)
SampleRead(s) == probes[s].step = "read" /\ Answered(s, "anonymous", "read", BoardAnswers)

\* The watchdog follows the answer that has just arrived, however old it is.
Watchdog(s) ==
    /\ probes[s].step = "heard"
    /\ shedding' = ~probes[s].health
    /\ probes' = [probes EXCEPT ![s].step = "read"]
    /\ UNCHANGED <<rules, changes, lastProbe, lastDigest, output, restart, healed, restarted>>

Older(n) == IF n > 0 THEN n - 1 ELSE 0

\* An accepted probe write enters the bounded ledger and ages the others: `kept` is
\* how many more writes a probe's own entry outlives.
Pushed == [s \in Slots |->
    IF probes[s].step = "done" THEN [probes[s] EXCEPT !.kept = Older(@)] ELSE probes[s]]

SampleAnonymous(s) ==
    /\ probes[s].step = "anonymous"
    /\ probes' = [(IF AnonymousWrite = "stored" THEN Pushed ELSE probes)
         EXCEPT ![s].step = "token", ![s].anonymous = AnonymousWrite]
    /\ UNCHANGED <<rules, changes, shedding, lastProbe, lastDigest, output, restart, healed,
                   restarted>>

SampleToken(s) ==
    /\ probes[s].step = "token"
    /\ probes' = [(IF TokenWrites THEN Pushed ELSE probes)
         EXCEPT ![s].step = "done", ![s].kept = IF TokenWrites THEN LedgerMax ELSE 0]
    /\ UNCHANGED <<rules, changes, shedding, lastProbe, lastDigest, output, restart, healed,
                   restarted>>

\* restartWorker's entry: the policy of now, and whether everything is well at it.
Entered(ok) == IF ok THEN healed \cup {rules} ELSE healed

Finish(s) ==
    /\ probes[s].step = "done"
    /\ probes' = [probes EXCEPT ![s] = Idle]
    /\ lastProbe' = [revision |-> probes[s].revision, shedding |-> shedding,
         health |-> probes[s].health, read |-> probes[s].read,
         anonymous |-> probes[s].anonymous, landed |-> probes[s].kept > 0,
         edited |-> probes[s].edited]
    /\ UNCHANGED <<rules, changes, shedding, lastDigest, output, restarted>>
    /\ IF probes[s].for = "restart"
       THEN /\ restart' = rules
            /\ healed' = Entered(ServiceRestored' /\ AuthEnforced' /\ DigestOk')
       ELSE UNCHANGED <<restart, healed>>

-----------------------------------------------------------------------------
(* Edits and restarts.                                                     *)

Edit(p) ==
    /\ changes < MaxChanges /\ p # rules
    /\ changes' = changes + 1
    /\ rules' = p
    /\ probes' = [s \in Slots |->
         IF probes[s] = Idle THEN Idle ELSE [probes[s] EXCEPT !.edited = TRUE]]
    /\ UNCHANGED <<shedding, lastProbe, lastDigest, output, restart, healed, restarted>>

\* restartWorker: the counters and the ledger of probes are cleared, the job runs,
\* and a probe begins; probes already in flight go on.
Restart(s) ==
    /\ probes[s] = Idle
    /\ changes < MaxChanges
    /\ changes' = changes + 1
    /\ shedding' = FALSE /\ lastProbe' = None
    /\ RunDigest
    /\ probes' = [q \in Slots |->
         IF q = s THEN Begin(s, "restart")[s]
         ELSE IF probes[q] = Idle THEN Idle ELSE [probes[q] EXCEPT !.kept = 0]]
    /\ restarted' = restarted \cup {rules}
    /\ UNCHANGED <<rules, restart, healed>>

Next ==
    \/ RunJob
    \/ \E p \in Policies : Edit(p)
    \/ \E s \in Slots :
         \/ Probe(s) \/ CheckRecurrence(s) \/ Restart(s)
         \/ SampleHealth(s) \/ Watchdog(s) \/ SampleRead(s)
         \/ SampleAnonymous(s) \/ SampleToken(s) \/ Finish(s)

Spec == Init /\ [][Next]_recoverVars

-----------------------------------------------------------------------------
(* Properties.                                                             *)

Flights == [step : {"health", "heard", "read", "anonymous", "token", "done"}, for : Purposes,
            revision : Policies, health : BOOLEAN, read : BOOLEAN, anonymous : Answers,
            kept : 0..LedgerMax, edited : BOOLEAN]
Measured == [revision : Policies, shedding : BOOLEAN, health : BOOLEAN, read : BOOLEAN,
             anonymous : Answers, landed : BOOLEAN, edited : BOOLEAN]

TypeOK ==
    /\ rules \in Policies /\ changes \in 0..MaxChanges /\ shedding \in BOOLEAN
    /\ probes \in [Slots -> {Idle} \cup Flights]
    /\ lastProbe \in {None} \cup Measured
    /\ {lastDigest, output, restart} \subseteq Policies \cup {None}
    /\ healed \subseteq Policies /\ restarted \subseteq Policies

\* The gates service_restored and auth_enforced tell the truth about the policy in
\* force, whatever probes overlapped and restarts came between, as long as the
\* policy was left alone while the probe they are read off was running
\* (recover.mjs:734-772).
GatesTrue ==
    lastProbe # None /\ ~lastProbe.edited =>
        /\ ServiceRestored => "healthz" \notin rules.covers /\ "board" \notin rules.covers
        /\ AuthEnforced => "posts" \in rules.covers

\* A restart taken before the fix does not count: the policy that a ledger entry
\* calls healthy is one that a restart began under (recover.mjs:697-722, 1240-1247).
RestartUnderFix == healed \subseteq restarted

RecoverSafe == GatesTrue /\ RestartUnderFix
=============================================================================
