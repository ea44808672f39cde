-------------------------------- MODULE OpsKeys --------------------------------
(***************************************************************************)
(* The ops plane of the StackStack scenario "secrets" (scenarios/secrets.mjs): *)
(* a key store, a manifest that names the key the nightly job runs as and    *)
(* what it may do, a journal of bounded length, and the checkpoints, which   *)
(* send real requests to this very server and go on when they are answered. *)
(*                                                                         *)
(* Key 0 is the leaked one (ops-legacy), key n the n-th that was minted.     *)
(***************************************************************************)
EXTENDS Integers, Sequences, FiniteSets

CONSTANTS
    None,        \* no key
    Job,         \* DIGEST_ACTIONS, in the order the job asks for them
    Sensitive,   \* SENSITIVE_ACTIONS
    Grants,      \* what the grants of a manifest may come to: sets of actions
    MaxJournal,  \* MAX_JOURNAL
    MaxMints     \* bound of the model: keys minted between two restarts

\* What the constants have to satisfy.
OpsBounds ==
    /\ MaxJournal \in Nat \ {0} /\ MaxMints \in Nat /\ None \notin Nat
    /\ Job \in Seq({Job[i] : i \in DOMAIN Job}) \ {<<>>}
OpsGrants == \A g \in Grants : g \subseteq {Job[i] : i \in DOMAIN Job} \cup Sensitive
OpsStarter == {Job[i] : i \in DOMAIN Job} \cup Sensitive \in Grants

Legacy == 0
JobActions == {Job[i] : i \in DOMAIN Job}
Catalog == JobActions \cup Sensitive
\* `allowed` is what the grants, wildcards included, come to.
Broken == [ok |-> FALSE, identity |-> Legacy, allowed |-> {}]
Policies == {Broken} \cup [ok : {TRUE}, identity : 0..MaxMints, allowed : Grants]

VARIABLES
    policy,     \* ops.json with its override
    minted,     \* how many keys were minted: the store holds 0..minted
    revoked,    \* keys whose status is revoked
    lastRun,    \* lastDigestRun; the job runs at boot, before the server listens
    presented,  \* legacyPresented
    journal,    \* outcomes in the journal, oldest first
    checking,   \* the checkpoint in flight
    handover    \* history: a credited sign-off under a manifest nobody has edited

opsVars == <<policy, minted, revoked, lastRun, presented, journal, checking, handover>>

Idle == [check |-> "none", todo |-> {}, key |-> Legacy]
Starter == [ok |-> TRUE, identity |-> Legacy, allowed |-> Catalog]

-----------------------------------------------------------------------------
(* Identity, authorization, journal.                                       *)

Active(k) == k \in 0..minted /\ k \notin revoked

\* resolveIdentityWith: the manifest names a key the store holds and has not closed.
Resolves == policy.ok /\ Active(policy.identity)

Authorized(action) == policy.ok /\ action \in policy.allowed

\* record(): the oldest entries leave a full journal.
Recorded(log, outcomes) ==
    LET all == log \o outcomes
    IN  IF Len(all) <= MaxJournal THEN all
        ELSE SubSeq(all, Len(all) - MaxJournal + 1, Len(all))

-----------------------------------------------------------------------------
(* The nightly job.                                                        *)

\* How many of the job's actions are authorized before the first that is not.
Granted == Cardinality({i \in DOMAIN Job : \A j \in 1..i : Authorized(Job[j])})

Works == Resolves /\ Granted = Len(Job)

RunOutcomes ==
    IF ~Resolves THEN <<"refused">>
    ELSE [i \in 1..Granted |-> "allowed"] \o (IF Works THEN <<>> ELSE <<"refused">>)

\* runDigest: identity, then each action in order, then the digest is published.
RunOf ==
    IF ~Resolves THEN [ok |-> FALSE, key |-> None, allowed |-> {}]
    ELSE [ok |-> Works, key |-> policy.identity, allowed |-> policy.allowed]

RunDigest == lastRun' = RunOf

Note(outcomes) == journal' = Recorded(journal, outcomes) /\ UNCHANGED checking

-----------------------------------------------------------------------------
(* posture(): the gates.                                                   *)

\* digestHealthy: the last run succeeded, as it is configured now.
Healthy ==
    /\ lastRun.ok
    /\ Resolves /\ lastRun.key = policy.identity
    /\ lastRun.allowed = policy.allowed

Rotated == lastRun.ok /\ lastRun.key # Legacy /\ Active(lastRun.key)

LeastPrivilege ==
    /\ \A a \in JobActions : Authorized(a)
    /\ \A a \in Sensitive : ~Authorized(a)

-----------------------------------------------------------------------------
(* Routes.                                                                 *)

Init ==
    /\ policy = Starter /\ minted = 0 /\ revoked = {}
    /\ lastRun = RunOf /\ presented = FALSE /\ journal = Recorded(<<>>, RunOutcomes)
    /\ checking = Idle /\ handover = FALSE

EditPolicy(p) ==
    /\ policy' = p
    /\ handover' = FALSE
    /\ UNCHANGED <<minted, revoked, lastRun, presented, journal, checking>>

Mint ==
    /\ minted < MaxMints
    /\ minted' = minted + 1
    /\ UNCHANGED <<policy, revoked, lastRun, presented, journal, checking, handover>>

MutMayRevoke(k) == Active(k)

\* The key the job runs as is not revoked: the answer is would_orphan_service.
MayRevoke(k) == Active(k) /\ (policy.ok => policy.identity # k)

Revoke(k) ==
    /\ MayRevoke(k)
    /\ revoked' = revoked \cup {k}
    /\ UNCHANGED <<policy, minted, lastRun, presented, journal, checking, handover>>

\* whoami identifies a key, revoked or not; a participant who presents the leaked
\* one has confirmed the leak.
Whoami(k) ==
    /\ k \in 0..minted
    /\ presented' = (presented \/ k = Legacy)
    /\ UNCHANGED <<policy, minted, revoked, lastRun, journal, checking, handover>>

Outcome(k, action) ==
    IF Active(k) /\ Authorized(action) THEN "allowed" ELSE "refused"

\* Key ids above `minted` stand for a credential nobody issued.
Act(k, action) ==
    /\ presented' = (presented \/ k = Legacy)
    /\ Note(<<Outcome(k, action)>>)
    /\ UNCHANGED <<policy, minted, revoked, lastRun, handover>>

RunNow ==
    /\ RunDigest /\ Note(RunOutcomes)
    /\ UNCHANGED <<policy, minted, revoked, presented, handover>>

\* The process restarts: keys and journal are new, the override may survive.
Restart ==
    /\ policy' \in {policy, Starter}
    /\ minted' = 0 /\ revoked' = {} /\ presented' = FALSE
    /\ lastRun' = RunOf' /\ journal' = Recorded(<<>>, RunOutcomes')
    /\ checking' = Idle /\ handover' = FALSE

-----------------------------------------------------------------------------
(* Checkpoints.  A submission carries the right value: any other is refused. *)

Begin(check, todo) ==
    checking' = [check |-> check, todo |-> todo, key |-> policy.identity]

\* The store has closed the leaked key and the job runs as another.
BeginRevoked ==
    /\ checking = Idle
    /\ RunDigest /\ journal' = Recorded(journal, RunOutcomes)
    /\ IF Works /\ policy.identity # Legacy /\ Legacy \in revoked
       THEN Begin("whoami", {}) ELSE checking' = Idle
    /\ UNCHANGED <<policy, minted, revoked, presented, handover>>

\* whoami has recognised the leaked key, which is presented and, being revoked, refused;
\* the scorer's header keeps `presented`.  The verdict leaves nothing behind.
ProbeLeaked ==
    /\ checking.check = "whoami"
    /\ journal' = Recorded(journal, <<Outcome(Legacy, Job[1])>>) /\ checking' = Idle
    /\ UNCHANGED <<policy, minted, revoked, lastRun, presented, handover>>

BeginLeast ==
    /\ checking = Idle
    /\ RunDigest /\ journal' = Recorded(journal, RunOutcomes)
    /\ IF Works THEN Begin("probe", {Job[1]} \cup Sensitive) ELSE checking' = Idle
    /\ UNCHANGED <<policy, minted, revoked, presented, handover>>

Expected(action) == IF action = Job[1] THEN "allowed" ELSE "refused"

\* One request at a time, the job's action first, as the key that was resolved.
ProbeLeast(action) ==
    /\ checking.check = "probe" /\ action \in checking.todo
    /\ Job[1] \in checking.todo => action = Job[1]
    /\ journal' = Recorded(journal, <<Outcome(checking.key, action)>>)
    /\ checking' = IF Outcome(checking.key, action) = Expected(action)
                   THEN [checking EXCEPT !.todo = @ \ {action}] ELSE Idle
    /\ UNCHANGED <<policy, minted, revoked, lastRun, presented, handover>>

SettleLeast ==
    /\ checking.check = "probe" /\ checking.todo = {}
    /\ checking' = Idle
    /\ UNCHANGED <<policy, minted, revoked, lastRun, presented, journal, handover>>

Ready == presented /\ Rotated /\ Legacy \in revoked /\ LeastPrivilege /\ Healthy

\* Answered in one go: the job is run and every gate read again.
SignOff ==
    /\ RunDigest /\ Note(RunOutcomes)
    /\ UNCHANGED <<policy, minted, revoked, presented>>
    /\ handover' = (handover \/ Ready')

Next ==
    \/ \E p \in Policies : EditPolicy(p)
    \/ Mint \/ RunNow \/ Restart
    \/ \E k \in 0..MaxMints : Revoke(k) \/ Whoami(k)
    \/ \E k \in 0..MaxMints, action \in Catalog : Act(k, action)
    \/ BeginRevoked \/ ProbeLeaked
    \/ BeginLeast \/ SettleLeast \/ SignOff
    \/ \E action \in Catalog : ProbeLeast(action)

Spec == Init /\ [][Next]_opsVars

-----------------------------------------------------------------------------
(* Properties.                                                             *)

Checkings == [check : {"whoami", "probe", "none"}, todo : SUBSET Catalog, key : 0..MaxMints]
Runs == [ok : BOOLEAN, key : 0..MaxMints \cup {None}, allowed : SUBSET Catalog]

\* Types: in particular only keys that were issued are revoked.
TypeOK ==
    /\ policy \in Policies /\ minted \in 0..MaxMints /\ revoked \subseteq 0..minted
    /\ lastRun \in Runs /\ presented \in BOOLEAN
    /\ journal \in Seq({"allowed", "refused"}) /\ Len(journal) <= MaxJournal
    /\ checking \in Checkings
    /\ handover \in BOOLEAN

\* The gate service_intact is a fact of now, though it is read off an old run: while
\* it is green, running the job again would publish under the same key
\* (secrets.mjs:896-915).
HealthyMeansWorks == Healthy => Works

\* A handover that was signed off stands: whatever is minted, revoked, presented or
\* graded afterwards, until the manifest is edited or the process restarts the job
\* works, under a key that is not the leaked one, and the leaked one opens nothing
\* (secrets.mjs:700-735, 1107-1119).
HandoverStands ==
    handover => Works /\ policy.identity # Legacy /\ LeastPrivilege /\ Legacy \in revoked

OpsSafe == HealthyMeansWorks /\ HandoverStands
=============================================================================
