------------------------------- MODULE Shipyard -------------------------------
(***************************************************************************)
(* The release plane of the StackStack scenario "ship" (scenarios/ship.mjs): *)
(* a manifest is deployed in stages, one release is live, and the site signs *)
(* what it serves with the key its release resolved.  A release that names   *)
(* the key by reference follows a rotation; one that holds a copy does not.  *)
(*                                                                         *)
(* Every handler runs to its end without yielding, except the checkpoints,  *)
(* which ask the site over HTTP and answer later: other requests come        *)
(* between (Ask, Probe, Verdict).                                            *)
(***************************************************************************)
EXTENDS Integers, FiniteSets

CONSTANTS
    None,         \* no live release, nothing served
    MaxDeploys,   \* bound of the model: deploys between two restarts
    MaxVersion    \* bound of the model: versions of the signing key

ASSUME ShipBounds == MaxDeploys \in Nat /\ MaxVersion \in Nat \ {0}
ASSUME ShipNone == None \notin Nat

Bindings == {"reference", "literal"}
\* A manifest that read-manifest, resolve-artifact or resolve-config refuses, or
\* one that starts: with a reference to the key, or with a copy of one version of
\* it (0 is no version's).
Manifests == [starts : {FALSE}, binding : {"literal"}, key : {0}]
    \cup [starts : {TRUE}, binding : {"reference"}, key : {0}]
    \cup [starts : {TRUE}, binding : {"literal"}, key : 0..MaxVersion]
Releases == [state : {"failed", "live", "superseded"}, generation : Nat, binding : Bindings]
Checks == {"rotation-survives", "clean-cutover"}

VARIABLES
    manifest,     \* release.json with its override
    known,        \* the newest version whose value anyone may have read
    version,      \* secretStore's version of the key
    releases,     \* release records by number (`rel-N`)
    literalKeys,  \* literalKeys: the copied key of a release, by number
    generation,   \* generation
    counter,      \* releaseCounter
    liveId,       \* liveId
    lastServed,   \* lastServedOk's generation
    asking,       \* the checkpoint in flight and the site's answer to it
    credited      \* history: the checks credited for what is live now

shipVars == <<manifest, known, version, releases, literalKeys, generation, counter,
              liveId, lastServed, asking, credited>>

\* The manifest as shipped names an artifact of another machine.
Laptop == [starts |-> FALSE, binding |-> "literal", key |-> 0]
Idle == [phase |-> "idle"]

\* The predecessor's failed attempt is there from boot.
Abandoned == [state |-> "failed", generation |-> 0, binding |-> "literal"]

Boot ==
    /\ version' = 1
    /\ releases' = [i \in {0} |-> Abandoned]
    /\ literalKeys' = [i \in {} |-> 0]
    /\ generation' = 0 /\ counter' = 0
    /\ liveId' = None /\ lastServed' = None

Init ==
    /\ manifest = Laptop /\ known = 1 /\ version = 1
    /\ releases = [i \in {0} |-> Abandoned]
    /\ literalKeys = [i \in {} |-> 0]
    /\ generation = 0 /\ counter = 0
    /\ liveId = None /\ lastServed = None
    /\ asking = Idle /\ credited = {}

-----------------------------------------------------------------------------
(* What the site answers.                                                  *)

Live == releases[liveId]

\* The version of the key release i signs with while the store holds `epoch`.
KeyAt(i, epoch) == IF releases[i].binding = "reference" THEN epoch ELSE literalKeys[i]

\* Status 200 at an epoch: the live release's signature verifies.
Answers(epoch) == liveId # None /\ KeyAt(liveId, epoch) = epoch

Serving == Answers(version)

\* The store is asked one version ahead and does not move.
Survives == Answers(version + 1)

ServedCurrent == liveId # None /\ lastServed # None /\ lastServed = Live.generation

SiteServing == Serving /\ ServedCurrent
SurvivesRotation == Serving /\ Survives
SingleRelease == liveId # None /\ DOMAIN releases = {liveId}

\* posture(): ready when every gate is green.
Ready == SiteServing /\ SurvivesRotation /\ SingleRelease

-----------------------------------------------------------------------------
(* The manifest and the pipeline.                                          *)

\* PATCH and DELETE /api/settings, or the mounted file.
EditManifest(m) ==
    /\ m.key <= known
    /\ manifest' = m
    /\ UNCHANGED <<known, version, releases, literalKeys, generation, counter, liveId,
                   lastServed, asking, credited>>

\* The health gate: the candidate signs with the key of now.
MutPassesGate(m) == TRUE

PassesGate(m) == m.binding = "reference" \/ m.key = version

With(f, i, v) == [j \in DOMAIN f \cup {i} |-> IF j = i THEN v ELSE f[j]]
Without(f, i) == [j \in DOMAIN f \ {i} |-> f[j]]

\* A release refused at the health gate keeps the generation it would have had.
GenerationAt(m) == IF m.starts THEN generation + 1 ELSE 0

\* failedAt: a failed record is kept, and what is live goes on serving.
Refuse(m) ==
    /\ ~m.starts \/ ~PassesGate(m)
    /\ releases' = With(releases, counter + 1,
         [state |-> "failed", generation |-> GenerationAt(m),
          binding |-> m.binding])
    /\ UNCHANGED <<literalKeys, generation, liveId, credited>>

Superseded ==
    [i \in DOMAIN releases |->
        IF i = liveId THEN [releases[i] EXCEPT !.state = "superseded"] ELSE releases[i]]

\* promote: the previous release steps down, this one is live.
Promote(m) ==
    /\ m.starts /\ PassesGate(m)
    /\ releases' = With(Superseded, counter + 1,
         [state |-> "live", generation |-> generation + 1,
          binding |-> m.binding])
    /\ literalKeys' =
         IF m.binding = "literal" THEN With(literalKeys, counter + 1, m.key) ELSE literalKeys
    /\ generation' = generation + 1
    /\ liveId' = counter + 1
    /\ credited' = {}

Deploy ==
    /\ counter < MaxDeploys
    /\ counter' = counter + 1
    /\ Refuse(manifest) \/ Promote(manifest)
    /\ UNCHANGED <<manifest, known, version, lastServed, asking>>

\* Deleting what serves is permitted, and takes the site down.
Remove(i) ==
    /\ i \in DOMAIN releases
    /\ releases' = Without(releases, i)
    /\ literalKeys' = Without(literalKeys, i)
    /\ liveId' = IF liveId = i THEN None ELSE liveId
    /\ lastServed' = IF liveId = i THEN None ELSE lastServed
    /\ credited' = IF liveId = i THEN {} ELSE credited
    /\ UNCHANGED <<manifest, known, version, generation, counter, asking>>

Later(a, b) == IF a >= b THEN a ELSE b

Rotate ==
    /\ version < MaxVersion
    /\ version' = version + 1
    /\ known' = Later(known, version + 1)
    /\ UNCHANGED <<manifest, releases, literalKeys, generation, counter, liveId,
                   lastServed, asking, credited>>

\* noteServed: only an answer to somebody other than the scorer is remembered.
Visit ==
    /\ Serving
    /\ lastServed' = Live.generation
    /\ UNCHANGED <<manifest, known, version, releases, literalKeys, generation, counter,
                   liveId, asking, credited>>

\* The process restarts: its memory is new, the override under /tmp may survive.
Restart ==
    /\ Boot
    /\ manifest' \in {manifest, Laptop}
    /\ asking' = Idle /\ credited' = {}
    /\ UNCHANGED known

-----------------------------------------------------------------------------
(* Checkpoints: the site is asked first, the gates are read when it answered. *)

\* A submission carries the right token: any other is refused at once.
Ask(check) ==
    /\ asking = Idle
    /\ asking' = [phase |-> "asked", check |-> check]
    /\ UNCHANGED <<manifest, known, version, releases, literalKeys, generation, counter,
                   liveId, lastServed, credited>>

Probe ==
    /\ asking.phase = "asked"
    /\ asking' = [phase |-> "answered", check |-> asking.check, site |-> Serving]
    /\ UNCHANGED <<manifest, known, version, releases, literalKeys, generation, counter,
                   liveId, lastServed, credited>>

MutCredited(a) == a.site

Credited(a) ==
    /\ a.site
    /\ a.check = "rotation-survives" => SurvivesRotation
    /\ a.check = "clean-cutover" => Ready

Verdict ==
    /\ asking.phase = "answered"
    /\ asking' = Idle
    /\ credited' = credited \cup {check \in {asking.check} : Credited(asking)}
    /\ UNCHANGED <<manifest, known, version, releases, literalKeys, generation, counter,
                   liveId, lastServed>>

Next ==
    \/ \E m \in Manifests : EditManifest(m)
    \/ Deploy \/ Rotate \/ Visit \/ Restart
    \/ \E i \in DOMAIN releases : Remove(i)
    \/ \E check \in Checks : Ask(check)
    \/ Probe \/ Verdict

Spec == Init /\ [][Next]_shipVars

-----------------------------------------------------------------------------
(* Properties.                                                             *)

Asked == [phase : {"asked"}, check : Checks]
Answered == [phase : {"answered"}, check : Checks, site : BOOLEAN]

\* Types: records and copied keys are filed under numbers the counter has given out.
TypeOK ==
    /\ manifest \in Manifests /\ version \in 1..MaxVersion /\ known \in version..MaxVersion
    /\ generation \in Nat /\ counter \in Nat /\ DOMAIN releases \subseteq 0..counter
    /\ releases \in [DOMAIN releases -> Releases]
    /\ literalKeys \in [DOMAIN literalKeys -> 0..MaxVersion]
    /\ liveId \in Nat \cup {None} /\ lastServed \in Nat \cup {None}
    /\ asking \in {Idle} \cup Asked \cup Answered
    /\ credited \subseteq Checks

\* The live release is the one listed record in state "live" and the newest that
\* was ever promoted and still stands, whatever was deleted (ship.mjs:446-455, 483-499).
LiveListed ==
    /\ \A i \in DOMAIN releases : releases[i].state = "live" <=> i = liveId
    /\ liveId # None =>
         /\ liveId \in DOMAIN releases /\ Live.generation = generation
         /\ \A i \in DOMAIN releases : releases[i].state = "superseded" =>
                i < liveId /\ releases[i].generation < generation

\* A copied key is kept for a promoted, listed release alone, and for each of
\* those that holds one: a refused candidate leaves none (ship.mjs:432, 442, 487).
KeysOfPromoted ==
    DOMAIN literalKeys = {i \in DOMAIN releases :
        releases[i].binding = "literal" /\ releases[i].state # "failed"}

\* A copy is never newer than the store: no pasted key survives the next rotation
\* (ship.mjs:276-283).
CopiesAge == \A i \in DOMAIN literalKeys : literalKeys[i] <= version

\* What was credited holds: until another release is promoted, the live one is
\* deleted or the process restarts, the site serves through every rotation, and
\* after a cutover somebody but the scorer has seen it serve (ship.mjs:883-903).
CreditHolds ==
    /\ credited # {} => SurvivesRotation
    /\ "clean-cutover" \in credited => SiteServing

ShipSafe == LiveListed /\ KeysOfPromoted /\ CopiesAge /\ CreditHolds

\* No deploy, refused or promoted, takes a serving site down (ship.mjs:410-412,
\* 434-444): the candidate is checked first, and replaces nothing until it passes.
DeployKeepsServing == [][counter' > counter /\ Serving => Serving']_shipVars
=============================================================================
