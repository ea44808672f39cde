----------------------------- MODULE MCStackBuild -----------------------------
(* A StackStack container that loads one scenario at boot (server.mjs): the  *)
(* board itself, "ship", "secrets", "vibe-build" or "first-request", where    *)
(* the server's own ways are looked at.  The scenarios share nothing but the  *)
(* server, so a container runs the steps of the one it has.  Of "vibe-build"   *)
(* the child and the queue are one behaviour, what the gates ask of the search *)
(* ("vibe-gates") another.                                                    *)
EXTENDS Shipyard, TLC

CONSTANTS
    NightlyJob, Dangerous, GrantSets, Journal, Mintings,           \* OpsKeys
    FeatureVisitors, Pending, MostQueued, ProbesPerRun, Savings,   \* VibeBuild
    SettingKeys, BoardPosts, BoardAsking,                          \* StackBoard
    FrontSlots, Routes, BodySize, FaultsKept, Signatures,          \* FirstRequest
    PageHolds, LotsImported, PostsMeanwhile                        \* SearchGates

VARIABLES
    scenario,
    policy, minted, revoked, lastRun, presented, journal, checking, handover,
    code, saved, child, pending, mute, doomed, spoiled, queue, run, measured, receipt, scorer,
    file, override, posts, bodies, observed, wrote, settings, step, previous, taken, broken,
    inbox, asked, doorOpened, entries, proven, faults, faulted, told,
    impl, gate, request, batch, lot, said, verdicts, crowded

Ops == INSTANCE OpsKeys WITH
    Job <- NightlyJob, Sensitive <- Dangerous, Grants <- GrantSets, MaxJournal <- Journal,
    MaxMints <- Mintings

Vibe == INSTANCE VibeBuild WITH
    Visitors <- FeatureVisitors, MaxPending <- Pending, MaxQueued <- MostQueued,
    Probes <- ProbesPerRun, MaxSaves <- Savings

Board == INSTANCE StackBoard WITH
    asking <- bodies, Keys <- SettingKeys, MaxPosts <- BoardPosts, MaxAsking <- BoardAsking

Front == INSTANCE FirstRequest WITH
    observed <- asked, Slots <- FrontSlots, MaxBody <- BodySize, MaxFaults <- FaultsKept,
    MaxEntries <- Signatures, Visited <- Routes

Search == INSTANCE SearchGates WITH
    Most <- PageHolds, MaxLots <- LotsImported, MaxSaid <- PostsMeanwhile

ASSUME StackBounds ==
    /\ Ops!OpsBounds /\ Ops!OpsGrants /\ Ops!OpsStarter
    /\ Vibe!VibeBounds /\ Board!BoardBounds /\ Front!FrontBounds /\ Search!SearchBounds

opsVars == <<policy, minted, revoked, lastRun, presented, journal, checking, handover>>
vibeVars == <<code, saved, child, pending, mute, doomed, spoiled, queue, run, measured, receipt,
              scorer>>
boardVars == <<file, override, posts, bodies, observed, wrote, settings, step, previous, taken,
               broken>>
frontVars == <<inbox, asked, doorOpened, entries, proven, faults, faulted, told>>
gateVars == <<impl, gate, request, batch, lot, said, verdicts, crowded>>

\* The scenario is the container's SCENARIO and does not change.
StackInit ==
    /\ scenario \in {"ship", "secrets", "vibe-build", "onboarding", "first-request",
                    "vibe-gates"}
    /\ Init /\ Ops!Init /\ Vibe!Init /\ Board!Init /\ Front!Init /\ Search!Init
    /\ scenario # "vibe-gates" => impl = {}

StackNext ==
    /\ UNCHANGED scenario
    /\ \/ scenario = "ship" /\ Next /\ UNCHANGED <<opsVars, vibeVars, boardVars, frontVars, gateVars>>
       \/ scenario = "secrets" /\ Ops!Next
          /\ UNCHANGED <<shipVars, vibeVars, boardVars, frontVars, gateVars>>
       \/ scenario = "vibe-build" /\ Vibe!Next
          /\ UNCHANGED <<shipVars, opsVars, boardVars, frontVars, gateVars>>
       \/ scenario = "onboarding" /\ Board!Next
          /\ UNCHANGED <<shipVars, opsVars, vibeVars, frontVars, gateVars>>
       \/ scenario = "first-request" /\ Front!Next
          /\ UNCHANGED <<shipVars, opsVars, vibeVars, boardVars, gateVars>>
       \/ scenario = "vibe-gates" /\ Search!Next
          /\ UNCHANGED <<shipVars, opsVars, vibeVars, boardVars, frontVars>>

stackVars == <<scenario, shipVars, opsVars, vibeVars, boardVars, frontVars, gateVars>>

StackSpec == StackInit /\ [][StackNext]_stackVars

VisitorSymmetry == Permutations(FeatureVisitors)

\* What the checks give the constants (.cfg files name no sequence and no set of sets).
CountAndPublish == <<"count", "publish">>
SomeGrants == {{"count", "publish", "export"}, {"count", "publish"}, {"count", "export"}}
PlayedRoutes == {"GET/api/postcard", "GET/api/door", "GET/posture", "POST/api/guestbook",
                 "POST/verify"}

\* A run called healthy is one the key of today still makes, and the sign-off of the
\* manifest in force stands (OpsKeys: HealthyMeansWorks, HandoverStands).
OpsSafe == scenario = "secrets" => Ops!TypeOK /\ Ops!OpsSafe

\* A call that waits is one the child was given, the gate of a saved feature is true of
\* it, and a run measured one feature from end to end (VibeBuild: CallsServed,
\* SavedGateTrue, RunTrue).
VibeSafe == scenario = "vibe-build" => Vibe!TypeOK /\ Vibe!VibeSafe

\* A board that will not read its configuration has its file to blame, a write counts
\* until the process ends, and a refused change keeps what was there; a request is answered
\* once, faults show, and the round trip is credited to those who made it (StackBoard:
\* FileToBlame, WriteRemembered, RefusalKeeps; FirstRequest: FrontSafe).
BoardSafe ==
    /\ scenario = "onboarding" => Board!TypeOK /\ Board!BoardSafe
    /\ scenario = "first-request" => Front!TypeOK /\ Front!FrontSafe

\* What the gates say of a search is what the rules say of it on the inputs they are about,
\* whatever else the archive holds meanwhile but for a post with a word they ask for
\* (SearchGates: VerdictOfFunction, GreenMeansRules, GreenMeansNoMore, NoneImplied).
GradingSound == scenario = "vibe-gates" => Search!TypeOK /\ Search!GradingSound

\* "A gate is green when the last measurement of *this* version of the feature file
\* said so." (vibe-build.mjs:1651)
GateOfThisVersion == scenario = "vibe-build" => Vibe!GateOfThisVersion
=============================================================================
