----------------------------- MODULE MCStackWatch -----------------------------
(* The other scenarios a StackStack container may load at boot (server.mjs): *)
(* "gameday", "observability", "recover", "defend" and "safe-exposure".      *)
EXTENDS GameDay, TLC

CONSTANTS
    ArchiveOffered, ArchiveBoard, ArchivePrologue, ArchiveLog, ArchivePosts,
    ArchiveEpochs,                                                             \* "observability"
    DrillWindow, DrillDrafts,   \* "defend": the window, and the drafts it mints
    OutagePolicies, OutageStarter, OutageSlots, OutageLedger, OutageChanges,   \* "recover"
    PortalStarting, PortalPalette, PortalEdits, PortalWritten   \* "safe-exposure"

VARIABLES
    scenario,
    settings, seen, epoch, served, posts, nextId, lastRelayed, counted, logged, evicted, watched,
    rules, changes, shedding, probes, lastProbe, lastDigest, output, restart, healed, restarted,
    kind, drill, untabled, round, parity, history, clean, spent, tested,
    policy, edits, drafts, asking, signed

-----------------------------------------------------------------------------
(* The day: three phases that ask for a fact, one probe that sends a request *)
(* and one that reads what the tick found.                                   *)

DayFacts == {"site", "desk", "dropped"}
DayNeeds == [name \in PhaseNames |->
    IF name = "ship" THEN {"site"} ELSE IF name = "attack" THEN {"desk"}
    ELSE IF name = "incident" THEN {"dropped"} ELSE {}]
DaySecure == {"desk"}
DayPlan == [name \in PhaseNames |->
    IF name = "join" THEN 0 ELSE IF name \in {"build", "ship", "expose"} THEN 1 ELSE 2]
DayProbes == [site |-> "join", desk |-> "incident"]
DayRequested == <<"site">>

-----------------------------------------------------------------------------
(* The other scenarios.                                                     *)

With(logging, deps, detail) == [logging |-> logging, probes |-> deps, detail |-> detail]
FiveSettings ==
    {With("off", {"config"}, "full"), With("on", {"config", "archive"}, "masked"),
     With("on", {"archive"}, "safe"), With("on", {"config", "archive"}, "safe"),
     With("on", {}, "minimal")}
Archive == INSTANCE Relay WITH
    Offered <- ArchiveOffered, BoardKeeps <- ArchiveBoard, Prologue <- ArchivePrologue,
    LogKeeps <- ArchiveLog, MaxPosts <- ArchivePosts, MaxEpochs <- ArchiveEpochs

Edge(covers, scope) ==
    [ok |-> TRUE, covers |-> covers, strong |-> TRUE, scope |-> scope, job |-> TRUE]
Dark == Edge({"healthz", "board", "posts"}, "none")
TwoPolicies == {Dark, Edge({"posts"}, "narrow")}
Outage == INSTANCE Recover WITH
    Policies <- OutagePolicies, Starter <- OutageStarter, Slots <- OutageSlots,
    LedgerMax <- OutageLedger, MaxChanges <- OutageChanges

Drill == INSTANCE Defend WITH Window <- DrillWindow, MaxDrill <- DrillDrafts

Methods == {"GET", "POST", "DELETE"}
AdminPaths == {"handover", "audit", "all-drafts", "admin-draft"}
AllPaths == AdminPaths \cup {"healthz", "me", "drafts", "draft"}
Rule(effect, methods, paths, require) ==
    [effect |-> effect, methods |-> methods, paths |-> paths, require |-> require]
Sound ==
    <<Rule("allow", Methods, AdminPaths, {"role:admin"}), Rule("deny", Methods, AdminPaths, {}),
      Rule("allow", {"GET"}, {"healthz"}, {}), Rule("deny", Methods, AllPaths, {"anonymous"}),
      Rule("allow", Methods, {"draft"}, {"owner"}),
      Rule("allow", {"GET"}, {"draft"}, {"tenant", "shared"}), Rule("deny", Methods, {"draft"}, {})>>
SoundOrEmpty == {[defaultEffect |-> "allow", rules |-> Sound],
                 [defaultEffect |-> "allow", rules |-> <<>>]}
SmallPalette ==
    {Rule("allow", {"GET"}, {"draft"}, {require}) :
         require \in {"tenant", "shared", "authenticated", "owner", "role:member",
                      "subject:pm-kenji", "subject:sre-anzu"}}
    \cup {Rule("deny", {"GET"}, {"draft"}, {require}) : require \in {"shared", "owner"}}
    \cup {Rule("allow", {"GET"}, {"draft"}, {"shared", "subject:sre-anzu"}),
          Rule("allow", Methods, AllPaths, {"role:admin"}),
          Rule("deny", Methods, AllPaths, {}),
          Rule("allow", {"DELETE"}, {"draft"}, {"tenant"})}
Portal == INSTANCE SafeExposure WITH
    Starting <- PortalStarting, Palette <- PortalPalette, MaxEdits <- PortalEdits,
    MaxWritten <- PortalWritten

ASSUME WatchBounds ==
    /\ Archive!RelayBounds
    /\ Outage!RecoverPolicies /\ Outage!RecoverBounds
    /\ Drill!DefendBounds
    /\ Portal!ExposureDocuments /\ Portal!ExposureNone /\ Portal!ExposureBounds

-----------------------------------------------------------------------------
relayVars == <<settings, seen, epoch, served, posts, nextId, lastRelayed, counted, logged,
               evicted, watched>>
recoverVars == <<rules, changes, shedding, probes, lastProbe, lastDigest, output, restart,
                 healed, restarted>>
defendVars == <<kind, drill, untabled, round, parity, history, clean, spent, tested>>
exposureVars == <<policy, edits, drafts, asking, signed>>

\* The scenario is the container's SCENARIO and does not change; what the others
\* would start from is fixed.
WatchInit ==
    /\ scenario \in {"gameday", "observability", "recover", "defend", "safe-exposure"}
    /\ Init /\ Archive!Init /\ Outage!Init /\ Drill!Init /\ Portal!Init
    /\ scenario # "observability" => settings = With("on", {"archive"}, "safe")
    /\ scenario # "safe-exposure" => policy.rules = <<>>

WatchNext ==
    /\ UNCHANGED scenario
    /\ \/ scenario = "gameday" /\ Next
          /\ UNCHANGED <<relayVars, recoverVars, defendVars, exposureVars>>
       \/ scenario = "observability" /\ Archive!Next
          /\ UNCHANGED <<dayVars, recoverVars, defendVars, exposureVars>>
       \/ scenario = "recover" /\ Outage!Next
          /\ UNCHANGED <<dayVars, relayVars, defendVars, exposureVars>>
       \/ scenario = "defend" /\ Drill!Next
          /\ UNCHANGED <<dayVars, relayVars, recoverVars, exposureVars>>
       \/ scenario = "safe-exposure" /\ Portal!Next
          /\ UNCHANGED <<dayVars, relayVars, recoverVars, defendVars>>

watchVars == <<scenario, dayVars, relayVars, recoverVars, defendVars, exposureVars>>

WatchSpec == WatchInit /\ [][WatchNext]_watchVars

\* Every post is relayed once, the lines of an epoch show what its settings show, and
\* an honest health check was asked (Relay: Conserved, LeakShutTrue, HonestServed).
RelaySafe == scenario = "observability" => Archive!TypeOK /\ Archive!RelaySafe

\* The gates are true of the policy in force whatever probes overlapped, and a restart
\* before the fix does not count (Recover: GatesTrue, RestartUnderFix).
RecoverSafe == scenario = "recover" => Outage!TypeOK /\ Outage!RecoverSafe

\* A blunt policy and a table of ids lose the hold, and a right one keeps it but for
\* the participant's own traffic (Defend: BluntLoses, TableLoses, RightHolds,
\* RightRegains).
DefendSafe == scenario = "defend" => Drill!TypeOK /\ Drill!DefendSafe

\* Under a document the gates pass those the probes ask as read what they may, the others
\* as far as no rule singles them out, nothing is lost, and the sign-off
\* is of one instant (SafeExposure: ReadsRight, NothingLost, SignedWhole).
ExposureSafe == scenario = "safe-exposure" => Portal!TypeOK /\ Portal!ExposureSafe
=============================================================================
