------------------------------ MODULE SafeExposure ------------------------------
(***************************************************************************)
(* The portal of the StackStack scenario "safe-exposure"                     *)
(* (scenarios/safe-exposure.mjs): an access document the participant edits,  *)
(* read again on every request and decided by its first matching rule; the   *)
(* five groups of probes that measure it through the same handler a request  *)
(* goes through; and the sign-off, which asks three surfaces one request at  *)
(* a time before it measures.                                                *)
(***************************************************************************)
EXTENDS Integers, Sequences, FiniteSets, SequencesExt

CONSTANTS
    None,
    Starting,   \* the documents a sequence of edits starts from, the shipped one among them
    Palette,    \* the rules the participant puts in
    MaxEdits,   \* bound: edits away from a starting document
    MaxWritten  \* bound: drafts of the members at a time, besides the four

\* What the constants have to satisfy; the rules of a document are its own affair.
ExposureDocuments ==
    \A document \in Starting :
        /\ document = [defaultEffect |-> document.defaultEffect, rules |-> document.rules]
        /\ document.defaultEffect \in {"allow", "deny"}
ExposureBounds == MaxEdits \in Nat /\ MaxWritten \in Nat

Account(subject, tenant, role) == [subject |-> subject, tenant |-> tenant, role |-> role]
anzu == Account("sre-anzu", "tenka", "member")
kenji == Account("pm-kenji", "tenka", "member")
mika == Account("mika-hoshino", "hoshino", "member")
daichi == Account("cto-daichi", "tenka", "admin")
accounts == {anzu, kenji, mika, daichi}
Members == accounts \ {daichi}

\* A caller with no key, or with one nobody has, is None.
Draft(name, owner, visibility) ==
    [name |-> name, owner |-> owner.subject, tenant |-> owner.tenant, visibility |-> visibility]
AnzuPrivate == Draft("anzu-private", anzu, "private")
KenjiPrivate == Draft("kenji-private", kenji, "private")
TeamRunbook == Draft("team-runbook", kenji, "team")
HoshinoContract == Draft("hoshino-contract", mika, "private")
Seeds == {AnzuPrivate, KenjiPrivate, TeamRunbook, HoshinoContract}
Created(who, visibility) == Draft("created", who, visibility)
Visibilities == {"private", "team"}
Probe(who) == Draft("probe", who, "private")

\* None is nobody, and no draft.
ExposureNone ==
    None \notin accounts \cup Seeds \cup {Created(who, v) : who \in accounts, v \in Visibilities}

AdminReads == {"handover", "audit", "all-drafts"}

VARIABLES
    policy,     \* access.json with its override, None while it does not load
    edits,      \* edits since a starting document
    drafts,     \* drafts
    asking,     \* the surface the sign-off in flight asks next, or "none"
    signed      \* history: at the instant the sign-off was given every surface held, or "none"

exposureVars == <<policy, edits, drafts, asking, signed>>

Init ==
    /\ policy \in Starting /\ edits = 0 /\ drafts = Seeds /\ asking = "none" /\ signed = "none"

-----------------------------------------------------------------------------
(* The decision.                                                            *)

Satisfies(requirement, who, object) ==
    \/ requirement = "anonymous" /\ who = None
    \/ requirement = "authenticated" /\ who # None
    \/ /\ who # None
       /\ \/ requirement = "role:admin" /\ who.role = "admin"
          \/ requirement = "role:member" /\ who.role = "member"
          \/ requirement = "subject:sre-anzu" /\ who.subject = "sre-anzu"
          \/ requirement = "subject:pm-kenji" /\ who.subject = "pm-kenji"
          \/ requirement = "subject:mika-hoshino" /\ who.subject = "mika-hoshino"
          \/ requirement = "subject:cto-daichi" /\ who.subject = "cto-daichi"
    \/ /\ who # None /\ object # None
       /\ \/ requirement = "owner" /\ object.owner = who.subject
          \/ requirement = "tenant" /\ object.tenant = who.tenant
    \/ requirement = "shared" /\ object # None /\ object.visibility = "team"

Matches(rule, method, path, who, object) ==
    /\ method \in rule.methods /\ path \in rule.paths
    /\ \A requirement \in rule.require : Satisfies(requirement, who, object)

\* The first rule that matches, else the default.
Allowed(method, path, who, object) ==
    LET rules == policy.rules
        matching == {i \in DOMAIN rules : Matches(rules[i], method, path, who, object)}
    IN  IF matching = {} THEN policy.defaultEffect = "allow"
        ELSE rules[CHOOSE i \in matching : \A j \in matching : i <= j].effect = "allow"

\* handle(): what a route needs to name, it needs to find, and a draft needs an owner.
Status(method, path, who, object) ==
    IF policy = None THEN 503
    ELSE IF ~Allowed(method, path, who, object) THEN (IF who = None THEN 401 ELSE 403)
    ELSE IF path \in {"draft", "admin-draft"} /\ object = None THEN 404
    ELSE IF method = "POST" /\ who = None THEN 422
    ELSE 200

Get(path, who) == Status("GET", path, who, None)
Read(who, draft) == Status("GET", "draft", who, IF draft \in drafts THEN draft ELSE None)
Write(who) == Status("POST", "drafts", who, Probe(who))

\* GET /portal/drafts filters by the decision on each.
Listed(who, all) == {draft \in all : Allowed("GET", "draft", who, draft)}

-----------------------------------------------------------------------------
(* The five groups; a probe that writes removes what it wrote.              *)

ServiceIntact ==
    /\ Get("healthz", None) = 200 /\ \A who \in accounts : Get("me", who) = 200
    /\ Read(anzu, AnzuPrivate) = 200 /\ Read(kenji, KenjiPrivate) = 200
    /\ Read(mika, HoshinoContract) = 200 /\ Read(anzu, TeamRunbook) = 200

Erasable(who) == Status("DELETE", "draft", who, Probe(who)) = 200

DraftsUsable ==
    /\ \A who \in {anzu, mika} :
          /\ Write(who) = 200 /\ Erasable(who)
          /\ Status("GET", "draft", who, Probe(who)) = 200
          /\ Get("drafts", who) = 200
    /\ {AnzuPrivate, TeamRunbook} \subseteq Listed(anzu, drafts)
    /\ HoshinoContract \in Listed(mika, drafts)

\* What the group before could write and not remove is still there.
Remaining ==
    drafts \cup {Probe(who) : who \in {w \in {anzu, mika} : Write(w) = 200 /\ ~Erasable(w)}}

\* The probes of the reads.
Scoped ==
    /\ Read(None, AnzuPrivate) = 401
    /\ Read(anzu, KenjiPrivate) = 403 /\ Read(anzu, HoshinoContract) = 403
    /\ Read(mika, AnzuPrivate) = 403 /\ Read(mika, TeamRunbook) = 403

DraftsScoped ==
    /\ Scoped
    /\ Get("drafts", anzu) = 200 /\ Get("drafts", mika) = 200
    /\ \A draft \in Listed(anzu, Remaining) :
          draft.owner = "sre-anzu" \/ (draft.tenant = "tenka" /\ draft.visibility = "team")
    /\ \A draft \in Listed(mika, Remaining) : draft.tenant = "hoshino"
    /\ Status("DELETE", "draft", None, None) = 401
    /\ Write(kenji) = 200 /\ Status("DELETE", "draft", anzu, Probe(kenji)) = 403

AdminAvailable ==
    /\ \A path \in AdminReads : Get(path, daichi) = 200
    /\ Seeds \subseteq drafts
    /\ Write(anzu) = 200 /\ Status("DELETE", "admin-draft", daichi, Probe(anzu)) = 200

AdminSealed ==
    \A who \in Members \cup {None} :
        LET refused == IF who = None THEN 401 ELSE 403
        IN  /\ \A path \in AdminReads : Get(path, who) = refused
            /\ Status("DELETE", "admin-draft", who, None) = refused

MutReady == policy # None /\ ServiceIntact /\ DraftsUsable /\ AdminAvailable /\ AdminSealed
Ready ==
    /\ policy # None
    /\ ServiceIntact /\ DraftsUsable /\ DraftsScoped /\ AdminAvailable /\ AdminSealed

-----------------------------------------------------------------------------
(* The surfaces the sign-off asks over the socket.                          *)

HealthAnswers == Get("healthz", None) = 200

AdminSurfaceAnswers ==
    Get("audit", daichi) = 200 /\ Get("audit", None) = 401 /\ Get("handover", daichi) = 200

DraftSurfaceAnswers ==
    /\ Get("drafts", anzu) = 200 /\ AnzuPrivate \in Listed(anzu, drafts)
    /\ Read(None, AnzuPrivate) = 401 /\ Read(anzu, KenjiPrivate) = 403
    /\ Read(anzu, HoshinoContract) = 403 /\ Read(anzu, TeamRunbook) = 200
    /\ Read(mika, HoshinoContract) = 200

Surfaces == <<"health", "admin", "drafts", "gates">>
Answers(surface) ==
    \/ surface = "health" /\ HealthAnswers
    \/ surface = "admin" /\ AdminSurfaceAnswers
    \/ surface = "drafts" /\ DraftSurfaceAnswers

SignOff ==
    /\ asking = "none" /\ signed = "none"
    /\ asking' = "health" /\ UNCHANGED <<policy, edits, drafts, signed>>

\* A surface that does not answer, or times out, ends the sign-off.
Asked(i) ==
    /\ asking = Surfaces[i] /\ asking # "gates"
    /\ \/ Answers(asking) /\ asking' = Surfaces[i + 1]
       \/ asking' = "none"
    /\ UNCHANGED <<policy, edits, drafts, signed>>

Measured ==
    /\ asking = "gates" /\ asking' = "none"
    /\ signed' = IF ~Ready THEN "none"
                 ELSE IF \A i \in 1..3 : Answers(Surfaces[i]) THEN "whole" ELSE "split"
    /\ UNCHANGED <<policy, edits, drafts>>

-----------------------------------------------------------------------------
(* Requests and edits.                                                      *)

Post(draft, who) ==
    /\ Status("POST", "drafts", who, draft) = 200 /\ Cardinality(drafts \ Seeds) < MaxWritten
    /\ drafts' = drafts \cup {draft} /\ UNCHANGED <<policy, edits, asking, signed>>

Delete(who, draft) ==
    /\ \E path \in {"draft", "admin-draft"} : Status("DELETE", path, who, draft) = 200
    /\ drafts' = drafts \ {draft} /\ UNCHANGED <<policy, edits, asking, signed>>

Edited ==
    LET rules == policy.rules
    IN  {RemoveAt(rules, i) : i \in DOMAIN rules}
        \cup {ReplaceAt(rules, i, rule) : i \in DOMAIN rules, rule \in Palette}
        \cup {InsertAt(rules, i, rule) : i \in 1..Len(rules) + 1, rule \in Palette}

Edit ==
    /\ policy # None /\ edits < MaxEdits
    /\ \/ \E rules \in Edited : policy' = [policy EXCEPT !.rules = rules]
       \/ policy' = [policy EXCEPT !.defaultEffect = IF @ = "allow" THEN "deny" ELSE "allow"]
    /\ edits' = edits + 1 /\ UNCHANGED <<drafts, asking, signed>>

\* The whole document is replaced, or edited on disk so that it does not load.
Replace ==
    /\ policy' \in Starting \cup {None} /\ edits' = 0 /\ UNCHANGED <<drafts, asking, signed>>

Next ==
    \/ SignOff \/ Measured \/ Edit \/ Replace
    \/ \E i \in DOMAIN Surfaces : Asked(i)
    \/ \E who \in {anzu, mika}, v \in Visibilities : Post(Created(who, v), who)
    \/ \E who \in {kenji, daichi}, draft \in drafts : Delete(who, draft)

Spec == Init /\ [][Next]_exposureVars

-----------------------------------------------------------------------------
(* Properties.                                                             *)

TypeOK ==
    /\ edits \in 0..MaxEdits
    /\ drafts \subseteq Seeds \cup {Created(who, v) : who \in accounts, v \in Visibilities}
    /\ asking \in ToSet(Surfaces) \cup {"none"} /\ signed \in {"none", "whole", "split"}
    /\ policy # None => policy.defaultEffect \in {"allow", "deny"}

\* A rule that is about one of the two members of a tenant and not about the other.
Singled ==
    \E i \in DOMAIN policy.rules :
        policy.rules[i].require \cap {"subject:sre-anzu", "subject:pm-kenji"} # {}

\* What the gates certify of the reads, whichever drafts exist (safe-exposure.mjs:640-985).
\* A member the probes ask as reads what is theirs and what their team shares and nothing
\* else. Their colleague is asked for one read alone: a document that singles out neither of
\* the two treats them alike, and one that does may let the colleague read more or less than
\* that. Without a key nothing private is read. An author's own shared draft is what no
\* probe reads.
ReadsRight ==
    Ready =>
        \A draft \in drafts :
            /\ \A who \in Members :
                  LET own == draft.owner = who.subject
                      teams == draft.tenant = who.tenant /\ draft.visibility = "team"
                      mayRead == Allowed("GET", "draft", who, draft)
                  IN  /\ own /\ ~teams => mayRead
                      /\ ~(who = kenji /\ Singled) /\ ~(own /\ teams) => (mayRead <=> own \/ teams)
            /\ draft.visibility = "private" => ~Allowed("GET", "draft", None, draft)

\* A draft of the business that is gone is never called fine (safe-exposure.mjs:880-905).
NothingLost == Ready => Seeds \subseteq drafts

\* The three surfaces and the five gates hold at the same instant when the sign-off is
\* given, though they were asked before (safe-exposure.mjs:1446-1462).
SignedWhole == signed # "split"

ExposureSafe == ReadsRight /\ NothingLost /\ SignedWhole
================================================================================
