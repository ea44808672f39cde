------------------------------- MODULE StackBoard -------------------------------
(***************************************************************************)
(* The board every StackStack problem runs on (server.mjs, config.mjs,       *)
(* overrides.mjs, board.mjs, posture.mjs) with the scenario "onboarding"     *)
(* (scenarios/onboarding.mjs): a mounted file under an override that the API *)
(* writes to /tmp, posts kept in memory, gates measured from what was served *)
(* and answered, and a scenario's own settings, which are written first and  *)
(* taken back when they do not load.                                         *)
(***************************************************************************)
EXTENDS Integers, Sequences, FiniteSets, SequencesExt

CONSTANTS
    Keys,       \* the settings of a scenario
    MaxPosts,   \* MAX_POSTS
    MaxAsking   \* bound: posts whose body is on its way

\* What the constants have to satisfy: the posts of the board itself are kept.
BoardBounds == MaxPosts \in Nat \ {0, 1} /\ MaxAsking \in Nat

Values == {"missing", "wrong", "open", "closed"}

\* app.json: acceptingPosts and its other keys, or no JSON object at all.
Unparsed == [accepting |-> "closed", others |-> "unread"]
Files == [accepting : Values, others : {"good", "bad"}] \cup {Unparsed}
GoodFile == [accepting |-> "closed", others |-> "good"]

VARIABLES
    file,       \* the mounted app.json
    override,   \* acceptingPosts in the override of /tmp
    posts,      \* posts: "seed" or "own", oldest first
    asking,     \* POST /api/posts that passed the check and wait for their body
    observed,   \* observed and proven: what was looked at or answered
    wrote,      \* history: a post was accepted since the process started
    settings,   \* the scenario's override: a value per key, "missing" where it has none
    step,       \* where PATCH /api/settings is: "rest", "written", "cleared"
    previous,   \* what it read before it wrote, while it runs
    taken,      \* history: the settings last taken
    broken      \* history: the process has died inside such a PATCH

boardVars == <<file, override, posts, asking, observed, wrote, settings, step, previous, taken,
               broken>>

NoSettings == [key \in Keys |-> "missing"]

\* resetBoard(): the board ships with posts of its own.
Seeded == <<"seed", "seed">>

Init ==
    /\ file = GoodFile /\ override = "missing" /\ posts = Seeded /\ asking = 0
    /\ observed = {} /\ wrote = FALSE
    /\ settings = NoSettings /\ step = "rest" /\ previous = NoSettings /\ taken = NoSettings
    /\ broken = FALSE

-----------------------------------------------------------------------------
(* config.mjs.                                                              *)

Merged == IF override = "missing" THEN file.accepting ELSE override
ConfigOk == file.others = "good" /\ Merged \in {"open", "closed"}

\* readConfig(): the values fall back, key by key while the file parses.
Accepting ==
    IF file = Unparsed \/ Merged \notin {"open", "closed"} THEN "closed" ELSE Merged

Open == ConfigOk /\ Accepting = "open"

\* applyConfigChange() coerces what it merges: a wrong type is turned away, while
\* what is wrong with the file itself is not seen.
MutAccepts(value) == TRUE
Accepts(value) == value \in {"open", "closed"}

PatchConfig(value) ==
    /\ step = "rest"
    /\ override' = IF Accepts(value) THEN value ELSE override
    /\ UNCHANGED <<file, posts, asking, observed, wrote, settings, step, previous, taken, broken>>

DeleteConfig ==
    /\ step = "rest"
    /\ override' = "missing"
    /\ UNCHANGED <<file, posts, asking, observed, wrote, settings, step, previous, taken, broken>>

EditFile ==
    /\ file' \in Files
    /\ UNCHANGED <<override, posts, asking, observed, wrote, settings, step, previous, taken,
                   broken>>

-----------------------------------------------------------------------------
(* The board.                                                               *)

Look(what) ==
    /\ step = "rest"
    /\ observed' = observed \cup {what}
    /\ UNCHANGED <<file, override, posts, asking, wrote, settings, step, previous, taken, broken>>

\* The config is checked before the body is awaited, and not again.
AskPost ==
    /\ step = "rest" /\ Open /\ asking < MaxAsking
    /\ asking' = asking + 1
    /\ UNCHANGED <<file, override, posts, observed, wrote, settings, step, previous, taken, broken>>

Kept(all) == IF Len(all) > MaxPosts THEN Tail(all) ELSE all

\* The body arrives, and may be refused.
Body(valid) ==
    /\ step = "rest" /\ asking > 0 /\ asking' = asking - 1
    /\ posts' = IF valid THEN Kept(Append(posts, "own")) ELSE posts
    /\ wrote' = (wrote \/ valid)
    /\ UNCHANGED <<file, override, observed, settings, step, previous, taken, broken>>

-----------------------------------------------------------------------------
(* PATCH and DELETE /api/settings: one handler, which a crash may cut.       *)

Loads(values) == \A key \in Keys : values[key] # "bad"

PatchSettings(patch) ==
    /\ step = "rest"
    /\ previous' = settings
    /\ settings' = [key \in Keys |-> IF patch[key] = "missing" THEN settings[key] ELSE patch[key]]
    /\ step' = "written"
    /\ UNCHANGED <<file, override, posts, asking, observed, wrote, taken, broken>>

SettingsTaken ==
    /\ step = "written" /\ Loads(settings)
    /\ step' = "rest" /\ taken' = settings /\ previous' = NoSettings
    /\ UNCHANGED <<file, override, posts, asking, observed, wrote, settings, broken>>

SettingsCleared ==
    /\ step = "written" /\ ~Loads(settings)
    /\ settings' = NoSettings /\ step' = "cleared"
    /\ UNCHANGED <<file, override, posts, asking, observed, wrote, previous, taken, broken>>

Restored == previous

SettingsRestored ==
    /\ step = "cleared"
    /\ settings' = Restored /\ step' = "rest" /\ previous' = NoSettings
    /\ UNCHANGED <<file, override, posts, asking, observed, wrote, taken, broken>>

DeleteSettings ==
    /\ step = "rest"
    /\ settings' = NoSettings /\ taken' = NoSettings /\ broken' = FALSE
    /\ UNCHANGED <<file, override, posts, asking, observed, wrote, step, previous>>

\* The container restarts: /tmp stays, memory does not.
Restart ==
    /\ posts' = Seeded /\ asking' = 0 /\ observed' = {} /\ wrote' = FALSE
    /\ step' = "rest" /\ previous' = NoSettings /\ broken' = (broken \/ step # "rest")
    /\ UNCHANGED <<file, override, settings, taken>>

Next ==
    \/ \E value \in Values \ {"missing"} : PatchConfig(value)
    \/ \E what \in {"board", "logs"} : Look(what)
    \/ \E valid \in BOOLEAN : Body(valid)
    \/ \E patch \in [Keys -> {"missing", "good", "bad"}] : PatchSettings(patch)
    \/ DeleteConfig \/ EditFile \/ AskPost
    \/ SettingsTaken \/ SettingsCleared \/ SettingsRestored \/ DeleteSettings \/ Restart

Spec == Init /\ [][Next]_boardVars

-----------------------------------------------------------------------------
(* The gates.                                                               *)

PostCreated == Contains(posts, "own")
Ready == {"board", "logs"} \subseteq observed /\ Open /\ PostCreated

-----------------------------------------------------------------------------
(* Properties.                                                             *)

TypeOK ==
    /\ file \in Files /\ override \in Values /\ asking \in 0..MaxAsking
    /\ Len(posts) <= MaxPosts /\ \A i \in DOMAIN posts : posts[i] \in {"seed", "own"}
    /\ observed \subseteq {"board", "logs"} /\ wrote \in BOOLEAN /\ broken \in BOOLEAN
    /\ step \in {"rest", "written", "cleared"}
    /\ {settings, previous, taken} \subseteq [Keys -> {"missing", "good", "bad"}]

\* A board that will not read its configuration is a matter of the mounted file: no
\* sequence of calls to the API leaves it so (config.mjs:113-128, overrides.mjs:67-76).
FileToBlame ==
    ~ConfigOk => \/ file.others \in {"bad", "unread"}
                 \/ override = "missing" /\ file.accepting \notin {"open", "closed"}

\* An accepted post counts until the process ends, however many follow it, though the
\* board drops its oldest (board.mjs:70-76, onboarding.mjs:66).
WriteRemembered == PostCreated <=> wrote

\* A change that is refused leaves what was taken before it, to the letter, unless the
\* process has died inside a change (server.mjs:217-228).
RefusalKeeps == step = "rest" /\ ~broken => settings = taken /\ Loads(settings)

BoardSafe == FileToBlame /\ WriteRemembered /\ RefusalKeeps
================================================================================
