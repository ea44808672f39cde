-------------------------------- MODULE Defend --------------------------------
(***************************************************************************)
(* The drill of the StackStack scenario "defend" (scenarios/defend.mjs):     *)
(* rounds of real requests, each judged against the rule the board should    *)
(* follow, a window of the last rounds, a hold that one bad round breaks,    *)
(* and drafts that the drill mints and retires so that a policy written      *)
(* against today's draft ids goes stale.  A round takes many requests: the   *)
(* participant edits, writes and reads in between.                           *)
(***************************************************************************)
EXTENDS Integers, Sequences, FiniteSets, SequencesExt

CONSTANTS
    Window,     \* WINDOW_ROUNDS
    MaxDrill    \* MAX_DRILL_DRAFTS

\* What the constants have to satisfy.
DefendBounds == Window \in Nat /\ Window >= 3 /\ MaxDrill \in Nat \ {0}

\* Policies by what they decide: nobody is refused, the rule of the memo, a table
\* of the draft ids of the day it was written, no answer but 503.
Kinds == {"open", "right", "table", "off"}
\* What a round saw of a class of probes: all as they should be, one that was
\* not, or no answer to any of them.
Results == {"ok", "bad", "lost"}
Rounds == [service : Results, attack : Results]
Groups == <<"list", "drafts", "attack">>

VARIABLES
    kind,      \* the access policy with its override
    drill,     \* drafts the drill minted, oldest first: FALSE where the table misses it
    untabled,  \* the table misses a draft the participant wrote
    round,     \* the round in flight
    parity,    \* roundsCompleted modulo ROTATE_EVERY
    history,   \* roundHistory
    clean,     \* cleanSince is set: the hold of HOLD_MS may be over
    spent,     \* an account has used up readsPerRound in this round
    tested     \* history: rounds since the last edit answered in full and undisturbed,
               \* counted up to Window

defendVars == <<kind, drill, untabled, round, parity, history, clean, spent, tested>>

Idle == [group |-> 0]
\* Math.round(Window / 3), at least 2.
RotateEvery == IF (2 * Window + 3) \div 6 < 2 THEN 2 ELSE (2 * Window + 3) \div 6

Init ==
    /\ kind = "open" /\ drill = <<>> /\ untabled = FALSE
    /\ round = Idle /\ parity = 0 /\ history = <<>>
    /\ clean = FALSE /\ spent = FALSE /\ tested = 0

-----------------------------------------------------------------------------
(* What the board answers, judged by the rule of the memo.                 *)

TableHolds == ~untabled /\ \A i \in DOMAIN drill : drill[i]

\* A listing is compared with the drafts of the moment before it was asked for; lists
\* and reads draw on the account's budget.  Drafts are read and published, and some
\* are sampled, so that a round may miss what is wrong.
MayFail(group) ==
    LET blunt == kind = "off" \/ spent
        missing == kind = "table" /\ ~TableHolds
    IN  CASE group = "list" -> {blunt \/ kind = "open" \/ missing \/ round.raced}
          [] group = "attack" -> {blunt \/ kind = "open"}
          [] OTHER -> IF blunt THEN {TRUE}
                      ELSE IF missing THEN BOOLEAN ELSE {FALSE}

\* One bad answer makes the class bad; no answer at all is nobody's fault.
Joined(old, new) ==
    IF "bad" \in {old, new} THEN "bad" ELSE IF "ok" \in {old, new} THEN "ok" ELSE "lost"

-----------------------------------------------------------------------------
(* The drill.                                                              *)

MutRotated == drill

\* A new draft, in no table yet; the oldest of the drill's own leaves.
Rotated ==
    LET all == Append(drill, kind # "table")
    IN  IF Len(all) > MaxDrill THEN Tail(all) ELSE all

\* tick(): budgets are new, every so many rounds a draft is minted, a round begins.
BeginRound ==
    /\ round = Idle
    /\ spent' = FALSE
    /\ drill' = IF parity = RotateEvery - 1 THEN Rotated ELSE drill
    /\ round' = [group |-> 1, service |-> "lost", attack |-> "lost", raced |-> FALSE,
                 whole |-> TRUE, lost |-> FALSE]
    /\ UNCHANGED <<kind, untabled, parity, history, clean, tested>>

\* A group of requests is answered or lost.
ProbeGroup ==
    /\ round.group \in DOMAIN Groups
    /\ \E lost \in BOOLEAN, fails \in MayFail(Groups[round.group]) :
         LET seen == IF lost THEN "lost" ELSE IF fails THEN "bad" ELSE "ok"
             class == IF Groups[round.group] = "attack" THEN "attack" ELSE "service"
         IN  round' = [round EXCEPT ![class] = Joined(@, seen), !.group = @ + 1,
                         !.lost = @ \/ lost, !.raced = FALSE]
    /\ UNCHANGED <<kind, drill, untabled, parity, history, clean, spent, tested>>

Bad(r) == "bad" \in {r.service, r.attack}

\* A bad round breaks the hold; one that lost answers neither starts nor breaks it.
CleanAfter == ~Bad(round) /\ (clean \/ ~round.lost)

Slid(entries) == IF Len(entries) > Window THEN Tail(entries) ELSE entries

EndRound ==
    /\ round.group > Len(Groups)
    /\ round' = Idle
    /\ parity' = (parity + 1) % RotateEvery
    /\ history' = Slid(Append(history, [service |-> round.service, attack |-> round.attack]))
    /\ clean' = CleanAfter
    /\ tested' =
         IF ~round.whole THEN 0
         ELSE IF ~round.lost /\ tested < Window THEN tested + 1 ELSE tested
    /\ UNCHANGED <<kind, drill, untabled, spent>>

-----------------------------------------------------------------------------
(* The participant.                                                        *)

\* A table is written from the drafts of now.
Edit(k) ==
    /\ k # kind \/ k = "table"
    /\ kind' = k
    /\ drill' = [i \in DOMAIN drill |-> TRUE] /\ untabled' = FALSE
    /\ tested' = 0
    /\ round' = IF round = Idle THEN Idle ELSE [round EXCEPT !.whole = FALSE]
    /\ UNCHANGED <<parity, history, clean, spent>>

\* POST /api/drafts.  While the drill lists, the draft may fall between what a
\* listing is compared with and the listing.
WriteDraft ==
    /\ kind # "off"
    /\ untabled' = (untabled \/ kind = "table")
    /\ round' \in IF round = Idle THEN {Idle}
         ELSE IF round.group # 1 THEN {round}
         ELSE {round, [round EXCEPT !.raced = TRUE, !.whole = FALSE]}
    /\ UNCHANGED <<kind, drill, parity, history, clean, spent, tested>>

\* The participant reads as one of the accounts until it is refused.
UseUpReads ==
    /\ kind # "off" /\ ~spent /\ round # Idle
    /\ spent' = TRUE /\ round' = [round EXCEPT !.whole = FALSE]
    /\ UNCHANGED <<kind, drill, untabled, parity, history, clean, tested>>

Next ==
    \/ BeginRound \/ ProbeGroup \/ EndRound \/ WriteDraft \/ UseUpReads
    \/ \E k \in Kinds : Edit(k)

Spec == Init /\ [][Next]_defendVars

-----------------------------------------------------------------------------
(* The gates.                                                              *)

Intact(class) ==
    /\ Len(history) >= Window
    /\ \A i \in DOMAIN history : history[i][class] # "bad"
    /\ \E i \in DOMAIN history : history[i][class] = "ok"

ServiceIntact == Intact("service")

\* policy_loaded apart, which reads the file again.
Ready == ServiceIntact /\ Intact("attack") /\ clean

-----------------------------------------------------------------------------
(* Properties.                                                             *)

Flights == [group : 1..Len(Groups) + 1, service : Results, attack : Results, raced : BOOLEAN,
            whole : BOOLEAN, lost : BOOLEAN]

TypeOK ==
    /\ kind \in Kinds /\ drill \in Seq(BOOLEAN) /\ Len(drill) <= MaxDrill
    /\ untabled \in BOOLEAN
    /\ round \in {Idle} \cup Flights /\ parity \in 0..RotateEvery - 1
    /\ history \in Seq(Rounds) /\ Len(history) <= Window
    /\ {clean, spent} \subseteq BOOLEAN /\ tested \in 0..Window

\* A board that lets anybody in, or that answers nobody, never holds: after one
\* round that tested it in full the hold is broken, and rounds that lose answers
\* do not start it again (defend.mjs:1063-1088).
BluntLoses == kind \in {"open", "off"} /\ tested >= 1 => ~clean /\ ~Ready

\* A table of draft ids is a losing answer: within as many rounds as a draft is
\* minted in, the table misses one, for good (defend.mjs:105-115, 1039-1057).
TableLoses == kind = "table" /\ tested >= RotateEvery => ~clean /\ ~Ready

\* A board that follows the rule loses its hold to nothing but the participant's own
\* traffic in the same round: a draft written while the drill lists, or reads that
\* use up an account's budget (defend.mjs:886-905, 462-480).
RightHolds ==
    kind = "right" /\ round # Idle /\ round.whole => ~Bad(round)

\* ... and has a window without a bad round after as many undisturbed rounds as the
\* window is long: no gate stays shut for what was once wrong (defend.mjs:1090-1130).
RightRegains ==
    kind = "right" /\ tested = Window =>
        Len(history) >= Window /\ \A i \in DOMAIN history : ~Bad(history[i])

DefendSafe == BluntLoses /\ TableLoses /\ RightHolds /\ RightRegains
====
