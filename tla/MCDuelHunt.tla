----------------------------- MODULE MCDuelHunt -----------------------------
(* Small instances of DuelHunt for TLC. *)
EXTENDS DuelHunt

CONSTANTS ta, tb, tc

\* Two teams meet in every round; the last two duels overlap and lapse together
\* at the final bell.
PairHome == [d \in Duels |-> ta]
PairAway == [d \in Duels |-> tb]
PairIssueAt == [d \in Duels |-> d]

\* Three teams, the rounds of the circle schedule that tb and tc play, ta
\* watching; the rounds in between found a full belt.
TrioHome == [d \in Duels |-> tb]
TrioAway == [d \in Duels |-> tc]
TrioIssueAt == [d \in Duels |-> d]

=============================================================================
