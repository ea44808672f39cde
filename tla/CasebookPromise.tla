--------------------------- MODULE CasebookPromise ---------------------------
(***************************************************************************)
(* What the forensic casebook promises a team: every question of a run      *)
(* pays its points on its first correct answer and never again, ordered     *)
(* questions are solved in their order, hints open one by one for free, and *)
(* a new practice run starts from nothing.  Requests, retries and receipts  *)
(* do not exist at this level.                                              *)
(***************************************************************************)
EXTENDS Integers

CONSTANTS
    Questions,  \* the checkpoints of all cases
    Points,     \* points of each checkpoint
    Prior       \* checkpoints to solve first: the earlier ones of "endpoint"

VARIABLES run, solved, hints, score

pvars == <<run, solved, hints, score>>

PInit ==
    /\ run = 1
    /\ solved = {}
    /\ hints = [q \in Questions |-> 0]
    /\ score = 0

Solve(q) ==
    /\ q \notin solved /\ Prior[q] \subseteq solved
    /\ solved' = solved \cup {q}
    /\ score' = score + Points[q]
    /\ UNCHANGED <<run, hints>>

OpenHint(q) ==
    /\ hints[q] < 3
    /\ hints' = [hints EXCEPT ![q] = @ + 1]
    /\ UNCHANGED <<run, solved, score>>

StartOver ==
    /\ run' = run + 1
    /\ solved' = {}
    /\ hints' = [q \in Questions |-> 0]
    /\ score' = 0

PNext == (\E q \in Questions : Solve(q) \/ OpenHint(q)) \/ StartOver

PSpec == PInit /\ [][PNext]_pvars
=============================================================================
