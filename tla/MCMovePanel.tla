---------------------------- MODULE MCMovePanel -----------------------------
(* An instance of MovePanel: one Order, and one poll besides the move.      *)
EXTENDS MovePanel, TLC

CONSTANTS p1

IssuedAtStart == 1 :> 0
DueAtThree == 1 :> 3
=============================================================================
