----------------------------- MODULE MCScoreItem -----------------------------
(***************************************************************************)
(* What a crypto battle scores besides Orders: the score item; and the HUNTs *)
(* and what remembers them.  The two share nothing but scores, which other    *)
(* moves change anyway, so a behaviour runs the steps of one of them.        *)
(***************************************************************************)
EXTENDS ScoreItem, HuntRecords, TLC

CONSTANTS t1, t2, t3

VARIABLE part

TeamSymmetry == Permutations(Teams)

\* Rows of older versions, all at one millisecond: a guard without a record; two
\* successes against roster order with the guard of one; and a success that came
\* before one an already grouped row holds, so that grouping would reorder them.
Shared(by) == [kind |-> "share", by |-> by, on |-> 1, gen |-> 1, at |-> 1]
OldStates ==
    {[log |-> <<>>, guards |-> {<<"share", 0, 1, 1>>}],
     [log |-> <<Shared(2), Shared(0)>>, guards |-> {<<"share", 0, 1, 1>>, <<"caesar", 2, 1, 1>>}],
     [log |-> <<Shared(2), [kind |-> "rsa", on |-> 1, gen |-> 1, base |-> 1,
                            times |-> <<1, 0>>, ranks |-> <<0, 0>>]>>,
      guards |-> {<<"rsa", 0, 1, 1>>}]}

TwoEach == [kind \in Kinds |-> 2]
SixHunts == {<<"share", 0, 1>>, <<"rotor", 0, 1>>, <<"share", 2, 1>>, <<"rsa", 2, 1>>,
             <<"sudoku", 0, 1>>, <<"caesar", 2, 1>>}

BattleInit ==
    /\ part \in {"item", "hunts"}
    /\ Init /\ HuntsInit
    /\ part # "hunts" => protocol = "schnorr"

BattleNext ==
    /\ UNCHANGED part
    /\ \/ part = "item" /\ Next /\ UNCHANGED huntVars
       \/ part = "hunts" /\ HuntsNext /\ UNCHANGED vars

battleVars == <<part, vars, huntVars>>

BattleSpec == BattleInit /\ [][BattleNext]_battleVars
=============================================================================
