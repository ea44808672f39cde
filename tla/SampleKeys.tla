------------------------------ MODULE SampleKeys ------------------------------
(***************************************************************************)
(* Keys a seed may derive, and tables a team may hand in (for PublicRecord).    *)
(***************************************************************************)
EXTENDS Sudoku

Line(digits) == [c \in 0 .. 3 |-> digits[c + 1]]
GridOf(a, b, c, d) == Grid(<<Line(a), Line(b)>>, <<Line(c), Line(d)>>)
Even == GridOf(<<1, 2, 3, 4>>, <<3, 4, 1, 2>>, <<2, 1, 4, 3>>, <<4, 3, 2, 1>>)
Twisted == GridOf(<<1, 2, 3, 4>>, <<3, 4, 2, 1>>, <<2, 1, 4, 3>>, <<4, 3, 1, 2>>)

Keys(grid, shown, poly, rotor) ==
    [solution |-> grid, shown |-> shown, poly |-> poly, rotor |-> rotor,
     caesar |-> <<4>>, vigenere |-> <<5, 0, 3>>]
Lower == Keys(Even, {0, 1, 2, 3, 4, 5, 8, 10}, <<3, 2>>, [a |-> 3, b |-> 1])
Constant == Keys(Twisted, {1, 2, 6, 7, 9, 10, 11, 15}, <<4, 0>>, [a |-> 1, b |-> 3])
\* What opened groups add to these givens never pins one solution.
Open == Keys(Even, {0, 3, 5, 6, 9, 10, 12, 15}, <<0, 1>>, [a |-> 0, b |-> 0])

SampleSeeds == {<<Lower, Constant>>, <<Open, Lower>>}
SampleTables == {<<2, 1, 3, 4>>, <<3, 1, 4, 2>>}
SampleTexts == [rung \in {"caesar", "vigenere", "rotor"} |->
    CASE rung = "caesar" -> {<<0, 5, 2>>}
      [] rung = "vigenere" -> {<<4>>}
      [] OTHER -> {<<0, 1, 2, 3>>, <<3, 3, 0, 1>>}]
Apiece == {{"reveal-share"}, {"cipher"}, {"zk-sudoku"}}
SampleCycles == [kind \in {"reveal-share", "cipher", "zk-sudoku"} |->
    CASE kind = "reveal-share" -> 5 [] kind = "cipher" -> 4 [] OTHER -> 1]

\* Bound: the masks that the team of a masked total sends and receives; the two between the
\* other offices are any.
SampleMasks == [w \in {<<0, 1>>, <<0, 2>>, <<1, 0>>, <<2, 0>>} |->
    CASE w = <<0, 1>> -> {0} [] w = <<1, 0>> -> {0, 2} [] OTHER -> {1}]
=============================================================================
