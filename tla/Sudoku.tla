-------------------------------- MODULE Sudoku --------------------------------
(***************************************************************************)
(* The four by four sudoku: its grids, their relabellings and the solutions that *)
(* opened groups leave possible (sudoku.ts). Sixteen cells row by row; every row, *)
(* column and box holds 1 .. 4.                                               *)
(***************************************************************************)
EXTENDS Integers, FiniteSets, Sequences, Functions

Digits == 1 .. 4
Cells == 0 .. 15

CONSTRAINT_GROUPS == [i \in 0 .. 11 |->
    CASE i < 4 -> [k \in 1 .. 4 |-> 4 * i + k - 1]
      [] i \in 4 .. 7 -> [k \in 1 .. 4 |-> i - 4 + 4 * (k - 1)]
      [] OTHER -> LET corner == 8 * ((i - 8) \div 2) + 2 * (i % 2)
                  IN <<corner, corner + 1, corner + 4, corner + 5>>]

Row == {r \in [0 .. 3 -> Digits] : IsInjective(r)}
Apart(r, s) == {r[0], r[1]} \cap {s[0], s[1]} = {} /\ {r[2], r[3]} \cap {s[2], s[3]} = {}
Halves == {h \in Row \X Row : Apart(h[1], h[2])}
Grid(top, low) == [c \in Cells |->
    LET r == CASE c < 4 -> top[1] [] c \in 4 .. 7 -> top[2] [] c \in 8 .. 11 -> low[1] [] OTHER -> low[2]
    IN r[c % 4]]
Distinct(grid, i) == \A j, k \in 1 .. 4 :
    j # k => grid[CONSTRAINT_GROUPS[i][j]] # grid[CONSTRAINT_GROUPS[i][k]]
IsValidSolution(grid) == \A i \in 0 .. 11 : Distinct(grid, i)
ALL_SOLUTIONS == {g \in {Grid(h[1], h[2]) : h \in Halves \X Halves} : IsValidSolution(g)}

ALL_PERMUTATIONS == {pi \in [Digits -> Digits] : IsInjective(pi)}
Identity == [d \in Digits |-> d]
Relabelled(grid, pi) == [c \in Cells |-> pi[grid[c]]]

\* The relabelling that takes one full grid to another, if one does.
PermutationsBetween(from, to) == {pi \in ALL_PERMUTATIONS : Relabelled(from, pi) = to}

\* A puzzle is the solution at the cells it gives.
SolutionsConsistentWith(puzzle) == {s \in ALL_SOLUTIONS : \A c \in DOMAIN puzzle : s[c] = puzzle[c]}

\* What opened groups say: the relabelled digit of every cell they cover.
Shown(opened) == UNION {{<<CONSTRAINT_GROUPS[o.group][k], o.cells[k]>> : k \in 1 .. 4} : o \in opened}

\* Some one-to-one relabelling takes the candidate to every digit that was shown.
PartialPermutationBetween(candidate, shown) == \A x, y \in shown :
    (candidate[x[1]] = candidate[y[1]]) <=> (x[2] = y[2])

RecoverableSolutions(puzzle, opened) ==
    {s \in SolutionsConsistentWith(puzzle) : PartialPermutationBetween(s, Shown(opened))}
=============================================================================
