---------------------------- MODULE PublicRecord ----------------------------
(***************************************************************************)
(* What the public record of one team gives away: the shares, cipher pairs    *)
(* and opened sudoku groups it posts, the keys that still fit them, and when a   *)
(* HUNT is let in on that evidence (reducer.ts, sudoku.ts, ladder.ts, rotor.ts,   *)
(* rsa.ts, shamir.ts, fixtures.ts). Whatever the match seed decides is a       *)
(* value of Seeds. An Order is known by its round of the plan and its kind. Who   *)
(* is paid for what is in OrderBelt and HuntRecords.                            *)
(***************************************************************************)
EXTENDS Sudoku, SequencesExt

CONSTANTS
    Prime, Threshold, ShareCount,   \* the secret sharing of the match
    Seeds,                          \* what a seed derives: the keys of each generation
    Tables,                         \* the relabellings the team hands in
    Texts,                          \* the plaintexts Orders carry: [rung -> set]
    Habits,                         \* the kinds of Order a team answers in public
    LastCycle,                      \* bound: the last round in which it answers each kind
    MaxGen, MaxPosts                \* bounds: rotations, and Orders answered

VARIABLES seed, generation, publicPuzzle, publicLedger, curriculum, phase, habit, cycle, used
recordVars == <<seed, generation, publicPuzzle, publicLedger, curriculum, phase, habit, cycle, used>>

Field == 0 .. Prime - 1
Keys == seed[generation]

-----------------------------------------------------------------------------
(* The ciphers, and the sharing of the secret. *)
CipherKeyAt(key, position) == key[(position % Len(key)) + 1]
EncryptWithRung(plaintext, key, position) ==
    [i \in DOMAIN plaintext |-> (plaintext[i] + CipherKeyAt(key, position + i - 1)) % 6]

ROTOR_P == <<1, 3, 0, 2>>
ROTOR_Q == <<3, 0, 2, 1>>
RotorWheel(value, position, wheel) == (wheel[((value + position) % 4) + 1] - position) % 4
RotorStep(w) == [a |-> (w.a + 1) % 4, b |-> (w.b + (IF w.a = 3 THEN 1 ELSE 0)) % 4]
RotorEncrypt(plaintext, initial) ==
    LET wheels[i \in 1 .. 4] == IF i = 1 THEN initial ELSE RotorStep(wheels[i - 1])
    IN [i \in 1 .. 4 |-> RotorWheel(RotorWheel(plaintext[i], wheels[i].a, ROTOR_P), wheels[i].b, ROTOR_Q)]

Power(x, e, p) == FoldLeft(LAMBDA acc, i : (acc * x) % p, 1, [i \in 1 .. e |-> i])
Inv(x, p) == CHOOSE y \in 0 .. p - 1 : (x * y) % p = 1

\* Share(i): the polynomial of the secret and its coefficients, at i.
Share(poly, i) == FoldLeft(LAMBDA acc, k : (acc + poly[k] * Power(i, k - 1, Prime)) % Prime, 0,
                           [k \in 1 .. Threshold |-> k])

\* Lagrange at zero, over points with distinct indices.
Reconstruct(points) ==
    LET others(p) == SetToSeq(points \ {p})
        weight(p) == FoldLeft(LAMBDA acc, q :
            (acc * (Prime - q.index) * Inv((p.index - q.index) % Prime, Prime)) % Prime, 1, others(p))
    IN FoldLeft(LAMBDA acc, p : (acc + p.value * weight(p)) % Prime, 0, SetToSeq(points))

RSA_PARAMETERS == {<<3, 11, 3>>, <<5, 11, 3>>, <<5, 13, 5>>, <<7, 11, 7>>}
RsaEncrypt(m, e, n) == Power(m, e, n)
IsSmallPrime(k) == k >= 2 /\ \A d \in 2 .. k - 1 : k % d # 0
RsaFactorsFit(n, a, b) == a < n /\ b < n /\ a # b /\ IsSmallPrime(a) /\ IsSmallPrime(b) /\ a * b = n

-----------------------------------------------------------------------------
(* The plan of Orders: a rotation of kinds in a legacy match (deriveContractPlan), *)
(* bags with one Order of each kind in a curriculum match (curriculumPlan), whose *)
(* round 0 is the two Orders before the first bag.                             *)
Rank == [kind \in {"reveal-share", "cipher", "zk-sudoku"} |->
    CASE kind = "reveal-share" -> 0 [] kind = "cipher" -> 1 [] OTHER -> 3]

Bag(c) == c - 1

\* The share an Order asks for, and whether its client buys the share itself.
SharePlans(c) ==
    IF curriculum /\ c > 0 THEN {[must |-> TRUE, index |-> (Bag(c) % ShareCount) + 1]}
    ELSE IF ~curriculum /\ c % 2 = 1 THEN {[must |-> TRUE, index |-> ((c \div 2) % ShareCount) + 1]}
    ELSE {[must |-> FALSE, index |-> i] : i \in 1 .. ShareCount}

\* The rungs a cipher Order of round c may be on; rush tells the two kinds of Order apart.
CipherPlans(c) ==
    LET vigenere(k) == [rung |-> "vigenere", position |-> k % 3]
        caesar == [rung |-> "caesar", position |-> 0]
        rotor == [rung |-> "rotor", position |-> 0]
        planned(rush) == IF ~rush /\ phase = "endgame" THEN {}
                         ELSE IF ~rush /\ phase = "pressure" /\ c % 2 = 1 THEN {rotor}
                         ELSE IF phase = "build" THEN {caesar}
                         ELSE {vigenere(c)}
    IN IF curriculum THEN IF c = 0 THEN {caesar} ELSE {caesar, vigenere(Bag(c)), rotor}
       ELSE UNION {planned(rush) : rush \in BOOLEAN}

-----------------------------------------------------------------------------
(* What the ledger holds of the present generation. *)
Posted(kind) == {p \in publicLedger : p.kind = kind /\ p.gen = generation}
Pairs(rung) == {p \in Posted("pair") : p.rung = rung}
RevealsByTag(tag) == {p \in Posted("sudoku-reveal") : p.tag = tag}
Tags == {p.tag : p \in Posted("sudoku-reveal")}
ExposedShareIndices == {p.index : p \in Posted("share")}
ExposedKeyPositions == UNION {{(p.position + i - 1) % 3 : i \in DOMAIN p.plaintext} : p \in Pairs("vigenere")}

\* The groups that this generation has had opened: under any tag, and under this one.
OpenedGroups(tag) ==
    [any |-> {p.group : p \in Posted("sudoku-reveal")},
     underTag |-> {p.group : p \in RevealsByTag(tag)}]

\* A keyed hash: one tag for each relabelling of a generation, with which nobody without the
\* key can tell the relabelling.
PermutationTag(g, pi) == <<g, pi>>

\* What the vault tells its team it has spent: the relabellings whose tags are on the record.
UsedPermutations == {pi \in ALL_PERMUTATIONS : PermutationTag(generation, pi) \in Tags}

\* What a HUNT is let in on.
HasPermutationReuse == \E t \in Tags : Cardinality(RevealsByTag(t)) >= 2
Recovered == {RecoverableSolutions(publicPuzzle, RevealsByTag(t)) :
                 t \in {t \in Tags : Cardinality(RevealsByTag(t)) >= 2}}
IsSolutionRecoverable == \E found \in Recovered : Cardinality(found) = 1
MayHuntSudoku == ~curriculum /\ HasPermutationReuse /\ IsSolutionRecoverable
MayHuntVigenere == Cardinality(ExposedKeyPositions) >= 3
MayHuntRotor == Pairs("rotor") # {}

\* Mutant: a group is chosen without a look at what was opened.
MutRevealGroups(opened) == 0 .. 11

\* The group a proof opens: one this generation has not opened, or else one this table has not.
RevealGroups(opened) ==
    LET every == 0 .. 11
    IN IF every \ opened.any # {} THEN every \ opened.any
       ELSE IF every \ opened.underTag # {} THEN every \ opened.underTag
       ELSE every

Reveal(g, pi, group, at) ==
    [kind |-> "sudoku-reveal", gen |-> g, at |-> at, tag |-> PermutationTag(g, pi), group |-> group,
     cells |-> [k \in 1 .. 4 |-> Relabelled(seed[g].solution, pi)[CONSTRAINT_GROUPS[group][k]]]]

Puzzle(keys) == [c \in keys.shown |-> keys.solution[c]]

\* A team begins with nothing on the record, or with a table it has shown eleven times.
Init ==
    /\ seed \in Seeds /\ generation = 1 /\ publicPuzzle = Puzzle(seed[1])
    /\ curriculum \in BOOLEAN /\ phase = "build" /\ cycle = 0 /\ used = {}
    /\ habit \in Habits
    /\ \E spent \in IF curriculum \/ "zk-sudoku" \notin habit THEN {{}} ELSE {{}, 0 .. 10} :
          LET worn == CHOOSE t \in Tables : t # Identity
          IN publicLedger = {Reveal(1, worn, group, -1 - group) : group \in spent}

Played == Cardinality({p \in publicLedger : p.at >= 0})

\* The team's next Order of this kind, in this round of the plan or a later one.
Turn(kind, what, c) ==
    /\ kind \in habit /\ Played < MaxPosts
    /\ c \in cycle .. LastCycle[kind]
    /\ LET before == IF c = cycle THEN used ELSE {}
       IN /\ what \notin before
          /\ ~curriculum => \A u \in before : Rank[kind] > Rank[u]
          /\ used' = before \cup {IF curriculum THEN what ELSE kind}
    /\ cycle' = c
    /\ UNCHANGED <<seed, generation, publicPuzzle, curriculum, phase, habit>>

Post(p) == publicLedger' = publicLedger \cup {p}

LeakShare == \E c \in cycle .. LastCycle["reveal-share"] : \E plan \in SharePlans(c) :
    /\ Turn("reveal-share", "reveal-share", c)
    /\ Post([kind |-> "share", gen |-> generation, at |-> c, must |-> plan.must,
             index |-> plan.index, value |-> Share(Keys.poly, plan.index)])

Encrypted(plan, text) ==
    CASE plan.rung = "caesar" -> EncryptWithRung(text, Keys.caesar, 0)
      [] plan.rung = "vigenere" -> EncryptWithRung(text, Keys.vigenere, plan.position)
      [] OTHER -> RotorEncrypt(text, Keys.rotor)

LeakPair == \E c \in cycle .. LastCycle["cipher"] : \E plan \in CipherPlans(c) :
    \E text \in Texts[plan.rung] :
    /\ Turn("cipher", plan.rung, c)
    /\ Post([kind |-> "pair", gen |-> generation, at |-> c, rung |-> plan.rung,
             position |-> plan.position, plaintext |-> text, ciphertext |-> Encrypted(plan, text)])

\* A grid the judge takes: the team's own solution, with its digits relabelled.
Judged(grid) ==
    IF grid = Keys.solution THEN "refused"
    ELSE IF PermutationsBetween(Keys.solution, grid) = {} \/ ~IsValidSolution(grid) THEN "miss"
    ELSE "hit"

ProveSudoku == \E c \in cycle .. LastCycle["zk-sudoku"] : \E pi \in Tables :
    LET grid == Relabelled(Keys.solution, pi)
        opened == OpenedGroups(PermutationTag(generation, pi))
    IN /\ ~curriculum /\ Turn("zk-sudoku", "zk-sudoku", c)
       /\ Judged(grid) = "hit"
       /\ \E group \in RevealGroups(opened) : Post(Reveal(generation, pi, group, c))

Advance ==
    /\ phase' = CASE phase = "build" -> "pressure" [] phase = "pressure" -> "endgame" [] OTHER -> phase
    /\ phase # "endgame" /\ "cipher" \in habit   \* bound: no other plan reads the phase
    /\ UNCHANGED <<seed, generation, publicPuzzle, publicLedger, curriculum, habit, cycle, used>>

Rotate ==
    /\ generation < MaxGen
    /\ generation' = generation + 1
    /\ publicPuzzle' = Puzzle(seed[generation'])
    /\ UNCHANGED <<seed, publicLedger, curriculum, phase, habit, cycle, used>>

Next == LeakShare \/ LeakPair \/ ProveSudoku \/ Advance \/ Rotate
Spec == Init /\ [][Next]_recordVars

-----------------------------------------------------------------------------
(* What a reader of the record can still think possible. *)
SecretsPossible == {poly[1] : poly \in {q \in [1 .. Threshold -> Field] :
                        \A p \in Posted("share") : Share(q, p.index) = p.value}}
CaesarPossible == {k \in [1 .. 1 -> 0 .. 5] :
    \A p \in Pairs("caesar") : EncryptWithRung(p.plaintext, k, 0) = p.ciphertext}
VigenerePossible == {k \in [1 .. 3 -> 0 .. 5] :
    \A p \in Pairs("vigenere") : EncryptWithRung(p.plaintext, k, p.position) = p.ciphertext}
RotorPossible == {w \in [a : 0 .. 3, b : 0 .. 3] :
    \A p \in Pairs("rotor") : RotorEncrypt(p.plaintext, w) = p.ciphertext}

\* Fewer shares than the threshold say nothing of the secret and from the threshold on any of
\* them give it away, whichever points are joined; a rotation starts again from nothing.
SharesExact ==
    LET known == {[index |-> p.index, value |-> p.value] : p \in Posted("share")}
    IN /\ SecretsPossible = IF Cardinality(ExposedShareIndices) < Threshold
                             THEN Field ELSE {Keys.poly[1]}
       /\ \A points \in SUBSET known :
              Cardinality(points) = Threshold => Reconstruct(points) = Keys.poly[1]

\* A Vigenere HUNT is let in exactly when the pairs leave one key, and a Caesar pair is enough
\* for its key; no pair ever rules out the key that is in use.
CiphersExact ==
    /\ MayHuntVigenere <=> VigenerePossible = {Keys.vigenere}
    /\ Pairs("caesar") # {} <=> CaesarPossible = {Keys.caesar}
    /\ Keys.vigenere \in VigenerePossible /\ Keys.rotor \in RotorPossible

\* A sudoku HUNT is let in only when every table that pins a solution pins the team's own, and
\* a table is opened twice at one group only when it has nothing else left to open; a team each
\* of whose proofs took a table the vault did not list is never let in on.
TablesExact ==
    /\ MayHuntSudoku => \A found \in Recovered : Cardinality(found) = 1 => found = {Keys.solution}
    /\ \A p, q \in Posted("sudoku-reveal") : p # q /\ p.tag = q.tag /\ p.group = q.group
          => {r.group : r \in RevealsByTag(p.tag)} = 0 .. 11
    /\ HasPermutationReuse <=> Cardinality(UsedPermutations) < Cardinality(Posted("sudoku-reveal"))

\* A team that keeps its generation through as many neighbouring disclosure Orders as the
\* threshold gives its secret away, and through three neighbouring Vigenere Orders its key.
Neighbours(rounds, n) == \E first \in rounds : \A k \in 0 .. n - 1 :
    first + k * (IF curriculum THEN 1 ELSE 2) \in rounds
PlanConnects ==
    /\ Neighbours({p.at : p \in {q \in Posted("share") : q.must}}, Threshold)
          => Cardinality(SecretsPossible) = 1
    /\ Neighbours({p.at : p \in Pairs("vigenere")}, 3) => MayHuntVigenere

\* RSA needs no record: n and e are shown to all, each n has one pair of factors that the judge
\* takes, in either order, and the d made from them undoes the encryption of every plaintext.
FactorsExact == \A r \in RSA_PARAMETERS :
    LET n == r[1] * r[2]
        d == Inv(r[3], (r[1] - 1) * (r[2] - 1))
    IN /\ {<<a, b>> \in (2 .. n) \X (2 .. n) : RsaFactorsFit(n, a, b)} = {<<r[1], r[2]>>, <<r[2], r[1]>>}
       /\ \A m \in 2 .. 9 : Power(RsaEncrypt(m, r[3], n), d, n) = m

RecordSound == SharesExact /\ CiphersExact /\ TablesExact /\ PlanConnects
=============================================================================
