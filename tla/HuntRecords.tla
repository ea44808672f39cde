------------------------------ MODULE HuntRecords ------------------------------
(***************************************************************************)
(* The HUNTs other than a prediction, and what remembers them: a success is  *)
(* recorded once, in the exact-time log or, for the classic ciphers, as an    *)
(* untimed guard; attempts are charged to a budget per target and generation; *)
(* a state stored by an older version is compacted when it is loaded.        *)
(* Orders, the pool of predictions and other ways to score are elsewhere.    *)
(***************************************************************************)
EXTENDS Integers, Sequences, FiniteSets, FiniteSetsExt

CONSTANTS
    NTeams,       \* the roster: teams are their positions in it, from 0
    Bonus,        \* a success's price by kind
    Penalty,      \* huntPenalty
    WrongHunt,    \* wrongHunt
    Voided,       \* what a rotation may charge for the Orders it voids
    MaxAttempts,  \* maxHuntAttemptsPerTarget
    EndgameAt,    \* when the endgame begins
    Stored,       \* states an older version may have stored: a log and its guards
    Hunts,        \* bound: the hunts played, as kind, attacker and target
    MaxTime, MaxGen, MaxWon, MaxUpgrades   \* bounds: clock, rotations, successes, upgrades

Roster == 0..(NTeams - 1)
Logged == {"share", "sudoku", "rsa", "rotor"}
Rungs == {"caesar", "vigenere"}
Kinds == Logged \cup Rungs
Tried == {"share", "sudoku", "rotor"}
Targets == {hunt[3] : hunt \in Hunts}

ASSUME HuntBounds ==
    /\ NTeams \in Nat \ {0} /\ Bonus \in [Kinds -> Nat] /\ Penalty \in Nat /\ WrongHunt \in Nat
    /\ Voided \subseteq Nat /\ MaxAttempts \in Nat \ {0}
    /\ Hunts \subseteq {hunt \in Kinds \X Roster \X Roster : hunt[2] # hunt[3]}
    /\ MaxTime \in Nat \ {0} /\ MaxGen \in Nat \ {0} /\ MaxUpgrades \in Nat \ {0} /\ MaxWon \in Nat

VARIABLES
    protocol,     \* proofProtocol: whether this match still has Sudoku reveals
    upgrades,     \* schema versions the state has been lifted to
    clock, gen,   \* the clock, the generation of each team
    shown,        \* what a team has made public of its generation
    standing,
    huntAttempts, \* attempts by budget, attacker, target and generation
    successfulHunts, huntLog,
    broken,       \* huntedGenerations, sudokuHuntedGenerations, cipherHuntedGenerations
    lastHunt, lastBreach,
    won,          \* history: successes in the order they happened
    untimed,      \* history: successes an older version kept only as a guard
    tried         \* history: attempts, never pruned

huntVars == <<protocol, upgrades, clock, gen, shown, standing, huntAttempts, successfulHunts, huntLog,
              broken, lastHunt, lastBreach, won, untimed, tried>>

-----------------------------------------------------------------------------
(* The log: rows per method, target and generation with a slot per attacker, *)
(* and the objects of older versions.                                       *)

Success(kind, by, on, g, at) == [kind |-> kind, by |-> by, on |-> on, gen |-> g, at |-> at]
IsDense(row) == "times" \in DOMAIN row

Slot(by, on) == IF by < on THEN by + 1 ELSE by
Attacker(slot, on) == IF slot <= on THEN slot - 1 ELSE slot

\* Where a log holds a success: a row of it, and the slot in the row, 0 for an object.
Cells(rows) ==
    {cell \in (DOMAIN rows) \X (0..(NTeams - 1)) :
        IF IsDense(rows[cell[1]]) THEN cell[2] # 0 /\ rows[cell[1]].times[cell[2]] # 0
        ELSE cell[2] = 0}

Held(rows, cell) ==
    LET row == rows[cell[1]]
    IN  IF ~IsDense(row) THEN row
        ELSE Success(row.kind, Attacker(cell[2], row.on), row.on, row.gen,
                     row.base + row.times[cell[2]] - 1)

RankOf(rows, cell) == IF IsDense(rows[cell[1]]) THEN rows[cell[1]].ranks[cell[2]] ELSE 0

\* decodeHuntLog: a stable sort of the log by time and rank.
Earlier(rows, c, d) ==
    LET Place(cell) == <<Held(rows, cell).at, RankOf(rows, cell), cell[1], cell[2]>>
    IN  \E k \in 1..4 : /\ Place(c)[k] < Place(d)[k]
                        /\ \A m \in 1..(k - 1) : Place(c)[m] = Place(d)[m]

Before(rows, cell) == {c \in Cells(rows) : Earlier(rows, c, cell)}

Nth(rows, n) == CHOOSE cell \in Cells(rows) : Cardinality(Before(rows, cell)) = n - 1

Decoded(rows) == [n \in 1..Cardinality(Cells(rows)) |-> Held(rows, Nth(rows, n))]

\* lastOrder: after every success of that millisecond, 0 when it is the first.
NextRank(rows, at) ==
    LET same == {cell \in Cells(rows) : Held(rows, cell).at = at}
    IN  Max({Cardinality(same)} \cup {RankOf(rows, cell) + 1 : cell \in same})

RowOf(rows, kind, on, g) ==
    {i \in DOMAIN rows : IsDense(rows[i]) /\ rows[i].kind = kind /\ rows[i].on = on
                         /\ rows[i].gen = g}

Blank == [slot \in 1..(NTeams - 1) |-> 0]

\* appendDenseHunt: an earlier success moves the base its row counts from.
Appended(rows, s) ==
    LET found == RowOf(rows, s.kind, s.on, s.gen)
        slot == Slot(s.by, s.on)
        old == IF found # {} THEN rows[CHOOSE i \in found : TRUE]
               ELSE [kind |-> s.kind, on |-> s.on, gen |-> s.gen, base |-> s.at,
                     times |-> Blank, ranks |-> Blank]
        base == Min({old.base, s.at})
        row == [old EXCEPT
                  !.base = base,
                  !.times = [[t \in DOMAIN @ |-> IF @[t] = 0 THEN 0 ELSE @[t] + old.base - base]
                             EXCEPT ![slot] = s.at - base + 1],
                  !.ranks[slot] = NextRank(rows, s.at)]
    IN  IF found = {} THEN Append(rows, row)
        ELSE [i \in DOMAIN rows |-> IF i \in found THEN row ELSE rows[i]]

Recorded(kind, by, on, g) ==
    \/ \E i \in DOMAIN huntLog :
         /\ ~IsDense(huntLog[i])
         /\ <<huntLog[i].kind, huntLog[i].by, huntLog[i].on, huntLog[i].gen>> = <<kind, by, on, g>>
    \/ \E i \in RowOf(huntLog, kind, on, g) : huntLog[i].times[Slot(by, on)] # 0

\* What a kind asks before it pays again; a rotor has never had a guard.
Known(kind, by, on, g) ==
    \/ kind # "rotor" /\ <<kind, by, on, g>> \in successfulHunts
    \/ kind \in Logged /\ Recorded(kind, by, on, g)

\* What a log may hold (decodeHuntLog, indexLog): a row per method, target and generation,
\* and objects; a team without a success has no rank.
Rows == [kind : Logged, on : Roster, gen : Nat \ {0}, base : Int,
         times : [1..(NTeams - 1) -> Nat], ranks : [1..(NTeams - 1) -> Nat]]
Objects == {s \in [kind : Logged, by : Roster, on : Roster, gen : Nat \ {0}, at : Int] : s.by # s.on}

WellFormed(rows) ==
    /\ rows \in Seq(Rows \cup Objects)
    /\ \A i \in DOMAIN rows : IsDense(rows[i]) =>
         \A s \in 1..(NTeams - 1) : rows[i].times[s] = 0 => rows[i].ranks[s] = 0
    /\ \A i, j \in DOMAIN rows : IsDense(rows[i]) /\ IsDense(rows[j]) =>
         (<<rows[i].kind, rows[i].on, rows[i].gen>> = <<rows[j].kind, rows[j].on, rows[j].gen>> => i = j)

SecretOf(s) == <<s.kind, s.by, s.on, s.gen>>

\* What an older version stored of a match in which nobody has rotated: no success twice,
\* none of a time to come, and no guard of a rotor.
ASSUME StoredAssumption ==
    \A row \in Stored :
        /\ WellFormed(row.log)
        /\ \A c, d \in Cells(row.log) : SecretOf(Held(row.log, c)) = SecretOf(Held(row.log, d)) => c = d
        /\ \A c \in Cells(row.log) : Held(row.log, c).at <= 1
        /\ row.guards \subseteq {g \in (Kinds \ {"rotor"}) \X Roster \X Roster \X {1} : g[2] # g[3]}

-----------------------------------------------------------------------------
(* Budgets.  A rotor spends the attempts of the share HUNT.                 *)

Budget(kind) == IF kind = "sudoku" THEN "sudoku" ELSE "share"
Count(counts, key) == IF key \in DOMAIN counts THEN counts[key] ELSE 0
Charged(counts, key) ==
    [k \in DOMAIN counts \cup {key} |-> Count(counts, k) + IF k = key THEN 1 ELSE 0]

Key(kind, a, t) == <<Budget(kind), a, t, gen[t]>>

\* pruneRetiredHuntAttempts, without the reservations of predictions.
KeepCurrent(counts, on) ==
    [k \in {k \in DOMAIN counts : k[3] = on => k[4] = gen[on] + 1} |-> counts[k]]

-----------------------------------------------------------------------------
(* Hunts.  A request for another generation is refused and changes nothing. *)

\* What a target has to have made public.
Published == [sudoku |-> "reuse", rotor |-> "rotor-pair", vigenere |-> "vigenere-pairs"]

Evidence(kind, t) ==
    /\ kind \in DOMAIN Published => Published[kind] \in shown[t]
    /\ kind = "sudoku" => protocol = "sudoku"
    /\ kind = "rsa" => clock >= EndgameAt

MayHunt(kind, a, t) ==
    /\ ~Known(kind, a, t, gen[t])
    /\ Evidence(kind, t)

HasAttempt(kind, a, t) == Count(huntAttempts, Key(kind, a, t)) < MaxAttempts

\* Whether an answer is judged, right or wrong, and costs an attempt.
Judged(kind, a, t) == kind \in Tried /\ MayHunt(kind, a, t) /\ HasAttempt(kind, a, t)

\* A classic key and the factors of n are tried for nothing: a wrong one is refused.
MayBreak(kind, a, t) == kind \in Rungs \cup {"rsa"} /\ MayHunt(kind, a, t)

Clamped(points) == Max({0, points})

\* A wrong answer is a move that landed.
Miss(kind, a, t) ==
    /\ Judged(kind, a, t)
    /\ huntAttempts' = Charged(huntAttempts, Key(kind, a, t))
    /\ tried' = Charged(tried, Key(kind, a, t))
    /\ standing' = [standing EXCEPT ![a] = Clamped(@ - WrongHunt)]
    /\ lastHunt' = [lastHunt EXCEPT ![a] =
         [kind |-> kind, on |-> t, gen |-> gen[t], points |-> Clamped(standing[a] - WrongHunt) - standing[a]]]
    /\ UNCHANGED <<protocol, upgrades, clock, gen, shown, successfulHunts, huntLog, broken, lastBreach,
                   won, untimed>>

Record(s) ==
    /\ huntLog' = IF s.kind \in Logged THEN Appended(huntLog, s) ELSE huntLog
    /\ successfulHunts' =
         successfulHunts \cup {g \in {<<s.kind, s.by, s.on, s.gen>>} : s.kind \in Rungs}

\* The target learns of it (applyOp's lastBreach) with what it lost.
Win(kind, a, t) ==
    /\ Len(won) < MaxWon
    /\ Record(Success(kind, a, t, gen[t], clock))
    /\ won' = Append(won, Success(kind, a, t, gen[t], clock))
    /\ standing' = [standing EXCEPT ![a] = @ + Bonus[kind], ![t] = Clamped(@ - Penalty)]
    /\ broken' = [broken EXCEPT ![t] = @ \cup {<<kind, gen[t]>>}]
    /\ lastBreach' = [lastBreach EXCEPT ![t] =
         [sequence |-> @.sequence + 1, by |-> a, gen |-> gen[t], kind |-> kind,
          points |-> Clamped(standing[t] - Penalty) - standing[t]]]
    /\ UNCHANGED <<protocol, upgrades, clock, gen, shown, untimed>>

Hit(kind, a, t) ==
    /\ Judged(kind, a, t)
    /\ huntAttempts' = Charged(huntAttempts, Key(kind, a, t))
    /\ tried' = Charged(tried, Key(kind, a, t))
    /\ lastHunt' = [lastHunt EXCEPT ![a] =
         [kind |-> kind, on |-> t, gen |-> gen[t], points |-> Bonus[kind]]]
    /\ Win(kind, a, t)

\* The three that may miss differ in the budget they spend and in the guard they leave.
HuntShare(a, t) == Miss("share", a, t) \/ Hit("share", a, t)
HuntSudoku(a, t) == Miss("sudoku", a, t) \/ Hit("sudoku", a, t)
HuntRotor(a, t) == Miss("rotor", a, t) \/ Hit("rotor", a, t)

\* applyHuntCipher
Break(kind, a, t) ==
    /\ MayBreak(kind, a, t)
    /\ Win(kind, a, t)
    /\ UNCHANGED <<huntAttempts, tried, lastHunt>>

-----------------------------------------------------------------------------
(* The target's moves, the clock, and a new version of the plugin.          *)

Publish(t, evidence) ==
    /\ evidence = "reuse" => protocol = "sudoku"
    /\ shown' = [shown EXCEPT ![t] = @ \cup {evidence}]
    /\ UNCHANGED <<protocol, upgrades, clock, gen, standing, huntAttempts, successfulHunts, huntLog, broken,
                   lastHunt, lastBreach, won, untimed, tried>>

\* Retired attempts and RSA guards go; every other record stays.
Rotate(t, charge) ==
    /\ gen[t] < MaxGen
    /\ gen' = [gen EXCEPT ![t] = @ + 1]
    /\ shown' = [shown EXCEPT ![t] = {}]
    /\ standing' = [standing EXCEPT ![t] = Clamped(@ - charge)]
    /\ huntAttempts' = KeepCurrent(huntAttempts, t)
    /\ successfulHunts' =
         {g \in successfulHunts : g[1] = "rsa" /\ g[3] = t => g[4] = gen[t] + 1}
    /\ UNCHANGED <<protocol, upgrades, clock, huntLog, broken, lastHunt, lastBreach, won, untimed,
                   tried>>

Passes ==
    /\ clock < MaxTime
    /\ clock' = clock + 1
    /\ UNCHANGED <<protocol, upgrades, gen, shown, standing, huntAttempts, successfulHunts, huntLog, broken,
                   lastHunt, lastBreach, won, untimed, tried>>

\* compactRecordedHunts: the rows first, then the objects at their own times; the old
\* log stays when the order would not survive.
Compacted(rows) ==
    LET dense[n \in 0..Len(rows)] ==
          IF n = 0 THEN <<>>
          ELSE IF IsDense(rows[n]) THEN Append(dense[n - 1], rows[n]) ELSE dense[n - 1]
        whole[n \in 0..Len(rows)] ==
          IF n = 0 THEN dense[Len(rows)]
          ELSE IF IsDense(rows[n]) THEN whole[n - 1] ELSE Appended(whole[n - 1], rows[n])
    IN  whole[Len(rows)]

Kept(rows) == IF Decoded(Compacted(rows)) = Decoded(rows) THEN Compacted(rows) ELSE rows

MutRedundant(g) == g[1] \in Logged
\* A guard whose timed record exists says nothing more.
Redundant(g) == g[1] \in Logged /\ Recorded(g[1], g[2], g[3], g[4])

Migrate ==
    /\ upgrades < MaxUpgrades
    /\ upgrades' = upgrades + 1
    /\ huntLog' = Kept(huntLog)
    /\ successfulHunts' = {g \in successfulHunts : ~Redundant(g)}
    /\ UNCHANGED <<protocol, clock, gen, shown, standing, huntAttempts, broken, lastHunt, lastBreach, won,
                   untimed, tried>>

\* An older version's state is lifted before its first operation.
Lifted == upgrades > 0

HuntsInit ==
    /\ \/ protocol = "schnorr" /\ upgrades = 1 /\ huntLog = <<>> /\ successfulHunts = {}
       \/ protocol = "sudoku" /\ upgrades = 0
          /\ \E row \in Stored : huntLog = row.log /\ successfulHunts = row.guards
    /\ clock = 1 /\ gen = [t \in Roster |-> 1] /\ shown = [t \in Roster |-> {}]
    /\ standing = [t \in Roster |-> 1]
    /\ huntAttempts = [k \in {} |-> 0] /\ tried = [k \in {} |-> 0]
    /\ won = Decoded(huntLog)
    /\ untimed = {g \in successfulHunts : ~(g[1] \in Logged /\ Recorded(g[1], g[2], g[3], g[4]))}
    /\ broken = [t \in Roster |-> {<<won[i].kind, won[i].gen>> : i \in {j \in DOMAIN won : won[j].on = t}}]
    /\ lastHunt = [t \in Roster |-> [points |-> 0]]
    /\ lastBreach = [t \in Roster |->
         [sequence |-> Cardinality({i \in DOMAIN won : won[i].on = t}), points |-> 0]]

HuntsNext ==
    \/ Migrate
    \/ Lifted /\ \E hunt \in Hunts :
         \/ hunt[1] = "share" /\ HuntShare(hunt[2], hunt[3])
         \/ hunt[1] = "sudoku" /\ HuntSudoku(hunt[2], hunt[3])
         \/ hunt[1] = "rotor" /\ HuntRotor(hunt[2], hunt[3])
         \/ Break(hunt[1], hunt[2], hunt[3])
    \/ Lifted /\ Passes
    \/ Lifted /\ \E hunt \in Hunts :
         hunt[1] \in DOMAIN Published /\ Publish(hunt[3], Published[hunt[1]])
    \/ Lifted /\ \E t \in Targets, charge \in Voided : Rotate(t, charge)

HuntsSpec == HuntsInit /\ [][HuntsNext]_huntVars

-----------------------------------------------------------------------------
(* Properties.                                                             *)

HuntsTyped ==
    /\ protocol \in {"sudoku", "schnorr"} /\ upgrades \in 0..MaxUpgrades /\ clock \in 1..MaxTime
    /\ gen \in [Roster -> 1..MaxGen] /\ standing \in [Roster -> Nat]
    /\ WellFormed(huntLog)

\* The log replays the successes in the order they happened, to the millisecond and
\* within it, through rotations and upgrades (hunt-log.ts:1-15, 92-95, 399-404).
ReplayExact ==
    LET logged == {i \in DOMAIN won : won[i].kind \in Logged}
    IN  /\ Len(Decoded(huntLog)) = Cardinality(logged)
        /\ \A i \in logged : Decoded(huntLog)[Cardinality({j \in logged : j <= i})] = won[i]

\* A team is paid for breaking a secret of a generation once, whatever record says so
\* and whichever of them an upgrade drops; an old guard without a record goes on
\* refusing what it refused (hunt-log.ts:386-388).
PaidOncePerSecret ==
    /\ \A i, j \in DOMAIN won : SecretOf(won[i]) = SecretOf(won[j]) => i = j
    /\ \A i \in DOMAIN won : SecretOf(won[i]) \notin untimed

\* However its target rotates, a team has MaxAttempts against a generation, shared by the
\* share and rotor HUNTs, and what it has left is what the row says (reducer.ts:1470-1481).
BudgetsExact ==
    /\ \A k \in DOMAIN tried : tried[k] <= MaxAttempts
    /\ \A k \in DOMAIN tried : k[4] = gen[k[3]] => Count(huntAttempts, k) = tried[k]

\* Every success on a team is one of its breaches, the last of them the one it was told
\* of, and its generation is marked broken by that kind alone (reducer.ts:2818-2828).
BreachesTold ==
    \A t \in Roster :
        LET hits == {i \in DOMAIN won : won[i].on = t}
        IN  /\ lastBreach[t].sequence = Cardinality(hits)
            /\ "by" \in DOMAIN lastBreach[t] =>
                 <<lastBreach[t].by, lastBreach[t].gen, lastBreach[t].kind>> =
                     <<won[Max(hits)].by, won[Max(hits)].gen, won[Max(hits)].kind>>
            /\ broken[t] = {<<won[i].kind, won[i].gen>> : i \in hits}

\* A secret pays a team once, budgets are exact and breaches are told, and the log of HUNTs
\* replays them in the order they happened, whatever its rows hold.
HuntsSound == HuntsTyped /\ PaidOncePerSecret /\ BudgetsExact /\ BreachesTold /\ ReplayExact
================================================================================
