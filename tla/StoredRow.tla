------------------------------ MODULE StoredRow ------------------------------
(***************************************************************************)
(* The row a match is stored as, and what becomes of it when a deployment     *)
(* hands a match that is under way to the present version (ledger-codec.ts,   *)
(* hunt-key.ts, hunt-budget.ts; reducer.ts migrateState and what every entry   *)
(* point repairs).  A match is given here by what was public in it, in the     *)
(* form its own version wrote; from then on the present version reads it.     *)
(* Orders arrive one per team and tick; MatchClock has their true schedule.    *)
(***************************************************************************)
EXTENDS Integers, Sequences, FiniteSets

CONSTANTS
    Roster,       \* the teams, sorted by id
    OldMatches,   \* the matches under way, see Written
    Boundary, MatchEnd, OrderTtl, Retention,
    MaxPosts,     \* bound: how many answers are posted between two readings of the clock
    OrderPoints, LeakPoints, WrongProve,
    None          \* an absent field

Current == 24
Teams == {Roster[i] : i \in DOMAIN Roster}

VARIABLES
    row,       \* what is stored
    posted,    \* history: what was posted, as it was posted
    spentOn,   \* history: what each HUNT budget had been spent when the row was written
    given,     \* history: the Orders that were ever issued
    missed,    \* history: Orders whose only response was wrong
    proved,    \* history: Orders that were paid for a proof
    wroteBy    \* history: the version the match was under way in

rowVars == <<row, posted, spentOn, given, missed, proved, wroteBy>>

-----------------------------------------------------------------------------
\* A posted artifact: [id, kind, team, order, gen, method, at, body].  Order ids are
\* <<team, number>>, or anything else in an unfamiliar form.
Position(t) == CHOOSE i \in DOMAIN Roster : Roster[i] = t
TeamOf(tm) == IF tm[1] = "at" THEN Roster[tm[2]] ELSE tm[2]

CompactId(t, id) == IF id[1] = t THEN <<"n", id[2]>> ELSE <<"id", id>>
OrderId(f) == IF f.c[1] = "n" THEN <<TeamOf(f.tm), f.c[2]>> ELSE f.c[2]

\* The position in this list is the schema: new tags go at its end.
Tags ==
    <<<<"share", <<"i", "v">>>>, <<"cipher-pair", <<"r", "kp", "p", "x">>>>,
      <<"rotor-pair", <<"p", "x">>>>, <<"rsa-pair", <<"n", "e", "p", "x">>>>,
      <<"proof", <<"o", "e", "z">>>>, <<"ciphertext", <<"r", "y">>>>,
      <<"partial", <<"v", "pp", "s">>>>, <<"sudoku-reveal", <<"gr", "cl", "tg">>>>,
      <<"rps-commit", <<"du", "v">>>>, <<"rps-open", <<"du", "v", "h", "r">>>>,
      <<"schnorr-proof", <<"o", "e", "z", "y">>>>>>
Methods == <<"leak", "prove", "cipher", "fhe", "mpc", "duel">>

Suffix(kind, body) ==
    CASE kind = "share" -> <<"share", body["i"]>>
      [] kind \in {"cipher-pair", "rotor-pair", "rsa-pair"} -> <<"pair">>
      [] kind = "sudoku-reveal" -> <<"sudoku">>
      [] OTHER -> <<kind>>

DerivedId(f) == <<OrderId(f), Suffix(f.k, f.b)>>

\* encodeArtifact: the id is dropped where it can be derived, and only there.
Fields(a, tm, c) ==
    LET f == [k |-> a.kind, tm |-> tm, c |-> c, g |-> a.gen, m |-> a.method, t |-> a.at,
              b |-> a.body, d |-> None]
    IN  IF DerivedId(f) = a.id THEN f ELSE [f EXCEPT !.d = a.id]

TagOf(f) == IF f.k = "proof" /\ "y" \in DOMAIN f.b THEN "schnorr-proof" ELSE f.k

Tuple(f) ==
    LET tag == CHOOSE i \in DOMAIN Tags : Tags[i][1] = TagOf(f)
        keys == Tags[tag][2]
    IN  <<tag, f.tm, f.c, f.g, CHOOSE i \in DOMAIN Methods : Methods[i] = f.m, f.t>>
          \o [i \in DOMAIN keys |-> IF keys[i] \in DOMAIN f.b THEN f.b[keys[i]] ELSE None]
          \o (IF f.d = None THEN <<>> ELSE <<f.d>>)

Encode(a) == <<"tuple", Tuple(Fields(a, <<"at", Position(a.team)>>, CompactId(a.team, a.order)))>>

\* artifactFields: an entry as its fields, whichever version wrote it.
ArtifactFields(entry) ==
    IF entry[1] # "tuple" THEN entry[2]
    ELSE LET e == entry[2]
             keys == Tags[e[1]][2]
             tag == Tags[e[1]][1]
             present == {i \in DOMAIN keys : e[6 + i] # None}
         IN  [k |-> IF tag = "schnorr-proof" THEN "proof" ELSE tag,
              tm |-> e[2], c |-> e[3], g |-> e[4], m |-> Methods[e[5]], t |-> e[6],
              b |-> [x \in {keys[i] : i \in present} |->
                        e[6 + (CHOOSE i \in present : keys[i] = x)]],
              d |-> IF Len(e) = 7 + Len(keys) THEN e[7 + Len(keys)] ELSE None]

Decode(entry) ==
    LET f == ArtifactFields(entry)
    IN  [id |-> IF f.d # None THEN f.d ELSE DerivedId(f), kind |-> f.k, team |-> TeamOf(f.tm),
         order |-> OrderId(f), gen |-> f.g, method |-> f.m, at |-> f.t, body |-> f.b]

\* Before methods were recorded, a share came from LEAK and a proof from PROVE.
Normalized(a) ==
    IF a.method # None THEN a
    ELSE [a EXCEPT !.method = IF a.kind = "share" THEN "leak" ELSE "prove"]

\* migrateStateV1: full artifacts become fields under their literal team.
LiftV1(entry) ==
    LET a == Normalized(entry[2])
    IN  <<"object", Fields(a, <<"team", a.team>>, CompactId(a.team, a.order))>>

-----------------------------------------------------------------------------
\* HUNT budgets: a map of <<method, attacker, target, generation>>, by team before version 4,
\* by position until version 10; since then one row of counters per target and generation.
ByPosition(key) == [key EXCEPT ![2] = Position(@), ![3] = Position(@)]
Renamed(counts) ==
    [k \in {ByPosition(key) : key \in DOMAIN counts} |->
        counts[CHOOSE key \in DOMAIN counts : ByPosition(key) = k]]

SlotOf(method, attacker) == 2 * attacker - (IF method = "sudoku" THEN 0 ELSE 1)
Packed(counts) ==
    [target \in {<<key[3], key[4]>> : key \in {k \in DOMAIN counts : counts[k] # 0}} |->
        [slot \in 1..(2 * Len(Roster)) |->
            LET key == <<IF slot % 2 = 0 THEN "sudoku" ELSE "share", (slot + 1) \div 2,
                         target[1], target[2]>>
            IN  IF key \in DOMAIN counts THEN counts[key] ELSE 0]]

HuntCount(r, method, attacker, target, gen) ==
    LET key == <<Position(target), gen>>
    IN  IF key \in DOMAIN r.attempts
        THEN r.attempts[key][SlotOf(method, Position(attacker))] ELSE 0

-----------------------------------------------------------------------------
\* What every entry point repairs: fields that the version of the row did not have.
Highest(orders, t) ==
    LET numbers == {o.id[2] : o \in {p \in orders : p.id[1] = t}}
    IN  IF numbers = {} THEN -1 ELSE CHOOSE n \in numbers : \A other \in numbers : other <= n

MutIssued(orders, t) == Cardinality({o \in orders : o.id[1] = t})
\* highestSequenceFor: a delayed tick may have skipped a slot, so the list is no count.
Issued(orders, t) == Highest(orders, t) + 1

Filled(o) ==
    [o EXCEPT !.task = IF @ = None THEN "reveal" ELSE @,
              !.methods = IF @ = None THEN {"leak", "prove"} ELSE @,
              !.leakPoints = IF @ = None THEN LeakPoints ELSE @]

\* needsConfigMigration: a row without one of these gets the defaults of all that it lacks.
Settings ==
    {"contractsPerIssue", "expiredOrder", "contractLeak", "hintCosts", "onboardingFollowUpMs",
     "maxHuntAttemptsPerTarget", "wrongHunt", "duelWin", "duelDraw", "wrongProve"}

\* migratePublicPuzzles: a row without the public grids gets those of the generations in force.
Puzzles(r) == IF r.puzzles # None THEN r.puzzles ELSE r.gen

\* Old matches past the boundary have no ranking to reconstruct.
Distribution(r, stored) ==
    IF stored # None THEN stored ELSE IF r.now >= Boundary THEN "unavailable" ELSE "pending"

Repaired(r) ==
    [r EXCEPT
       !.booster = Distribution(r, @), !.lightning = Distribution(r, @),
       !.count = IF @ = None THEN [t \in Teams |-> Issued(r.orders, t)] ELSE @,
       !.attempts = IF @ = None THEN <<>> ELSE @,
       !.puzzles = Puzzles(r),
       !.config = IF Settings \subseteq @ THEN @ ELSE @ \cup Settings,
       !.done = [t \in Teams |-> {CompactId(t, IF c[1] = "n" THEN <<t, c[2]>> ELSE c[2]) : c \in @[t]}],
       !.orders = {Filled(o) : o \in @}]

\* unspentNonceExposure: two proofs with one commitment on a current generation, and a team
\* that has not hunted it.
Exposed(r) ==
    \E t \in Teams :
        /\ \E i, j \in DOMAIN r.ledger :
              LET f == ArtifactFields(r.ledger[i])
                  g == ArtifactFields(r.ledger[j])
              IN  /\ i # j /\ f.k = "proof" /\ g.k = "proof"
                  /\ TeamOf(f.tm) = t /\ TeamOf(g.tm) = t
                  /\ f.g = r.gen[t] /\ g.g = r.gen[t] /\ f.b["o"] = g.b["o"]
        /\ \E attacker \in Teams \ {t} : <<attacker, t, r.gen[t]>> \notin r.hunted

Refuses(r) == r.v < 3 /\ r.now < MatchEnd /\ Exposed(r)

\* Versions 13 and 14 left a consumed miss open.
Used(o) == o.schnorr # None /\ o.schnorr.used
Missed(o) ==
    Used(o) /\ (o.schnorr.outcome = "miss" \/ (o.schnorr.outcome = None /\ o.status = "open"))
Adjudicated(o) ==
    IF o.schnorr = None THEN o
    ELSE LET tried == [o EXCEPT !.tried = TRUE]
             known == IF Missed(o) THEN [tried EXCEPT !.schnorr.outcome = "miss"] ELSE tried
         IN  IF Missed(o) /\ o.status = "open" /\ o.methods = {"prove"}
             THEN [known EXCEPT !.status = "completed", !.how = "prove"] ELSE known

MigrateState(r) ==
    LET lifted == Repaired(r)
    IN  [lifted EXCEPT
           !.v = Current,
           !.ledger = [i \in DOMAIN @ |-> Encode(Decode(@[i]))],
           !.attempts = IF r.v >= 11 THEN @ ELSE IF r.v >= 4 THEN Packed(@) ELSE Packed(Renamed(@)),
           !.orders = {Adjudicated(o) : o \in @}]

Upgrade ==
    /\ row.v < Current
    /\ LET v2 == IF row.v = 1 THEN [row EXCEPT !.ledger = [i \in DOMAIN @ |-> LiftV1(@[i])]] ELSE row
       IN  ~Refuses(v2) /\ row' = MigrateState(v2)
    /\ UNCHANGED <<posted, spentOn, given, missed, proved, wroteBy>>

-----------------------------------------------------------------------------
Floored(x) == IF x < 0 THEN 0 ELSE x

\* The order of team t that arrives now; those with an even number may be leaked.
NewOrder(r, t, at) ==
    [id |-> <<t, r.count[t]>>, task |-> "reveal", leakPoints |-> LeakPoints,
     methods |-> IF r.count[t] % 2 = 0 THEN {"leak", "prove"} ELSE {"prove"},
     issued |-> at, expires |-> at + OrderTtl, status |-> "open", how |-> None,
     schnorr |-> None, tried |-> FALSE]

Lapsed(o, at) == o.status = "open" /\ o.expires <= at
Distributed(stored, at) == IF stored = "pending" /\ at >= Boundary THEN "awarded" ELSE stored

\* A clock reading of the present version.
Tick ==
    /\ row.v = Current /\ row.now < MatchEnd
    /\ LET r == Repaired(row)
           at == r.now + 1
           fresh == IF at < MatchEnd THEN {NewOrder(r, t, at) : t \in Teams} ELSE {}
           aged == {IF Lapsed(o, at) THEN [o EXCEPT !.status = "expired"] ELSE o : o \in r.orders}
       IN  /\ row' = [r EXCEPT
                        !.now = at,
                        !.orders = {o \in aged \cup fresh :
                                       o.status = "open" \/ o.issued >= at - Retention},
                        !.count = [t \in Teams |-> IF fresh = {} THEN @[t] ELSE @[t] + 1],
                        !.booster = Distributed(@, at), !.lightning = Distributed(@, at)]
           /\ given' = given \cup {o.id : o \in fresh}
    /\ UNCHANGED <<posted, spentOn, missed, proved, wroteBy>>

Answerable(o, method) ==
    /\ row.v = Current /\ row.now < MatchEnd
    /\ o.status = "open" /\ method \in o.methods

Close(o, how) == [o EXCEPT !.status = "completed", !.how = how]
Replaced(o, p) == (row.orders \ {o}) \cup {p}
Artifact(o, kind, method, body) ==
    [id |-> <<o.id, Suffix(kind, body)>>, kind |-> kind, team |-> o.id[1], order |-> o.id,
     gen |-> row.gen[o.id[1]], method |-> method, at |-> row.now, body |-> body]

\* completeOrder, applyLeak: the artifact is posted and the Order, now p, is done for good.
Complete(o, p, a, points) ==
    /\ Cardinality({i \in DOMAIN posted : posted[i].at = row.now}) < MaxPosts
    /\ row' = [row EXCEPT !.orders = Replaced(o, p),
                          !.ledger = Append(@, Encode(a)),
                          !.done[a.team] = @ \cup {CompactId(a.team, o.id)},
                          !.score[a.team] = @ + points]
    /\ posted' = Append(posted, a)

Leak(o) ==
    /\ Answerable(o, "leak")
    /\ Complete(o, Close(o, "leak"), Artifact(o, "share", "leak", [i |-> 1, v |-> 4]), o.leakPoints)
    /\ UNCHANGED <<spentOn, given, missed, proved, wroteBy>>

Commit(o) ==
    /\ Answerable(o, "prove") /\ row.interactive /\ o.schnorr = None
    /\ row' = [row EXCEPT !.orders =
                 Replaced(o, [o EXCEPT !.tried = TRUE, !.schnorr = [used |-> FALSE, outcome |-> None]])]
    /\ UNCHANGED <<posted, spentOn, given, missed, proved, wroteBy>>

\* A match that began without the interactive proof keeps the sudoku one; right grids only.
ProveSudoku(o) ==
    /\ Answerable(o, "prove") /\ ~row.interactive
    /\ Complete(o, Close(o, "prove"),
                Artifact(o, "sudoku-reveal", "prove", [gr |-> 3, cl |-> 6, tg |-> 1]), OrderPoints)
    /\ proved' = proved \cup {o.id}
    /\ UNCHANGED <<spentOn, given, missed, wroteBy>>

\* Each challenge takes one response; a wrong one closes an Order that only PROVE can do.
Respond(o, hit) ==
    LET t == o.id[1]
        taken == [o EXCEPT !.tried = TRUE,
                           !.schnorr = [used |-> TRUE, outcome |-> IF hit THEN "hit" ELSE "miss"]]
    IN  /\ Answerable(o, "prove") /\ row.interactive /\ o.schnorr # None /\ ~o.schnorr.used
        /\ IF hit
           THEN /\ Complete(o, Close(taken, "prove"),
                            Artifact(o, "proof", "prove", [o |-> 2, e |-> 5, z |-> 7, y |-> 4]),
                            OrderPoints)
                /\ proved' = proved \cup {o.id} /\ UNCHANGED missed
           ELSE /\ row' = [row EXCEPT
                             !.orders = Replaced(o, IF o.methods = {"prove"}
                                                    THEN Close(taken, "prove") ELSE taken),
                             !.score[t] = Floored(@ - WrongProve)]
                /\ missed' = missed \cup {o.id} /\ UNCHANGED <<posted, proved>>
        /\ UNCHANGED <<spentOn, given, wroteBy>>
-----------------------------------------------------------------------------
\* The rows that earlier versions wrote.  A match m says what was public, which Orders there
\* were and what they lacked; the version decides the form.
LiteralFields(a) == [Fields(a, <<"team", a.team>>, <<"id", a.order>>) EXCEPT !.d = None]
Entry(from, a) ==
    IF from = 1 THEN <<"full", a>>
    ELSE IF from < 4 THEN <<"object", LiteralFields(a)>>
    ELSE IF from < 11 THEN <<"object", Fields(a, <<"team", a.team>>, CompactId(a.team, a.order))>>
    ELSE Encode(a)

Counters(from, counts) ==
    IF from < 4 THEN counts ELSE IF from < 11 THEN Renamed(counts) ELSE Packed(Renamed(counts))

Written(m) ==
    [v |-> m.from, now |-> m.now,
     ledger |-> [i \in DOMAIN m.public |-> Entry(m.from, m.public[i])],
     orders |-> m.orders, gen |-> m.gen, hunted |-> m.hunted,
     count |-> IF m.from = 1 THEN None ELSE m.count,
     done |-> [t \in Teams |-> {IF m.from < 10 THEN <<"id", o.id>> ELSE CompactId(t, o.id) :
                                   o \in {p \in m.orders : p.id[1] = t /\ p.status = "completed"}}],
     attempts |-> Counters(m.from, m.attempts),
     puzzles |-> IF m.from < 3 THEN None ELSE m.gen,
     config |-> IF m.from = 1 THEN {} ELSE IF m.from = 2 THEN Settings \ {"wrongProve"} ELSE Settings,
     interactive |-> m.from >= 13,
     booster |-> IF m.from < 6 THEN None ELSE IF m.now >= Boundary THEN "awarded" ELSE "pending",
     lightning |-> IF m.from < 9 THEN None ELSE IF m.now >= Boundary THEN "awarded" ELSE "pending",
     score |-> [t \in Teams |-> 0]]

Begin(m) ==
    /\ row = Written(m) /\ posted = m.public /\ spentOn = m.attempts /\ given = m.given
    /\ missed = {o.id : o \in {p \in m.orders : Missed(p)}} /\ proved = {}
    /\ wroteBy = m.from

Init == \E m \in OldMatches : Begin(m)

Next ==
    \/ Upgrade \/ Tick
    \/ \E o \in row.orders : Leak(o) \/ ProveSudoku(o) \/ Commit(o) \/ \E hit \in BOOLEAN : Respond(o, hit)

Spec == Init /\ [][Next]_rowVars

-----------------------------------------------------------------------------
\* What the page and the debrief are told of the ledger is what was posted, whichever
\* version wrote it; only a method that was not recorded is filled in.
LedgerFaithful ==
    row.v = Current =>
        /\ Len(row.ledger) = Len(posted)
        /\ \A i \in DOMAIN posted :
              LET a == Decode(row.ledger[i])
              IN  /\ posted[i].method # None => a = posted[i]
                  /\ posted[i].method = None =>
                        /\ a.method # None /\ [a EXCEPT !.method = None] = posted[i]

\* No attempt against a generation is forgotten or added: each budget reads as it was spent.
BudgetsKept ==
    row.v = Current =>
        \A method \in {"share", "sudoku"}, attacker, target \in Teams, gen \in 1..2 :
            HuntCount(row, method, attacker, target, gen) =
                LET key == <<method, attacker, target, gen>>
                IN  IF key \in DOMAIN spentOn THEN spentOn[key] ELSE 0

\* The number of the next Order was never an Order's, whatever the row has forgotten.
NumbersNew ==
    row.v = Current => \A id \in given : id[2] < row.count[id[1]]

\* A response that was wrong is never paid after all, and what it leaves open can still be
\* done in another way.
MissesSettled ==
    /\ missed \cap proved = {}
    /\ row.v = Current =>
          \A o \in row.orders : o.id \in missed /\ o.status = "open" => "leak" \in o.methods

\* The endgame is distributed to a match that the present version saw cross the boundary,
\* and never to one that came later without a record of it.
RanksKnown ==
    row.v = Current =>
        /\ row.booster = "unavailable" => wroteBy < 6 /\ row.now >= Boundary
        /\ row.lightning = "unavailable" => wroteBy < 9 /\ row.now >= Boundary
        /\ row.now >= Boundary => row.booster # "pending" /\ row.lightning # "pending"

\* The upgrade is complete: nothing is left for a later reading to repair.
NothingToRepair == row.v = Current => Repaired(row) = row

\* An attack that the visible record had already earned is not dropped from a running match:
\* the same commitment twice, on a current generation, that somebody has yet to hunt.
ExposureKept ==
    row.v = Current /\ wroteBy < 3 =>
        \A t \in Teams, i, j \in DOMAIN posted :
            /\ i # j /\ posted[i].kind = "proof" /\ posted[j].kind = "proof"
            /\ posted[i].team = t /\ posted[j].team = t
            /\ posted[i].gen = row.gen[t] /\ posted[j].gen = row.gen[t]
            /\ posted[i].body["o"] = posted[j].body["o"]
            => row.now >= MatchEnd \/ \A u \in Teams \ {t} : <<u, t, row.gen[t]>> \in row.hunted

RowSound ==
    /\ LedgerFaithful /\ BudgetsKept /\ NumbersNew /\ MissesSettled /\ RanksKnown
    /\ NothingToRepair /\ ExposureKept
=============================================================================
