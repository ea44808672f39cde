------------------------------ MODULE MCPages -------------------------------
(***************************************************************************)
(* The page a team plays on; and, in other behaviours, the tabs in which it   *)
(* has an interactive proof open; or the match it plays is one that an earlier  *)
(* version began; or the keys behind its Orders and what its answers give away; or  *)
(* the debrief of the match; or the row that packs the times of its HUNTs.        *)
(* What the page sends and is told is abstract in MovePanel, so these share no   *)
(* state.                                                                    *)
(***************************************************************************)
EXTENDS MovePanel, WitnessTabs, TLC

CONSTANTS p1, p2, t1, t2, LeakPoints

VARIABLES
    part,
    row, posted, spentOn, given, missed, proved, wroteBy,
    seed, generation, publicPuzzle, publicLedger, curriculum, phase, habit, cycle, used,
    sum, answer,
    match, told, marks, held,
    slots

\* A duel that its deadline completes, and an Order to answer.
BothAtStart == <<0, 0>>
DueTwoThree == <<2, 3>>

Old == INSTANCE OldRows
Rows == INSTANCE StoredRow WITH
    Roster <- Old!Pair, OldMatches <- Old!Running, MaxPosts <- 1, Boundary <- 2, MatchEnd <- 4,
    OrderTtl <- 1, Retention <- 1, OrderPoints <- 3, WrongProve <- 1

Samples == INSTANCE SampleKeys
Rec == INSTANCE PublicRecord WITH
    Prime <- 5, Threshold <- 2, ShareCount <- 3, Seeds <- Samples!SampleSeeds,
    Tables <- Samples!SampleTables, Texts <- Samples!SampleTexts, Habits <- Samples!Apiece,
    LastCycle <- Samples!SampleCycles, MaxGen <- 2, MaxPosts <- 3
Sums == INSTANCE HiddenSums WITH Prime <- 3, MaskRange <- Samples!SampleMasks, order <- sum

Told == INSTANCE Debrief WITH
    Roster <- Old!Pair, Reports <- {2, 4}, Indices <- {1, 2}, Threshold <- 2,
    Kinds <- {"rps-open"}, Cooldown <- 1, Horizon <- 4, MaxMoves <- 3

\* A digit of one bit makes every text long, so that every form is the shortest of some row.
Packed == INSTANCE HuntSlots WITH
    DigitBits <- 1, MaxRun <- 3, Times <- {0, 5, 10, 16}, Ranks <- {0, 31}, MaxSlots <- 5

ASSUME SlotsFit == Packed!SlotBounds

ASSUME DebriefFits == Told!DebriefBounds

ASSUME KeysFit == Rec!FactorsExact /\ Cardinality(Rec!ALL_SOLUTIONS) = 288

rowVars == <<row, posted, spentOn, given, missed, proved, wroteBy>>
keyVars == <<seed, generation, publicPuzzle, publicLedger, curriculum, phase, habit, cycle, used>>
hiddenVars == <<sum, answer>>
toldVars == <<match, told, marks, held>>

PlayInit ==
    /\ part \in {"page", "proof", "row", "record", "sum", "debrief", "slots"}
    /\ Init /\ TabsInit
    /\ part # "page" => exact
    /\ part # "proof" => secret = 2 /\ keeps = [t \in {p1, p2} |-> TRUE]
    /\ IF part = "row" THEN Rows!Init
       ELSE /\ row = None /\ posted = None /\ spentOn = None /\ given = None
            /\ missed = None /\ proved = None /\ wroteBy = None
    /\ IF part = "record" THEN Rec!Init
       ELSE /\ seed = None /\ generation = None /\ publicPuzzle = None /\ publicLedger = None
            /\ curriculum = None /\ phase = None /\ habit = None /\ cycle = None /\ used = None
    /\ IF part = "sum" THEN Sums!Init ELSE sum = None /\ answer = None
    /\ IF part = "debrief" THEN Told!Init
       ELSE match = None /\ told = None /\ marks = None /\ held = None
    /\ Packed!Init

PlayNext ==
    /\ UNCHANGED part
    /\ \/ part = "page" /\ Next /\ UNCHANGED <<witnessVars, rowVars, keyVars, hiddenVars, toldVars, slots>>
       \/ part = "proof" /\ TabsNext /\ UNCHANGED <<panelVars, rowVars, keyVars, hiddenVars, toldVars, slots>>
       \/ part = "row" /\ Rows!Next /\ UNCHANGED <<panelVars, witnessVars, keyVars, hiddenVars, toldVars>>
                       /\ UNCHANGED slots
       \/ part = "record" /\ Rec!Next /\ UNCHANGED <<panelVars, witnessVars, rowVars, hiddenVars, toldVars>>
                          /\ UNCHANGED slots
       \/ part = "sum" /\ Sums!Next /\ UNCHANGED <<panelVars, witnessVars, rowVars, keyVars>>
                         /\ UNCHANGED <<toldVars, slots>>
       \/ part = "debrief" /\ Told!Next /\ UNCHANGED <<panelVars, witnessVars, rowVars, keyVars>>
                             /\ UNCHANGED <<hiddenVars, slots>>
       \/ part = "slots" /\ Packed!Next /\ UNCHANGED <<panelVars, witnessVars, rowVars, keyVars>>
                           /\ UNCHANGED <<hiddenVars, toldVars>>

playVars == <<part, panelVars, witnessVars, rowVars, keyVars, hiddenVars, toldVars, slots>>

PlaySpec == PlayInit /\ [][PlayNext]_playVars

\* Nothing tells one poll, or one tab, from the other.
Alike == Permutations({p1, p2})

\* A match that an earlier version began goes on as it was promised, a row of the HUNT log
\* reads back what was packed into it, and the debrief of a match tells what happened in it
\* (StoredRow: RowSound, HuntSlots: Lossless, Debrief: DebriefSound).
RowsSound ==
    /\ part = "row" => Rows!RowSound
    /\ part = "slots" => Packed!TypeOK /\ Packed!Lossless
    /\ part = "debrief" => Told!DebriefSound

\* What is posted gives a key away at the threshold and not before, whichever Orders posted
\* it, and a sum over hidden numbers says nothing of them (PublicRecord: RecordSound,
\* HiddenSums: SumsSound).
KeysSound ==
    /\ part = "record" => Rec!RecordSound
    /\ part = "sum" => Sums!SumsSound
=============================================================================
