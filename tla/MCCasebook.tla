----------------------------- MODULE MCCasebook -----------------------------
(***************************************************************************)
(* Instances of the forensic casebook: one team that answers, with an ordered *)
(* pair of questions; and, in other behaviours, two pages of a practice seat   *)
(* that confirm its reset.  A reset and an answer meet in Casebook already, as  *)
(* a new run; what the pages do with its receipts meets nothing else.          *)
(***************************************************************************)
EXTENDS Casebook, TLC

CONSTANTS
    first, second,                                   \* the questions
    PageTabs, PageReceipts, PageRuns, PageIds, PageLost  \* what PracticeReset is checked with

VARIABLES
    part, seat, resetReceipts, session, resetOp, resetWire, waiting, answer, nextReset, lost, performed

OrderedPoints == (first :> 2) @@ (second :> 4)
OrderedPrior == (first :> {}) @@ (second :> {first})

Pages == INSTANCE PracticeReset WITH
    gen <- seat, receipts <- resetReceipts, wire <- resetWire, nextId <- nextReset,
    Tabs <- PageTabs, MaxReceipts <- PageReceipts, MaxRuns <- PageRuns, MaxIds <- PageIds,
    MaxLost <- PageLost

ASSUME PageBounds == Pages!LimitAssumption /\ Pages!NoneAssumption

pageVars == <<seat, resetReceipts, session, resetOp, resetWire, waiting, answer, nextReset, lost, performed>>

PracticeInit == part \in {"answers", "resets"} /\ Init /\ Pages!Init

PracticeNext ==
    /\ UNCHANGED part
    /\ \/ part = "answers" /\ Next /\ UNCHANGED pageVars
       \/ part = "resets" /\ Pages!Next /\ UNCHANGED vars

PracticeSpec == PracticeInit /\ [][PracticeNext]_<<part, vars, pageVars>>

\* The types of both parts, and a reset that is carried out once, for whoever is told
\* so (PracticeReset: TypeOK, ResetSound).
ResetsSound == part = "resets" => Pages!TypeOK /\ Pages!ResetSound

\* A lost answer does not cost the player the reset (PracticeReset: LostAnswerRecovered).
LostAnswerRecovered == Pages!LostAnswerRecovered
=============================================================================
