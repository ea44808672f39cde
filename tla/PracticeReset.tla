---------------------------- MODULE PracticeReset ----------------------------
(***************************************************************************)
(* The practice reset of the forensic casebook: dev/app.tsx confirms, and   *)
(* repeats a confirmation whose result it could not read; dev/server.ts     *)
(* carries it out once per id and keeps the newest receipts.  Several tabs  *)
(* may show the same seat.                                                  *)
(***************************************************************************)
EXTENDS Integers, Sequences, FiniteSets

CONSTANTS
    Tabs,         \* pages open on one seat
    MaxReceipts,  \* reset receipts kept (100 in the code)
    MaxRuns,      \* bound of the model: practice runs
    MaxIds,       \* bound of the model: confirmations composed
    MaxLost,      \* bound of the model: connections that break
    None          \* an absent value

LimitAssumption ==
    /\ MaxReceipts \in Nat \ {0} /\ MaxRuns \in Nat \ {0} /\ MaxIds \in Nat
    /\ MaxLost \in Nat

Resets == [id : 1..MaxIds, gen : 1..MaxRuns]
NoneAssumption == None \notin Resets /\ None \notin (0..MaxRuns)

VARIABLES
    gen,        \* seat.state.generation
    receipts,   \* seat.resetReceipts, in order of insertion
    session,    \* the generation a page read when it opened or was reset
    resetOp,    \* the confirmation a page has not seen the result of
    wire,       \* requests on their way: a page and its confirmation
    waiting,    \* pages waiting for the answer of their last request
    answer,     \* the answer on its way: a generation, or 0 for a refusal
    nextId,     \* ids are random, hence fresh
    lost,       \* broken connections so far
    performed   \* history: the confirmations that started a run

vars == <<gen, receipts, session, resetOp, wire, waiting, answer, nextId, lost, performed>>

Init ==
    /\ gen = 1 /\ receipts = <<>> /\ performed = <<>>
    /\ session = [t \in Tabs |-> None]
    /\ resetOp = [t \in Tabs |-> None]
    /\ waiting = [t \in Tabs |-> FALSE]
    /\ answer = [t \in Tabs |-> None]
    /\ wire = {} /\ nextId = 1 /\ lost = 0

Held == {receipts[i] : i \in DOMAIN receipts}

\* A page reads its session once, when it opens.
Open(t) ==
    /\ session' = [session EXCEPT ![t] = gen]
    /\ resetOp' = [resetOp EXCEPT ![t] = None]
    /\ waiting' = [waiting EXCEPT ![t] = FALSE]
    /\ answer' = [answer EXCEPT ![t] = None]
    /\ UNCHANGED <<gen, receipts, wire, nextId, lost, performed>>

Idle(t) == session[t] # None /\ ~waiting[t]

Ask(t, op) ==
    /\ resetOp' = [resetOp EXCEPT ![t] = op]
    /\ waiting' = [waiting EXCEPT ![t] = TRUE]
    /\ wire' = wire \cup {<<t, op>>}
    /\ UNCHANGED <<gen, receipts, session, answer, lost, performed>>

Confirm(t) ==
    /\ Idle(t) /\ resetOp[t] = None
    /\ nextId <= MaxIds /\ nextId' = nextId + 1
    /\ Ask(t, [id |-> nextId, gen |-> session[t]])

\* The same confirmation again, with the id and generation it was made with.
ConfirmAgain(t) ==
    /\ Idle(t) /\ resetOp[t] # None
    /\ UNCHANGED nextId
    /\ Ask(t, resetOp[t])

MutRemembered(s) == IF Len(s) > MaxReceipts THEN SubSeq(s, 1, MaxReceipts) ELSE s
Remembered(s) == IF Len(s) > MaxReceipts THEN Tail(s) ELSE s

MutDue(op) == TRUE
Due(op) == op.gen = gen

\* What the page reads as done: a status of 200.
Done(known, starts) == known \/ starts

\* The digest of a confirmation is its generation: an id is known with the
\* generation it came with, or not at all.
Reset(t, op) ==
    LET known == op \in Held
        clash == ~known /\ \E r \in Held : r.id = op.id
        starts == ~known /\ ~clash /\ Due(op)
    IN  /\ starts => gen < MaxRuns
        /\ wire' = wire \ {<<t, op>>}
        /\ gen' = IF starts THEN gen + 1 ELSE gen
        /\ receipts' = IF starts THEN Remembered(Append(receipts, op)) ELSE receipts
        /\ performed' = IF starts THEN Append(performed, op) ELSE performed
        /\ answer' = IF waiting[t] /\ resetOp[t] = op
                     THEN [answer EXCEPT ![t] = IF Done(known, starts) THEN gen' ELSE 0]
                     ELSE answer
        /\ UNCHANGED <<session, resetOp, waiting, nextId, lost>>

Granted(t) ==
    /\ answer[t] \in 1..MaxRuns
    /\ session' = [session EXCEPT ![t] = answer[t]]
    /\ resetOp' = [resetOp EXCEPT ![t] = None]
    /\ waiting' = [waiting EXCEPT ![t] = FALSE]
    /\ answer' = [answer EXCEPT ![t] = None]
    /\ UNCHANGED <<gen, receipts, wire, nextId, lost, performed>>

\* Whatever the refusal says, the page keeps the confirmation.
Refused(t) ==
    /\ answer[t] = 0
    /\ waiting' = [waiting EXCEPT ![t] = FALSE]
    /\ answer' = [answer EXCEPT ![t] = None]
    /\ UNCHANGED <<gen, receipts, session, resetOp, wire, nextId, lost, performed>>

\* The connection breaks before the request, or before its answer, arrives.
Break(t) ==
    /\ waiting[t] /\ lost < MaxLost
    /\ lost' = lost + 1
    /\ waiting' = [waiting EXCEPT ![t] = FALSE]
    /\ answer' = [answer EXCEPT ![t] = None]
    /\ UNCHANGED <<gen, receipts, session, resetOp, wire, nextId, performed>>

Next ==
    \/ \E t \in Tabs : Open(t) \/ Confirm(t) \/ ConfirmAgain(t) \/ Granted(t) \/ Refused(t) \/ Break(t)
    \/ \E m \in wire : Reset(m[1], m[2])

Spec == Init /\ [][Next]_vars

\* The server handles what reaches it, and the player keeps confirming.
Persistent ==
    Spec /\ WF_vars(\E m \in wire : Reset(m[1], m[2]))
         /\ \A t \in Tabs : WF_vars(ConfirmAgain(t)) /\ WF_vars(Granted(t) \/ Refused(t))

-----------------------------------------------------------------------------
\* Every variable keeps its type, and the newest receipts only are kept.
TypeOK ==
    /\ gen \in 1..MaxRuns
    /\ receipts \in Seq(Resets) /\ Len(receipts) <= MaxReceipts
    /\ session \in [Tabs -> (1..MaxRuns) \cup {None}]
    /\ resetOp \in [Tabs -> Resets \cup {None}]
    /\ wire \subseteq Tabs \X Resets
    /\ waiting \in [Tabs -> BOOLEAN]
    /\ answer \in [Tabs -> (0..MaxRuns) \cup {None}]
    /\ nextId \in 1..(MaxIds + 1) /\ lost \in 0..MaxLost
    /\ performed \in Seq(Resets)

\* One confirmation, however often it is repeated and whether or not its receipt
\* is still held, wipes one run and no other.
ResetOnce ==
    \A i, j \in DOMAIN performed : performed[i].id = performed[j].id => i = j

\* A page that is told its reset is done has had the run it confirmed wiped.
GrantedMeansWiped ==
    \A t \in Tabs : answer[t] \in 1..MaxRuns =>
        /\ answer[t] > resetOp[t].gen
        /\ \E i \in DOMAIN performed : performed[i] = resetOp[t]

\* However often a confirmation is repeated and answers are lost, it is carried out
\* once, and whoever is told so was served (dev/server.ts:74-99).
ResetSound == ResetOnce /\ GrantedMeansWiped

\* While the receipt of a reset is held, repeating it is never refused: a lost
\* answer does not cost the player the reset.
LostAnswerRecovered ==
    [][\A t \in Tabs : answer'[t] = 0 /\ answer[t] # 0 =>
          \A i \in DOMAIN performed :
              performed[i] = resetOp[t] => Len(performed) - i >= MaxReceipts]_vars

\* What the page says of a result it could not confirm: "Use the same
\* confirmation button to retry safely."  Whoever keeps confirming is reset.
RetryEventuallyGrants ==
    \A t \in Tabs : resetOp[t] # None ~> resetOp[t] = None
=============================================================================
