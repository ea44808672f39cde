--------------------------- MODULE CasebookProofs ---------------------------
(***************************************************************************)
(* For any questions, panels, receipt window and limits: the types, that no *)
(* operation is carried out twice, that a question pays once, that the      *)
(* casebook implements CasebookPromise, that the score is what was solved,  *)
(* that what a panel shows goes forward, and that it is told the truth.     *)
(*                                                                         *)
(* The receipts do not appear in the first argument: what protects the log  *)
(* is the revision, which every operation that is carried out uses up.      *)
(* Receipts only decide what a repeated request is told, and there the      *)
(* invariant is that they are the newest operations of the run.             *)
(*                                                                         *)
(* For any pages of a practice seat: a confirmation wipes one run however    *)
(* often it is repeated, a page that is told so was served, and a repetition  *)
(* is refused only when its receipt is no longer kept.  What protects a run   *)
(* is its generation: an id that is carried out twice would name two.         *)
(***************************************************************************)
EXTENDS MCCasebook, SequenceTheorems, SumTheorems, TLAPS

\* Every operation carried out named a revision of an earlier run, or an
\* earlier revision of this run.
LogPast ==
    \A i \in DOMAIN log :
        \/ log[i].op.gen < gen
        \/ log[i].op.gen = gen /\ log[i].op.rev < rev

IInv == TypeOK /\ LogPast /\ AppliedOnce /\ PaidOnce

-----------------------------------------------------------------------------
(* Types.                                                                  *)

LEMMA InitType == Init => TypeOK
BY QuestionAssumption, LimitAssumption DEF Init, TypeOK

LEMMA ProjectionType == TypeOK => Projection \in Views
BY DEF TypeOK, Projection, Views

\* What the next state projects has the type of a projection.
LEMMA NextProjection ==
    ASSUME gen' \in 1..MaxRuns, rev' \in Nat, solved' \subseteq Questions,
           hints' \in [Questions -> 0..3]
    PROVE  Projection' \in Views
BY DEF Projection, Views

\* Cutting a sequence of receipts keeps operations, at most MaxReceipts.
LEMMA KeptType ==
    ASSUME NEW s \in Seq(Operations)
    PROVE  Kept(s) \in Seq(Operations) /\ Len(Kept(s)) <= MaxReceipts
<1>1. Len(s) \in Nat /\ MaxReceipts \in Nat
  BY LimitAssumption
<1>2. CASE Len(s) > MaxReceipts
  <2> DEFINE lo == Len(s) - MaxReceipts + 1
  <2>1. lo \in 1..(Len(s) + 1) /\ Len(s) \in (lo - 1)..Len(s)
    BY <1>1, <1>2
  <2>2. SubSeq(s, lo, Len(s)) \in Seq(Operations)
    BY <2>1, SubSeqProperties
  <2>3. Len(SubSeq(s, lo, Len(s))) = MaxReceipts
    BY <1>1, <1>2, <2>1, SubSeqProperties
  <2> QED BY <1>1, <1>2, <2>2, <2>3 DEF Kept
<1>3. CASE ~(Len(s) > MaxReceipts)
  BY <1>1, <1>3 DEF Kept
<1> QED BY <1>2, <1>3

LEMMA AnsweredType ==
    ASSUME TypeOK, NEW m \in wire, NEW ok \in BOOLEAN, Answered(m, ok), Projection' \in Views
    PROVE  reply' \in [Tabs -> [ok : BOOLEAN, view : Views] \cup {None}]
<1>1. [ok |-> ok, view |-> Projection'] \in [ok : BOOLEAN, view : Views]
  OBVIOUS
<1>2. m.tab # None => m.tab \in Tabs
  BY DEF TypeOK
<1> QED BY <1>1, <1>2 DEF TypeOK, Answered

LEMMA HandleNewType ==
    ASSUME TypeOK, NEW m \in wire, HandleNew(m)
    PROVE  TypeOK'
<1> DEFINE op == m.op
<1>1. op \in Operations /\ Apply(op) /\ op.q \in Questions /\ op.rung \in 0..3
  BY DEF HandleNew, TypeOK, Operations
<1>2. rev < MaxOperations
  BY DEF HandleNew, Valid, Fresh
<1>3. rev' \in 0..MaxOperations /\ gen' \in 1..MaxRuns
  BY <1>1, <1>2, LimitAssumption DEF Apply, TypeOK
<1>4. solved' \subseteq Questions /\ attempts' \in [Questions -> Nat]
  BY <1>1 DEF Apply, TypeOK
<1>5. hints' \in [Questions -> 0..3]
  BY <1>1 DEF Apply, TypeOK
<1>6. score' \in Nat
  BY <1>1, QuestionAssumption DEF Apply, TypeOK
<1>7. receipts' \in Seq(Operations) /\ Len(receipts') <= MaxReceipts
  <2>1. Append(receipts, op) \in Seq(Operations)
    BY <1>1 DEF TypeOK
  <2> QED BY <1>1, <2>1, KeptType DEF Apply
<1>8. log' \in Seq(Entries)
  <2>1. Correct(op) \in BOOLEAN
    BY DEF Correct
  <2>2. [op |-> op, won |-> Correct(op)] \in Entries
    BY <1>1, <2>1 DEF Entries
  <2> QED BY <1>1, <2>2 DEF Apply, TypeOK
<1>9. reply' \in [Tabs -> [ok : BOOLEAN, view : Views] \cup {None}]
  <2>1. Projection' \in Views
    BY <1>3, <1>4, <1>5, LimitAssumption, NextProjection
  <2> QED BY <2>1, AnsweredType DEF HandleNew
<1>10. wire' \subseteq [tab : Tabs \cup {None}, tag : 1..MaxSends, op : Operations]
  BY DEF HandleNew, TypeOK
<1>11. UNCHANGED <<nextId, sends, view, pending, call, reads>>
  BY DEF HandleNew
<1> QED BY <1>3, <1>4, <1>5, <1>6, <1>7, <1>8, <1>9, <1>10, <1>11 DEF TypeOK

LEMMA HandleOldType ==
    ASSUME TypeOK, NEW m \in wire, HandleReplay(m) \/ HandleRefused(m)
    PROVE  TypeOK'
<1>1. UNCHANGED server /\ UNCHANGED <<nextId, sends, view, pending, call, reads>>
  BY DEF HandleReplay, HandleRefused
<1>2. reply' \in [Tabs -> [ok : BOOLEAN, view : Views] \cup {None}]
  <2>1. Projection' \in Views
    BY <1>1, NextProjection, LimitAssumption DEF TypeOK, server
  <2> QED BY <2>1, AnsweredType DEF HandleReplay, HandleRefused
<1>3. wire' \subseteq [tab : Tabs \cup {None}, tag : 1..MaxSends, op : Operations]
  BY DEF HandleReplay, HandleRefused, TypeOK
<1> QED BY <1>1, <1>2, <1>3 DEF TypeOK, server

LEMMA NewRunType == TypeOK /\ NewRun => TypeOK'
<1> SUFFICES ASSUME TypeOK, NewRun PROVE TypeOK'
  OBVIOUS
<1>1. gen' \in 1..MaxRuns /\ rev' \in 0..MaxOperations
  BY LimitAssumption DEF NewRun, TypeOK
<1>2. receipts' \in Seq(Operations) /\ Len(receipts') <= MaxReceipts
  BY LimitAssumption DEF NewRun
<1> QED BY <1>1, <1>2 DEF NewRun, TypeOK, panels

LEMMA ServeReadType ==
    ASSUME TypeOK, NEW t \in Tabs, NEW r \in reads[t], ServeRead(t, r)
    PROVE  TypeOK'
<1>1. r \in Reads
  BY DEF TypeOK
<1>2. [r EXCEPT !.view = Projection] \in Reads
  BY <1>1, ProjectionType DEF Reads
<1>3. reads' \in [Tabs -> SUBSET Reads]
  BY <1>2 DEF ServeRead, TypeOK
<1> QED BY <1>3 DEF ServeRead, TypeOK, server

LEMMA SendType ==
    ASSUME TypeOK, NEW t \in Tabs, NEW op \in Operations, Send(t, op),
           nextId' \in 1..(MaxIds + 1)
    PROVE  TypeOK'
<1>1. sends' \in 0..MaxSends /\ sends + 1 \in 1..MaxSends
  BY LimitAssumption DEF TypeOK, Send, Transmit
<1>2. wire' \subseteq [tab : Tabs \cup {None}, tag : 1..MaxSends, op : Operations]
  BY <1>1 DEF TypeOK, Send, Transmit
<1>3. pending' \in [Tabs -> Operations \cup {None}]
  BY DEF TypeOK, Send
<1>4. call' \in [Tabs -> 0..MaxSends]
  BY <1>1, LimitAssumption DEF TypeOK, Send
<1> QED BY <1>1, <1>2, <1>3, <1>4 DEF TypeOK, Send, server

LEMMA ComposeType ==
    ASSUME TypeOK, NEW t \in Tabs, NEW q \in Questions,
           (\E a \in {"right", "wrong"} : Answer(t, q, a)) \/ AskHint(t, q)
    PROVE  TypeOK'
<1>1. nextId' \in 1..(MaxIds + 1)
  BY LimitAssumption DEF Answer, AskHint, TypeOK
<1>2. nextId \in Ids
  BY LimitAssumption DEF Answer, AskHint, TypeOK, Ids
<1>3. view[t] \in Views
  BY DEF Answer, AskHint, TypeOK
<1>4. ASSUME NEW a \in {"right", "wrong"}, Answer(t, q, a)
      PROVE  TypeOK'
  <2> DEFINE op == [kind |-> "answer", id |-> nextId, rev |-> view[t].rev, gen |-> view[t].gen,
                    q |-> q, answer |-> a, rung |-> 0]
  <2>1. op \in Operations
    BY <1>2, <1>3 DEF Operations, Views, Answers
  <2>2. Send(t, op)
    BY <1>4 DEF Answer
  <2> QED BY <1>1, <2>1, <2>2, SendType
<1>5. CASE AskHint(t, q)
  <2> DEFINE op == [kind |-> "hint", id |-> nextId, rev |-> view[t].rev, gen |-> view[t].gen,
                    q |-> q, answer |-> "none", rung |-> view[t].hints[q] + 1]
  <2>1. view[t].hints[q] \in 0..3 /\ view[t].hints[q] < 3
    BY <1>3, <1>5 DEF Views, AskHint
  <2>2. op \in Operations
    BY <1>2, <1>3, <2>1 DEF Operations, Views
  <2>3. Send(t, op)
    BY <1>5 DEF AskHint
  <2> QED BY <1>1, <2>2, <2>3, SendType
<1> QED BY <1>4, <1>5

LEMMA RetryType ==
    ASSUME TypeOK, NEW t \in Tabs, Retry(t)
    PROVE  TypeOK'
<1>1. pending[t] \in Operations /\ nextId' \in 1..(MaxIds + 1) /\ Send(t, pending[t])
  BY DEF Retry, TypeOK
<1> QED BY <1>1, SendType

LEMMA ScriptType ==
    ASSUME TypeOK, NEW id \in ScriptIds, NEW q \in Questions, NEW a \in Answers, Script(id, q, a)
    PROVE  TypeOK'
<1> DEFINE op == [kind |-> "answer", id |-> id, rev |-> rev, gen |-> gen,
                  q |-> q, answer |-> a, rung |-> 0]
<1>1. op \in Operations
  BY LimitAssumption DEF Operations, Ids, TypeOK
<1>2. sends' \in 0..MaxSends /\ sends + 1 \in 1..MaxSends
  BY LimitAssumption DEF TypeOK, Script, Transmit
<1>3. wire' \subseteq [tab : Tabs \cup {None}, tag : 1..MaxSends, op : Operations]
  BY <1>1, <1>2 DEF TypeOK, Script, Transmit
<1> QED BY <1>2, <1>3 DEF TypeOK, Script, server, panels

LEMMA AcceptedType ==
    ASSUME TypeOK, NEW t \in Tabs, NEW next \in Views
    PROVE  [view EXCEPT ![t] = Accepted(@, next)] \in [Tabs -> Views \cup {None}]
<1>1. Accepted(view[t], next) \in Views \cup {None}
  BY DEF TypeOK, Accepted
<1> QED BY <1>1 DEF TypeOK

LEMMA ReceiveType ==
    ASSUME TypeOK, NEW t \in Tabs,
           ReceiveOk(t) \/ ReceiveRejected(t) \/ Fail(t) \/ AskRead(t) \/ Remount(t)
    PROVE  TypeOK'
<1>r. \A b \in BOOLEAN : [awaited |-> b, view |-> None] \in Reads
  BY DEF Reads
<1>1. CASE ReceiveOk(t)
  <2>1. reply[t].view \in Views
    BY <1>1 DEF ReceiveOk, TypeOK
  <2>2. view' \in [Tabs -> Views \cup {None}]
    BY <1>1, <2>1, AcceptedType DEF ReceiveOk
  <2> QED BY <1>1, <2>2, LimitAssumption DEF ReceiveOk, TypeOK, server
<1>2. CASE ReceiveRejected(t)
  <2>1. reads' \in [Tabs -> SUBSET Reads]
    BY <1>2, <1>r DEF ReceiveRejected, TypeOK
  <2>2. call' \in [Tabs -> 0..MaxSends]
    BY <1>2, LimitAssumption DEF ReceiveRejected, TypeOK
  <2>3. pending' \in [Tabs -> Operations \cup {None}]
    BY <1>2 DEF ReceiveRejected, TypeOK
  <2>4. reply' \in [Tabs -> [ok : BOOLEAN, view : Views] \cup {None}]
    BY <1>2 DEF ReceiveRejected, TypeOK
  <2> QED BY <1>2, <2>1, <2>2, <2>3, <2>4 DEF ReceiveRejected, TypeOK, server
<1>3. CASE Fail(t)
  BY <1>3, LimitAssumption DEF Fail, TypeOK, server
<1>4. CASE AskRead(t)
  BY <1>4, <1>r DEF AskRead, TypeOK, server
<1>5. CASE Remount(t)
  BY <1>5, LimitAssumption DEF Remount, TypeOK, server
<1> QED BY <1>1, <1>2, <1>3, <1>4, <1>5

LEMMA ReadType ==
    ASSUME TypeOK, NEW t \in Tabs, NEW r \in reads[t], ReadArrives(t, r) \/ ReadFails(t, r)
    PROVE  TypeOK'
<1>1. r \in Reads
  BY DEF TypeOK
<1>2. CASE ReadArrives(t, r)
  <2>1. r.view \in Views
    BY <1>1, <1>2 DEF ReadArrives, Reads
  <2>2. view' \in [Tabs -> Views \cup {None}]
    BY <1>2, <2>1, AcceptedType DEF ReadArrives
  <2>3. pending' \in [Tabs -> Operations \cup {None}]
    BY <1>2 DEF ReadArrives, StillPending, TypeOK
  <2> QED BY <1>2, <2>2, <2>3 DEF ReadArrives, TypeOK, server
<1>3. CASE ReadFails(t, r)
  BY <1>3 DEF ReadFails, TypeOK, server
<1> QED BY <1>2, <1>3

\* Every step keeps the types.
LEMMA NextType == TypeOK /\ [Next]_vars => TypeOK'
<1> SUFFICES ASSUME TypeOK, [Next]_vars PROVE TypeOK'
  OBVIOUS
<1>1. CASE Adapter
  BY <1>1, HandleNewType, HandleOldType, NewRunType, ServeReadType DEF Adapter
<1>2. ASSUME NEW t \in Tabs, Panel(t) PROVE TypeOK'
  BY <1>2, ComposeType, RetryType, ReceiveType, ReadType DEF Panel
<1>3. CASE \E id \in ScriptIds, q \in Questions, a \in Answers : Script(id, q, a)
  BY <1>3, ScriptType
<1>4. CASE UNCHANGED vars
  BY <1>4 DEF vars, server, panels, TypeOK
<1> QED BY <1>1, <1>2, <1>3, <1>4 DEF Next

-----------------------------------------------------------------------------
(* The log.                                                                *)

\* Steps that leave the run, the revision, the solved questions and the log
\* alone cannot disturb the invariant.
LEMMA QuietLog ==
    ASSUME IInv, TypeOK', UNCHANGED <<gen, rev, solved, log>>
    PROVE  IInv'
BY DEF IInv, LogPast, AppliedOnce, PaidOnce

LEMMA LoggedNumbers ==
    ASSUME TypeOK, NEW i \in DOMAIN log
    PROVE  log[i].op.gen \in Nat /\ log[i].op.rev \in Nat
<1>1. log[i] \in Entries
  BY DEF TypeOK
<1>2. log[i].op \in Operations
  BY <1>1 DEF Entries
<1> QED BY <1>2, LimitAssumption DEF Operations

\* The operation carried out uses up the current revision, and pays only for
\* a question that no entry of this run has paid for.
LEMMA HandleNewLog ==
    ASSUME IInv, NEW m \in wire, HandleNew(m)
    PROVE  IInv'
<1> DEFINE op == m.op
           n == Len(log) + 1
<1>t. TypeOK'
  BY HandleNewType DEF IInv
<1>1. Apply(op) /\ op.gen = gen /\ op.rev = rev
  BY DEF HandleNew, Valid, Fresh, Reused, Replay
<1>2. op.kind = "answer" => op.q \notin solved
  BY DEF HandleNew, Valid, Fresh, Reused, Replay
<1>3. gen' = gen /\ rev' = rev + 1 /\ rev \in Nat /\ gen \in Nat /\ log \in Seq(Entries)
  BY <1>1, LimitAssumption DEF Apply, IInv, TypeOK
<1>4. /\ DOMAIN log' = 1..n /\ DOMAIN log = 1..(n - 1) /\ n \in Nat
      /\ log'[n] = [op |-> op, won |-> Correct(op)]
      /\ \A i \in DOMAIN log : log'[i] = log[i]
  BY <1>1, <1>3 DEF Apply
<1>5. \A i \in DOMAIN log : log[i].op.gen \in Nat /\ log[i].op.rev \in Nat
  BY LoggedNumbers DEF IInv
<1>6. \A i \in DOMAIN log : log[i].op # op
  BY <1>1, <1>3, <1>5 DEF IInv, LogPast
<1>7. LogPast'
  BY <1>1, <1>3, <1>4, <1>5 DEF IInv, LogPast
<1>8. AppliedOnce'
  BY <1>4, <1>6 DEF IInv, AppliedOnce
<1>9. solved \subseteq solved' /\ (Correct(op) => op.q \in solved' /\ op.q \notin solved)
  <2>1. op.kind \in {"answer", "hint"}
    BY DEF IInv, TypeOK, Operations
  <2>2. op.kind = "hint" => solved' = solved /\ ~Correct(op)
    BY <1>1 DEF Apply, Correct
  <2>3. op.kind = "answer" => solved' = IF Correct(op) THEN solved \cup {op.q} ELSE solved \ {op.q}
    BY <1>1 DEF Apply
  <2> QED BY <1>2, <2>1, <2>2, <2>3
<1>10. PaidOnce'
  <2> SUFFICES ASSUME NEW i \in 1..n, NEW j \in 1..n
               PROVE  /\ log'[i].won /\ log'[i].op.gen = gen' => log'[i].op.q \in solved'
                      /\ log'[i].won /\ log'[j].won /\ log'[i].op.gen = log'[j].op.gen
                           /\ log'[i].op.q = log'[j].op.q => i = j
    BY <1>4 DEF PaidOnce
  <2>1. \A k \in DOMAIN log : log[k].won /\ log[k].op.gen = gen => log[k].op.q \in solved
    BY DEF IInv, PaidOnce
  <2>2. log'[i].won /\ log'[i].op.gen = gen' => log'[i].op.q \in solved'
    BY <1>3, <1>4, <1>9, <2>1
  <2>3. ASSUME log'[i].won, log'[j].won, log'[i].op.gen = log'[j].op.gen,
               log'[i].op.q = log'[j].op.q
        PROVE  i = j
    <3>1. CASE i \in DOMAIN log /\ j \in DOMAIN log
      BY <1>4, <2>3, <3>1 DEF IInv, PaidOnce
    <3>2. CASE i = n /\ j \in DOMAIN log
      BY <1>1, <1>4, <1>9, <2>1, <2>3, <3>2
    <3>3. CASE i \in DOMAIN log /\ j = n
      BY <1>1, <1>4, <1>9, <2>1, <2>3, <3>3
    <3> QED BY <1>4, <3>1, <3>2, <3>3
  <2> QED BY <2>2, <2>3
<1> QED BY <1>t, <1>7, <1>8, <1>10 DEF IInv

\* A new run makes every entry an entry of an earlier run.
LEMMA NewRunLog == IInv /\ NewRun => IInv'
<1> SUFFICES ASSUME IInv, NewRun PROVE IInv'
  OBVIOUS
<1>t. TypeOK'
  BY NewRunType DEF IInv
<1>1. gen' = gen + 1 /\ gen \in Nat /\ log' = log /\ log \in Seq(Entries)
  BY LimitAssumption DEF NewRun, IInv, TypeOK
<1>2. \A i \in DOMAIN log : log[i].op.gen \in Nat
  BY LoggedNumbers DEF IInv
<1>3. \A i \in DOMAIN log : log[i].op.gen < gen'
  BY <1>1, <1>2 DEF IInv, LogPast
<1>4. LogPast'
  BY <1>1, <1>3 DEF LogPast
<1>5. AppliedOnce'
  BY <1>1 DEF IInv, AppliedOnce
<1>6. PaidOnce'
  BY <1>1, <1>2, <1>3 DEF IInv, PaidOnce
<1> QED BY <1>t, <1>4, <1>5, <1>6 DEF IInv

LEMMA InitIInv == Init => IInv
BY InitType DEF Init, IInv, LogPast, AppliedOnce, PaidOnce

LEMMA NextIInv == IInv /\ [Next]_vars => IInv'
<1> SUFFICES ASSUME IInv, [Next]_vars PROVE IInv'
  OBVIOUS
<1>t. TypeOK'
  BY NextType DEF IInv
<1>1. ASSUME NEW m \in wire, HandleNew(m) PROVE IInv'
  BY <1>1, HandleNewLog
<1>2. ASSUME NEW m \in wire, HandleReplay(m) \/ HandleRefused(m) PROVE IInv'
  BY <1>2, <1>t, QuietLog DEF HandleReplay, HandleRefused, server
<1>3. CASE NewRun
  BY <1>3, NewRunLog
<1>4. ASSUME NEW t \in Tabs, NEW r \in reads[t], ServeRead(t, r) PROVE IInv'
  BY <1>4, <1>t, QuietLog DEF ServeRead, server
<1>5. ASSUME NEW t \in Tabs, Panel(t) PROVE IInv'
  <2>1. UNCHANGED server
    BY <1>5 DEF Panel, Answer, AskHint, Retry, Send, ReceiveOk, ReceiveRejected, Fail, AskRead,
                Remount, ReadArrives, ReadFails
  <2> QED BY <1>t, <2>1, QuietLog DEF server
<1>6. ASSUME NEW id \in ScriptIds, NEW q \in Questions, NEW a \in Answers, Script(id, q, a)
      PROVE  IInv'
  BY <1>6, <1>t, QuietLog DEF Script, server
<1>7. CASE UNCHANGED vars
  BY <1>7, <1>t, QuietLog DEF vars, server
<1> QED BY <1>1, <1>2, <1>3, <1>4, <1>5, <1>6, <1>7 DEF Next, Adapter

\* The invariant holds in every reachable state.
THEOREM CasebookInvariant == Spec => []IInv
<1> QED BY InitIInv, NextIInv, PTL DEF Spec

\* Every variable keeps its type, for any number of panels, requests and runs.
THEOREM CasebookTypes == Spec => []TypeOK
<1>1. IInv => TypeOK
  BY DEF IInv
<1> QED BY <1>1, CasebookInvariant, PTL

\* A request repeated at any time, by any panel, after any number of other
\* operations and resets, is carried out at most once.
LEMMA CarriedOutOnce == Spec => []AppliedOnce
<1>1. IInv => AppliedOnce
  BY DEF IInv
<1> QED BY <1>1, CasebookInvariant, PTL

\* No question pays twice in one run.
LEMMA QuestionsPayOnce == Spec => []PaidOnce
<1>1. IInv => PaidOnce
  BY DEF IInv
<1> QED BY <1>1, CasebookInvariant, PTL

\* Nothing is carried out twice and nothing pays twice.
THEOREM OperationsAreOnce == Spec => []OperationsOnce
<1>1. AppliedOnce /\ PaidOnce => OperationsOnce
  BY DEF OperationsOnce
<1> QED BY CarriedOutOnce, QuestionsPayOnce, <1>1, PTL

-----------------------------------------------------------------------------
(* The casebook implements its promise.                                    *)

LEMMA InitPromise == Init => Promise!PInit
BY DEF Init, Promise!PInit

\* An operation carried out is a solved question, an opened hint, or, when the
\* answer is wrong, nothing at all.
LEMMA HandleNewPromise ==
    ASSUME TypeOK, NEW m \in wire, HandleNew(m)
    PROVE  [Promise!PNext]_<<gen, solved, hints, score>>
<1> DEFINE op == m.op
<1>1. Apply(op) /\ op \in Operations /\ Fresh(op)
  BY DEF HandleNew, Valid, Reused, Replay, TypeOK
<1>2. op.q \in Questions /\ op.kind \in {"answer", "hint"} /\ op.rung \in 0..3 /\ gen' = gen
  BY <1>1 DEF Apply, Operations
<1>3. CASE op.kind = "hint"
  <2>1. op.rung = hints[op.q] + 1 /\ hints[op.q] \in 0..3
    BY <1>1, <1>2, <1>3 DEF Fresh, TypeOK
  <2>2. hints[op.q] < 3 /\ hints' = [hints EXCEPT ![op.q] = op.rung]
    BY <1>1, <1>2, <1>3, <2>1 DEF Apply
  <2>3. solved' = solved /\ score' = score
    BY <1>1, <1>3 DEF Apply, Correct
  <2>4. Promise!OpenHint(op.q)
    BY <1>2, <2>1, <2>2, <2>3 DEF Promise!OpenHint
  <2> QED BY <1>2, <2>4 DEF Promise!PNext
<1>4. CASE op.kind = "answer" /\ Correct(op)
  <2>1. op.q \notin solved /\ Prior[op.q] \subseteq solved
    BY <1>1, <1>4 DEF Fresh, Correct
  <2>2. solved' = solved \cup {op.q} /\ score' = score + Points[op.q] /\ hints' = hints
    BY <1>1, <1>4 DEF Apply
  <2>3. Promise!Solve(op.q)
    BY <1>2, <2>1, <2>2 DEF Promise!Solve
  <2> QED BY <1>2, <2>3 DEF Promise!PNext
<1>5. CASE op.kind = "answer" /\ ~Correct(op)
  <2>1. op.q \notin solved
    BY <1>1, <1>5 DEF Fresh
  <2>2. solved' = solved /\ score' = score /\ hints' = hints
    BY <1>1, <1>5, <2>1 DEF Apply
  <2> QED BY <1>2, <2>2
<1> QED BY <1>2, <1>3, <1>4, <1>5

LEMMA NextPromise ==
    ASSUME TypeOK, [Next]_vars
    PROVE  [Promise!PNext]_<<gen, solved, hints, score>>
<1>1. ASSUME NEW m \in wire, HandleNew(m)
      PROVE  [Promise!PNext]_<<gen, solved, hints, score>>
  BY <1>1, HandleNewPromise
<1>2. CASE NewRun
  BY <1>2 DEF NewRun, Promise!PNext, Promise!StartOver
<1>3. ASSUME UNCHANGED server
      PROVE  [Promise!PNext]_<<gen, solved, hints, score>>
  BY <1>3 DEF server
<1>4. ASSUME NEW m \in wire, HandleReplay(m) \/ HandleRefused(m) PROVE UNCHANGED server
  BY <1>4 DEF HandleReplay, HandleRefused
<1>5. ASSUME NEW t \in Tabs, NEW r \in reads[t], ServeRead(t, r) PROVE UNCHANGED server
  BY <1>5 DEF ServeRead
<1>6. ASSUME NEW t \in Tabs, Panel(t) PROVE UNCHANGED server
  BY <1>6 DEF Panel, Answer, AskHint, Retry, Send, ReceiveOk, ReceiveRejected, Fail, AskRead,
              Remount, ReadArrives, ReadFails
<1>7. ASSUME NEW id \in ScriptIds, NEW q \in Questions, NEW a \in Answers, Script(id, q, a)
      PROVE  UNCHANGED server
  BY <1>7 DEF Script
<1>8. CASE UNCHANGED vars
  BY <1>3, <1>8 DEF vars
<1> QED BY <1>1, <1>2, <1>3, <1>4, <1>5, <1>6, <1>7, <1>8 DEF Next, Adapter

\* Requests, retries, receipts and late answers add no behaviour to what the
\* casebook promises: every behaviour of the system is one of the promise.
THEOREM PromiseKept == Spec => KeepsPromise
<1>1. Init => Promise!PInit
  BY InitPromise
<1>2. TypeOK /\ [Next]_vars => [Promise!PNext]_(Promise!pvars)
  BY NextPromise DEF Promise!pvars
<1> QED BY <1>1, <1>2, CasebookTypes, PTL DEF Spec, KeepsPromise, Promise!PSpec

-----------------------------------------------------------------------------
(* The score.                                                              *)

\* The points of the solved questions are what the fold adds up.
LEMMA PointsAddUp ==
    ASSUME NEW S \in SUBSET Questions
    PROVE  /\ IsFiniteSet(S)
           /\ MapThenSumSet(LAMBDA q : Points[q], S) = Total(Points, S)
<1>1. IsFiniteSet(S) /\ \A q \in S : Points[q] \in Nat
  BY QuestionAssumption, FS_Subset
<1> QED BY <1>1, FoldIsTotal DEF MapThenSumSet

LEMMA PromiseScore ==
    ASSUME TypeOK, TypeOK', ScoreEarned, [Promise!PNext]_<<gen, solved, hints, score>>
    PROVE  ScoreEarned'
<1> DEFINE Sum(S) == MapThenSumSet(LAMBDA q : Points[q], S)
<1>1. score = Total(Points, solved) /\ IsFiniteSet(solved)
  BY PointsAddUp DEF TypeOK, ScoreEarned
<1>2. score' = Total(Points, solved')
  <2>1. ASSUME NEW q \in Questions, Promise!Solve(q)
        PROVE  score' = Total(Points, solved')
    <3>1. q \notin solved /\ solved' = solved \cup {q} /\ score' = score + Points[q]
      BY <2>1 DEF Promise!Solve
    <3>2. \A x \in solved \cup {q} : Points[x] \in Nat
      BY QuestionAssumption DEF TypeOK
    <3> QED BY <1>1, <3>1, <3>2, TotalPut
  <2>2. ASSUME NEW q \in Questions, Promise!OpenHint(q)
        PROVE  UNCHANGED <<solved, score>>
    BY <2>2 DEF Promise!OpenHint
  <2>3. CASE Promise!StartOver
    BY <2>3, TotalEmpty DEF Promise!StartOver
  <2>4. CASE UNCHANGED <<solved, score>>
    BY <1>1, <2>4
  <2> QED BY <2>1, <2>2, <2>3, <2>4 DEF Promise!PNext
<1>3. solved' \in SUBSET Questions
  BY DEF TypeOK
<1>4. \A S \in SUBSET Questions : Sum(S) = Total(Points, S)
  BY PointsAddUp
<1>5. ScoreEarned' <=> score' = Sum(solved')
  BY DEF ScoreEarned, MapThenSumSet, MapThenFoldSet
<1> HIDE DEF Sum
<1> QED BY <1>2, <1>3, <1>4, <1>5

\* The score is at all times the points of the questions solved in this run: no repeated,
\* refused or reordered request leaves them apart.
THEOREM ScoreIsEarned == Spec => []ScoreEarned
<1>1. Init => ScoreEarned
  <2> SUFFICES ASSUME Init PROVE score = MapThenSumSet(LAMBDA q : Points[q], solved)
    BY DEF ScoreEarned
  <2>1. score = 0 /\ solved = {}
    BY DEF Init
  <2>2. MapThenSumSet(LAMBDA q : Points[q], {}) = Total(Points, {})
    BY PointsAddUp
  <2> QED BY <2>1, <2>2, TotalEmpty
<1>2. TypeOK /\ TypeOK' /\ ScoreEarned /\ [Next]_vars => ScoreEarned'
  BY NextPromise, PromiseScore
<1> QED BY <1>1, <1>2, CasebookTypes, PTL DEF Spec

-----------------------------------------------------------------------------
(* What a panel shows.                                                     *)

\* What a panel shows or may yet be shown, and what it would be shown now.
Seen ==
    {v \in Views : \/ v = Projection
                   \/ \E t \in Tabs : \/ view[t] = v
                                      \/ reply[t] # None /\ reply[t].view = v
                                      \/ \E r \in reads[t] : r.view = v}

Below(v, w) ==
    v.gen = w.gen /\ v.rev <= w.rev =>
        v.solved \subseteq w.solved /\ \A q \in Questions : v.hints[q] <= w.hints[q]

\* Of two projections of one run, the one with the higher revision has all of the other,
\* and none is ahead of the state.
SeenInOrder ==
    \A v \in Seen :
        /\ v.gen < gen \/ (v.gen = gen /\ v.rev <= rev)
        /\ \A w \in Seen : Below(v, w)

\* Steps of panels, of reads and of refused requests only hand on what has been seen.
LEMMA SeenKept ==
    ASSUME SeenInOrder, UNCHANGED <<gen, rev>>, Seen' \subseteq Seen
    PROVE  SeenInOrder'
BY DEF SeenInOrder, Below

\* A step after which only the present projection is new, and above all of its run.
LEMMA SeenGrows ==
    ASSUME TypeOK, TypeOK', SeenInOrder, Seen' \subseteq Seen \cup {Projection'},
           \A v \in Seen : v # Projection' =>
              \/ v.gen < gen'
              \/ v.gen = gen' /\ v.rev < rev' /\ Below(v, Projection')
    PROVE  SeenInOrder'
<1>0. /\ \A v \in Views : v.gen \in Int /\ v.rev \in Int
      /\ gen' \in Int /\ rev' \in Int
  BY LimitAssumption DEF TypeOK, Views
<1>1. Projection'.gen = gen' /\ Projection'.rev = rev' /\ Projection' \in Views
  BY ProjectionType DEF Projection, TypeOK, Views
<1>2. Below(Projection', Projection')
  <2>1. \A q \in Questions : Projection'.hints[q] \in Int
    BY <1>1 DEF Views
  <2> QED BY <2>1 DEF Below
<1>3. ASSUME NEW v \in Seen'
      PROVE  v.gen < gen' \/ (v.gen = gen' /\ v.rev <= rev')
  BY <1>0, <1>1, <1>3 DEF Seen
<1>4. ASSUME NEW v \in Seen', NEW w \in Seen'
      PROVE  Below(v, w)
  <2>0. v \in Views /\ w \in Views
    BY DEF Seen
  <2>1. CASE v = Projection' /\ w = Projection'
    BY <1>2, <2>1
  <2>2. CASE v # Projection' /\ w # Projection'
    BY <2>2 DEF SeenInOrder
  <2>3. CASE v # Projection' /\ w = Projection'
    <3>1. v \in Seen
      BY <2>3
    <3> QED BY <1>0, <1>1, <2>0, <2>3, <3>1 DEF Below
  <2>4. CASE v = Projection' /\ w # Projection'
    <3>1. w \in Seen
      BY <2>4
    <3> QED BY <1>0, <1>1, <2>0, <2>4, <3>1 DEF Below
  <2> QED BY <2>1, <2>2, <2>3, <2>4
<1> QED BY <1>3, <1>4 DEF SeenInOrder, Below

LEMMA ProjectionSeen == TypeOK => Projection \in Seen
BY ProjectionType DEF Seen

\* An answer shows the panel that waits for it what is projected after the step.
LEMMA AnsweredSeen ==
    ASSUME TypeOK, TypeOK', NEW m \in wire, NEW ok \in BOOLEAN, Answered(m, ok),
           UNCHANGED <<view, reads>>
    PROVE  Seen' \subseteq Seen \cup {Projection'}
<1> SUFFICES ASSUME NEW v \in Seen', v # Projection' PROVE v \in Seen
  OBVIOUS
<1>1. ASSUME NEW t \in Tabs, reply'[t] # None, reply'[t].view = v
      PROVE  reply[t] # None /\ reply[t].view = v
  <2>1. reply'[t] # [ok |-> ok, view |-> Projection']
    BY <1>1
  <2> QED BY <1>1, <2>1 DEF Answered, TypeOK
<1> QED BY <1>1 DEF Seen

LEMMA HandleNewSeen ==
    ASSUME TypeOK, TypeOK', SeenInOrder, NEW m \in wire, HandleNew(m)
    PROVE  SeenInOrder'
<1> DEFINE op == m.op
<1>1. Apply(op) /\ Fresh(op) /\ op \in Operations
  BY DEF HandleNew, Valid, Reused, Replay, TypeOK
<1>2. gen' = gen /\ rev' = rev + 1 /\ rev \in Int /\ gen \in Int
  BY <1>1, LimitAssumption DEF Apply, TypeOK
<1>3. solved \subseteq solved'
  <2>1. op.kind \in {"answer", "hint"}
    BY <1>1 DEF Operations
  <2> QED BY <1>1, <2>1 DEF Apply, Fresh
<1>4. \A q \in Questions : hints[q] \in Int /\ hints'[q] \in Int /\ hints[q] <= hints'[q]
  <2>1. hints' = IF op.kind = "hint" THEN [hints EXCEPT ![op.q] = op.rung] ELSE hints
    BY <1>1 DEF Apply
  <2>2. op.kind = "hint" => op.rung = hints[op.q] + 1
    BY <1>1 DEF Fresh
  <2>3. hints \in [Questions -> 0..3] /\ hints' \in [Questions -> 0..3]
    BY DEF TypeOK
  <2>4. ASSUME NEW q \in Questions PROVE hints'[q] = hints[q] \/ hints'[q] = hints[q] + 1
    BY <2>1, <2>2, <2>3
  <2>5. ASSUME NEW q \in Questions PROVE hints[q] \in Int /\ hints'[q] \in Int
    BY <2>3
  <2> HIDE DEF op
  <2> QED BY <2>4, <2>5
<1>5. Seen' \subseteq Seen \cup {Projection'}
  BY AnsweredSeen DEF HandleNew
<1>6. ASSUME NEW v \in Seen
      PROVE  v.gen < gen' \/ (v.gen = gen' /\ v.rev < rev' /\ Below(v, Projection'))
  <2>1. v \in Views /\ v.rev \in Int /\ v.gen \in Int
    BY DEF Seen, Views
  <2>2. CASE v.gen < gen
    BY <1>2, <2>2
  <2>3. CASE v.gen = gen /\ v.rev <= rev
    <3>1. Below(v, Projection)
      BY ProjectionSeen DEF SeenInOrder
    <3>2. v.solved \subseteq solved /\ \A q \in Questions : v.hints[q] <= hints[q]
      BY <2>3, <3>1 DEF Below, Projection
    <3>3. \A q \in Questions : v.hints[q] \in Int
      BY <2>1 DEF Views
    <3>4. Projection'.solved = solved' /\ Projection'.hints = hints'
      BY DEF Projection
    <3>5. \A q \in Questions : v.hints[q] <= hints'[q]
      BY <1>4, <3>2, <3>3
    <3>6. Below(v, Projection')
      BY <1>3, <3>2, <3>4, <3>5 DEF Below
    <3> QED BY <1>2, <2>1, <2>3, <3>6
  <2> QED BY <2>2, <2>3 DEF SeenInOrder
<1> QED BY <1>5, <1>6, SeenGrows

LEMMA HandleOldSeen ==
    ASSUME TypeOK, TypeOK', SeenInOrder, NEW m \in wire, HandleReplay(m) \/ HandleRefused(m)
    PROVE  SeenInOrder'
<1>1. UNCHANGED server /\ UNCHANGED <<view, reads>>
  BY DEF HandleReplay, HandleRefused
<1>2. Projection' = Projection
  BY <1>1 DEF server, Projection
<1>3. Seen' \subseteq Seen \cup {Projection'}
  BY <1>1, AnsweredSeen DEF HandleReplay, HandleRefused
<1> QED BY <1>1, <1>2, <1>3, ProjectionSeen, SeenKept DEF server

LEMMA NewRunSeen ==
    ASSUME TypeOK, TypeOK', SeenInOrder, NewRun
    PROVE  SeenInOrder'
<1>1. gen' = gen + 1 /\ gen \in Int /\ UNCHANGED <<view, reply, reads>>
  BY LimitAssumption DEF NewRun, panels, TypeOK
<1>2. Seen' \subseteq Seen \cup {Projection'}
  BY <1>1 DEF Seen
<1>3. ASSUME NEW v \in Seen PROVE v.gen < gen'
  <2>1. v.gen \in Int /\ v.gen <= gen
    BY <1>1, LimitAssumption DEF Seen, Views, SeenInOrder
  <2> QED BY <1>1, <2>1
<1> QED BY <1>2, <1>3, SeenGrows

LEMMA ServeReadSeen ==
    ASSUME TypeOK, TypeOK', SeenInOrder, NEW t \in Tabs, NEW r \in reads[t], ServeRead(t, r)
    PROVE  SeenInOrder'
<1>1. UNCHANGED <<gen, rev, view, reply>> /\ Projection' = Projection
  BY DEF ServeRead, server, Projection
<1>2. ASSUME NEW u \in Tabs, NEW x \in reads'[u], NEW v \in Views, x.view = v, v # Projection
      PROVE  \E y \in reads[u] : y.view = v
  <2>1. r \in Reads
    BY DEF TypeOK
  <2>2. [r EXCEPT !.view = Projection].view = Projection
    BY <2>1 DEF Reads
  <2>3. x \in reads[u]
    BY <1>2, <2>2 DEF ServeRead, TypeOK
  <2> QED BY <1>2, <2>3
<1>3. Seen' \subseteq Seen \cup {Projection}
  BY <1>1, <1>2 DEF Seen
<1> QED BY <1>1, <1>3, ProjectionSeen, SeenKept

LEMMA PanelSeen ==
    ASSUME TypeOK, TypeOK', SeenInOrder, NEW t \in Tabs, Panel(t)
    PROVE  SeenInOrder'
<1>1. UNCHANGED server
  BY DEF Panel, Answer, AskHint, Retry, Send, ReceiveOk, ReceiveRejected, Fail, AskRead,
         Remount, ReadArrives, ReadFails
<1>2. Projection' = Projection /\ UNCHANGED <<gen, rev>>
  BY <1>1 DEF server, Projection
<1>n. \A v \in Views : v # None
  BY NoneAssumption
<1>3. CASE UNCHANGED <<view, reply, reads>>
  BY <1>2, <1>3, SeenKept DEF Seen
<1>4. CASE ReceiveOk(t)
  <2>1. \A u \in Tabs : reply'[u] # None => reply'[u] = reply[u]
    BY <1>4 DEF ReceiveOk, TypeOK
  <2>2. \A u \in Tabs : view'[u] = view[u] \/ (u = t /\ view'[u] = reply[t].view)
    BY <1>4 DEF ReceiveOk, Accepted, TypeOK
  <2>3. reply[t] # None /\ UNCHANGED reads
    BY <1>4 DEF ReceiveOk
  <2>4. Seen' \subseteq Seen
    BY <1>2, <2>1, <2>2, <2>3 DEF Seen
  <2> QED BY <1>2, <2>4, SeenKept
<1>5. CASE ReceiveRejected(t) \/ Fail(t) \/ AskRead(t) \/ Remount(t)
           \/ (\E r \in reads[t] : ReadFails(t, r))
  <2>1. \A u \in Tabs : reply'[u] # None => reply'[u] = reply[u]
    BY <1>5 DEF ReceiveRejected, Fail, AskRead, Remount, ReadFails, TypeOK
  <2>2. \A u \in Tabs : view'[u] = view[u] \/ view'[u] = None
    BY <1>5 DEF ReceiveRejected, Fail, AskRead, Remount, ReadFails, TypeOK
  <2>3. \A u \in Tabs : \A r \in reads'[u] : r \in reads[u] \/ r.view = None
    <3>1. CASE ReceiveRejected(t)
      BY <3>1 DEF ReceiveRejected, TypeOK
    <3>2. CASE Fail(t)
      BY <3>2 DEF Fail
    <3>3. CASE AskRead(t)
      BY <3>3 DEF AskRead, TypeOK
    <3>4. CASE Remount(t)
      BY <3>4 DEF Remount, TypeOK
    <3>5. CASE \E r \in reads[t] : ReadFails(t, r)
      BY <3>5 DEF ReadFails, TypeOK
    <3> QED BY <1>5, <3>1, <3>2, <3>3, <3>4, <3>5
  <2>4. Seen' \subseteq Seen
    BY <1>2, <1>n, <2>1, <2>2, <2>3 DEF Seen
  <2> QED BY <1>2, <2>4, SeenKept
<1>6. ASSUME NEW r \in reads[t], ReadArrives(t, r) PROVE SeenInOrder'
  <2>1. \A u \in Tabs : view'[u] = view[u] \/ (u = t /\ view'[u] = r.view)
    BY <1>6 DEF ReadArrives, Accepted, TypeOK
  <2>2. UNCHANGED reply /\ \A u \in Tabs : reads'[u] \subseteq reads[u]
    BY <1>6 DEF ReadArrives, TypeOK
  <2>3. Seen' \subseteq Seen
    BY <1>2, <2>1, <2>2 DEF Seen
  <2> QED BY <1>2, <2>3, SeenKept
<1>7. CASE (\E q \in Questions, a \in {"right", "wrong"} : Answer(t, q, a))
           \/ (\E q \in Questions : AskHint(t, q)) \/ Retry(t)
  <2>1. UNCHANGED <<view, reply, reads>>
    BY <1>7 DEF Answer, AskHint, Retry, Send
  <2> QED BY <1>3, <2>1
<1> QED BY <1>4, <1>5, <1>6, <1>7 DEF Panel

LEMMA NextSeen == TypeOK /\ TypeOK' /\ SeenInOrder /\ [Next]_vars => SeenInOrder'
<1> SUFFICES ASSUME TypeOK, TypeOK', SeenInOrder, [Next]_vars PROVE SeenInOrder'
  OBVIOUS
<1>1. CASE Adapter
  BY <1>1, HandleNewSeen, HandleOldSeen, NewRunSeen, ServeReadSeen DEF Adapter
<1>2. ASSUME NEW t \in Tabs, Panel(t) PROVE SeenInOrder'
  BY <1>2, PanelSeen
<1>3. ASSUME UNCHANGED <<server, panels>> PROVE SeenInOrder'
  <2>1. UNCHANGED <<gen, rev, view, reply, reads>> /\ Projection' = Projection
    BY <1>3 DEF server, panels, Projection
  <2>2. Seen' \subseteq Seen
    BY <2>1 DEF Seen
  <2> QED BY <2>1, <2>2, SeenKept
<1>4. CASE \E id \in ScriptIds, q \in Questions, a \in Answers : Script(id, q, a)
  BY <1>3, <1>4 DEF Script
<1>5. CASE UNCHANGED vars
  BY <1>3, <1>5 DEF vars
<1> QED BY <1>1, <1>2, <1>4, <1>5 DEF Next

LEMMA InitSeen == Init => SeenInOrder
<1> SUFFICES ASSUME Init PROVE SeenInOrder
  OBVIOUS
<1>1. \A v \in Seen : v = Projection
  BY NoneAssumption DEF Init, Seen
<1>2. gen = 1 /\ rev = 0 /\ Projection.gen = 1 /\ Projection.rev = 0
      /\ \A q \in Questions : Projection.hints[q] = 0
  BY DEF Init, Projection
<1>3. \A v \in Seen : v.gen = 1 /\ v.rev = 0 /\ \A q \in Questions : v.hints[q] = 0
  BY <1>1, <1>2
<1> QED BY <1>1, <1>2, <1>3 DEF SeenInOrder, Below

\* However reads, replies and resets overtake one another, whatever two projections are on
\* their way or on show, the one with the higher revision has all of the other.
THEOREM ProjectionsInOrder == Spec => []SeenInOrder
BY InitSeen, NextSeen, CasebookTypes, PTL DEF Spec

\* A panel never takes back, within a run, a revision, a solved question or an opened hint
\* that it has shown.
THEOREM ViewsGoForward == Spec => ViewForward
<1>1. ASSUME TypeOK, TypeOK', SeenInOrder, [Next]_vars, NEW t \in Tabs,
             view[t] # None, view'[t] # None, view[t].gen = view'[t].gen
      PROVE  /\ view[t].rev <= view'[t].rev
             /\ view[t].solved \subseteq view'[t].solved
             /\ \A q \in Questions : view[t].hints[q] <= view'[t].hints[q]
  <2>0. view[t] \in Views /\ view'[t] \in Views /\ view[t] \in Seen
    BY <1>1 DEF TypeOK, Seen
  <2>1. CASE view'[t] = view[t]
    <3>1. view[t].rev \in Int /\ \A q \in Questions : view[t].hints[q] \in Int
      BY <2>0 DEF Views
    <3> QED BY <2>1, <3>1
  <2>2. ASSUME NEW w \in Seen, view'[t] = Accepted(view[t], w)
        PROVE  view[t].rev <= view'[t].rev /\ Below(view[t], view'[t])
    <3>0. w \in Views
      BY DEF Seen
    <3>1. view[t].rev \in Int /\ w.rev \in Int
      BY <2>0, <3>0 DEF Views
    <3>2. view'[t].rev >= view[t].rev /\ view'[t] \in Seen
      BY <1>1, <2>0, <2>2, <3>1 DEF Accepted
    <3>3. Below(view[t], view'[t])
      BY <1>1, <2>0, <3>2 DEF SeenInOrder
    <3> QED BY <3>1, <3>2, <3>3, <2>0 DEF Views
  <2>3. \/ view'[t] = view[t]
        \/ \E w \in Seen : view'[t] = Accepted(view[t], w)
    <3>1. CASE view' = view
      BY <3>1
    <3>2. ASSUME NEW u \in Tabs, ReceiveOk(u)
          PROVE  view'[t] = view[t] \/ \E w \in Seen : view'[t] = Accepted(view[t], w)
      <4>1. reply[u] # None /\ reply[u].view \in Views
        BY <1>1, <3>2 DEF ReceiveOk, TypeOK
      <4>2. reply[u].view \in Seen
        BY <4>1 DEF Seen
      <4> QED BY <1>1, <3>2, <4>2 DEF ReceiveOk, TypeOK
    <3>3. ASSUME NEW u \in Tabs, NEW r \in reads[u], ReadArrives(u, r)
          PROVE  view'[t] = view[t] \/ \E w \in Seen : view'[t] = Accepted(view[t], w)
      <4>1. r \in Reads
        BY <1>1 DEF TypeOK
      <4>2. r.view \in Seen
        BY <3>3, <4>1 DEF ReadArrives, Seen, Reads
      <4> QED BY <1>1, <3>3, <4>2 DEF ReadArrives, TypeOK
    <3>4. ASSUME NEW u \in Tabs, Remount(u) PROVE view'[t] = view[t]
      BY <1>1, <3>4 DEF Remount, TypeOK
    <3>5. ASSUME NEW u \in Tabs, Panel(u) PROVE view' = view \/ ReceiveOk(u) \/ Remount(u)
                                     \/ \E r \in reads[u] : ReadArrives(u, r)
      BY <3>5 DEF Panel, Answer, AskHint, Retry, Send, ReceiveRejected, Fail, AskRead, ReadFails
    <3>6. CASE Adapter
      BY <3>1, <3>6 DEF Adapter, HandleNew, HandleReplay, HandleRefused, NewRun, ServeRead, panels
    <3>7. ASSUME NEW id \in ScriptIds, NEW q \in Questions, NEW a \in Answers, Script(id, q, a)
          PROVE  view' = view
      BY <3>7 DEF Script, panels
    <3>8. CASE UNCHANGED vars
      BY <3>1, <3>8 DEF vars, panels
    <3> QED BY <1>1, <3>1, <3>2, <3>3, <3>4, <3>5, <3>6, <3>7, <3>8 DEF Next
  <2>4. CASE \E w \in Seen : view'[t] = Accepted(view[t], w)
    <3>1. view[t].rev <= view'[t].rev /\ Below(view[t], view'[t])
      BY <2>2, <2>4
    <3> QED BY <1>1, <3>1 DEF Below
  <2> QED BY <2>1, <2>3, <2>4
<1>2. TypeOK /\ TypeOK' /\ SeenInOrder /\ [Next]_vars =>
        [\A t \in Tabs :
            view[t] # None /\ view'[t] # None /\ view[t].gen = view'[t].gen =>
                /\ view[t].rev <= view'[t].rev
                /\ view[t].solved \subseteq view'[t].solved
                /\ \A q \in Questions : view[t].hints[q] <= view'[t].hints[q]]_vars
  BY <1>1
<1> QED BY <1>2, CasebookTypes, ProjectionsInOrder, PTL DEF Spec, ViewForward

-----------------------------------------------------------------------------
(* What a panel is told.                                                   *)

\* A request that a panel still waits for carries the operation whose fate it does not
\* know, unless a read of another run has told it meanwhile.
WireAnswers ==
    \A m \in wire :
        /\ m.tag <= sends
        /\ \A t \in Tabs : m.tab = t /\ call[t] = m.tag => pending[t] \in {None, m.op}

\* The receipts are the last operations of this run, one for each revision.
ReceiptsInOrder ==
    \A k \in DOMAIN receipts :
        /\ receipts[k].gen = gen
        /\ receipts[k].rev = rev - Len(receipts) + k - 1
        /\ \E i \in DOMAIN log : log[i].op = receipts[k]
ReceiptsNewest ==
    \A i \in DOMAIN log :
        log[i].op.gen = gen /\ rev - log[i].op.rev <= MaxReceipts => log[i].op \in Known

VerdictInv == WireAnswers /\ ReceiptsInOrder /\ ReceiptsNewest

\* Panels forget an operation, or stop to wait; requests are only used up.
LEMMA WireKept ==
    ASSUME TypeOK, WireAnswers, wire' \subseteq wire, UNCHANGED sends,
           \A t \in Tabs : \/ call'[t] = 0
                           \/ call'[t] = call[t] /\ pending'[t] \in {None, pending[t]}
    PROVE  WireAnswers'
<1> SUFFICES ASSUME NEW m \in wire', NEW t \in Tabs, m.tab = t, call'[t] = m.tag
             PROVE  pending'[t] \in {None, m.op}
  BY DEF WireAnswers
<1>1. m \in wire /\ m.tag # 0
  BY LimitAssumption DEF TypeOK
<1>2. pending[t] \in {None, m.op} /\ pending'[t] \in {None, pending[t]}
  BY <1>1 DEF WireAnswers
<1> QED BY <1>2

\* A request that is sent has a number that no other has.
LEMMA SendAnswers ==
    ASSUME TypeOK, WireAnswers, NEW t \in Tabs, NEW op, Send(t, op)
    PROVE  WireAnswers'
<1>1. /\ sends' = sends + 1 /\ sends \in Nat
      /\ wire' = wire \cup {[tab |-> t, tag |-> sends + 1, op |-> op]}
      /\ pending' = [pending EXCEPT ![t] = op] /\ call' = [call EXCEPT ![t] = sends + 1]
  BY LimitAssumption DEF Send, Transmit, TypeOK
<1>2. \A m \in wire : m.tag \in Int /\ m.tag <= sends
  BY LimitAssumption DEF WireAnswers, TypeOK
<1> SUFFICES ASSUME NEW m \in wire'
             PROVE  /\ m.tag <= sends'
                    /\ \A u \in Tabs : m.tab = u /\ call'[u] = m.tag => pending'[u] \in {None, m.op}
  BY DEF WireAnswers
<1>3. CASE m \in wire
  <2>1. m.tag <= sends' /\ m.tag # sends + 1
    BY <1>1, <1>2, <1>3
  <2>2. ASSUME NEW u \in Tabs, m.tab = u, call'[u] = m.tag
        PROVE  pending'[u] \in {None, m.op}
    <3>1. u # t
      BY <1>1, <2>1, <2>2 DEF TypeOK
    <3> QED BY <1>1, <1>3, <2>2, <3>1 DEF WireAnswers, TypeOK
  <2> QED BY <2>1, <2>2
<1>4. CASE m = [tab |-> t, tag |-> sends + 1, op |-> op]
  <2>1. m.tag = sends + 1 /\ m.tab = t /\ m.op = op
    BY <1>4
  <2> QED BY <1>1, <2>1 DEF TypeOK
<1> QED BY <1>1, <1>3, <1>4

LEMMA PanelAnswers ==
    ASSUME TypeOK, WireAnswers, NEW t \in Tabs, Panel(t)
    PROVE  WireAnswers'
<1>1. CASE \E q \in Questions, a \in {"right", "wrong"} : Answer(t, q, a)
  BY <1>1, SendAnswers DEF Answer
<1>2. CASE \E q \in Questions : AskHint(t, q)
  BY <1>2, SendAnswers DEF AskHint
<1>3. CASE Retry(t)
  BY <1>3, SendAnswers DEF Retry
<1>4. CASE ReceiveOk(t) \/ ReceiveRejected(t) \/ Fail(t) \/ Remount(t)
  <2>1. UNCHANGED <<wire, sends>>
    BY <1>4 DEF ReceiveOk, ReceiveRejected, Fail, Remount
  <2>2. call' = [call EXCEPT ![t] = 0] /\ \A u \in Tabs : u # t => pending'[u] = pending[u]
    BY <1>4 DEF ReceiveOk, ReceiveRejected, Fail, Remount, TypeOK
  <2>3. \A u \in Tabs : call'[u] = 0 \/ (call'[u] = call[u] /\ pending'[u] = pending[u])
    BY <2>2 DEF TypeOK
  <2> QED BY <2>1, <2>3, WireKept
<1>5. CASE AskRead(t) \/ \E r \in reads[t] : ReadFails(t, r)
  BY <1>5, WireKept DEF AskRead, ReadFails
<1>6. ASSUME NEW r \in reads[t], ReadArrives(t, r) PROVE WireAnswers'
  <2>1. UNCHANGED <<wire, sends, call>> /\ \A u \in Tabs : pending'[u] \in {None, pending[u]}
    BY <1>6 DEF ReadArrives, StillPending, TypeOK
  <2> QED BY <2>1, WireKept
<1> QED BY <1>1, <1>2, <1>3, <1>4, <1>5, <1>6 DEF Panel

LEMMA NextAnswers == TypeOK /\ WireAnswers /\ [Next]_vars => WireAnswers'
<1> SUFFICES ASSUME TypeOK, WireAnswers, [Next]_vars PROVE WireAnswers'
  OBVIOUS
<1>1. ASSUME wire' \subseteq wire, UNCHANGED <<sends, call, pending>> PROVE WireAnswers'
  BY <1>1, WireKept
<1>2. CASE Adapter
  <2>1. wire' \subseteq wire /\ UNCHANGED <<sends, call, pending>>
    BY <1>2 DEF Adapter, HandleNew, HandleReplay, HandleRefused, NewRun, ServeRead, panels
  <2> QED BY <1>1, <2>1
<1>3. ASSUME NEW t \in Tabs, Panel(t) PROVE WireAnswers'
  BY <1>3, PanelAnswers
<1>4. ASSUME NEW id \in ScriptIds, NEW q \in Questions, NEW a \in Answers, Script(id, q, a)
      PROVE  WireAnswers'
  <2> DEFINE new == [tab |-> None, tag |-> sends + 1,
                     op |-> [kind |-> "answer", id |-> id, rev |-> rev, gen |-> gen,
                             q |-> q, answer |-> a, rung |-> 0]]
  <2>1. UNCHANGED <<call, pending>> /\ wire' = wire \cup {new} /\ sends' = sends + 1 /\ sends \in Nat
    BY <1>4, LimitAssumption DEF Script, Transmit, panels, TypeOK
  <2>2. new.tab = None /\ new.tag = sends + 1
    OBVIOUS
  <2>3. \A m \in wire : m.tag \in Int /\ m.tag <= sends
    BY LimitAssumption DEF WireAnswers, TypeOK
  <2>4. \A m \in wire' : m.tag <= sends'
    BY <2>1, <2>2, <2>3
  <2>5. ASSUME NEW m \in wire', NEW t \in Tabs, m.tab = t, call'[t] = m.tag
        PROVE  pending'[t] \in {None, m.op}
    <3>1. m \in wire
      BY <2>1, <2>2, <2>5, NoneAssumption
    <3> QED BY <2>1, <2>5, <3>1 DEF WireAnswers
  <2> QED BY <2>4, <2>5 DEF WireAnswers
<1>5. CASE UNCHANGED vars
  BY <1>1, <1>5 DEF vars, panels
<1> QED BY <1>2, <1>3, <1>4, <1>5 DEF Next

\* The receipts that are kept are the last ones.
LEMMA KeptLast ==
    ASSUME NEW s \in Seq(Operations), Len(s) <= MaxReceipts + 1
    PROVE  \E d \in {0, 1} :
              /\ d = 1 <=> Len(s) = MaxReceipts + 1
              /\ Len(Kept(s)) = Len(s) - d
              /\ DOMAIN Kept(s) = 1..(Len(s) - d)
              /\ \A k \in 1..(Len(s) - d) : Kept(s)[k] = s[k + d]
<1>1. Len(s) \in Nat /\ MaxReceipts \in Nat \ {0}
  BY LimitAssumption
<1>2. CASE Len(s) > MaxReceipts
  <2>1. Len(s) = MaxReceipts + 1
    BY <1>1, <1>2
  <2>2. Kept(s) = SubSeq(s, 2, Len(s))
    BY <1>1, <2>1 DEF Kept
  <2>3. /\ Len(Kept(s)) = Len(s) - 1 /\ DOMAIN Kept(s) = 1..(Len(s) - 1)
        /\ \A k \in 1..(Len(s) - 1) : Kept(s)[k] = s[k + 1]
    BY <1>1, <2>1, <2>2
  <2> QED BY <2>1, <2>3
<1>3. CASE ~(Len(s) > MaxReceipts)
  <2>1. Kept(s) = s /\ DOMAIN s = 1..Len(s) /\ Len(s) # MaxReceipts + 1
    BY <1>1, <1>3 DEF Kept
  <2>2. Len(s) - 0 = Len(s) /\ \A k \in 1..Len(s) : k + 0 = k
    BY <1>1
  <2> WITNESS 0 \in {0, 1}
  <2>3. \A k \in 1..(Len(s) - 0) : Kept(s)[k] = s[k + 0]
    BY <2>1, <2>2
  <2> QED BY <2>1, <2>2, <2>3
<1> QED BY <1>2, <1>3

LEMMA HandleNewReceipts ==
    ASSUME IInv, ReceiptsInOrder, ReceiptsNewest, NEW m \in wire, HandleNew(m)
    PROVE  ReceiptsInOrder' /\ ReceiptsNewest'
<1> DEFINE op == m.op
           n == Len(log) + 1
           s == Append(receipts, op)
           last == Len(receipts) + 1
<1>0. TypeOK
  BY DEF IInv
<1>1. Apply(op) /\ op.gen = gen /\ op.rev = rev /\ op \in Operations
  BY <1>0 DEF HandleNew, Valid, Fresh, Reused, Replay, TypeOK
<1>2. /\ gen' = gen /\ rev' = rev + 1 /\ rev \in Nat /\ MaxReceipts \in Nat \ {0}
      /\ receipts' = Kept(s) /\ Len(receipts) \in Nat /\ Len(receipts) <= MaxReceipts
  BY <1>0, <1>1, LimitAssumption DEF Apply, TypeOK
<1>3. /\ s \in Seq(Operations) /\ Len(s) = last
      /\ s[last] = op /\ \A k \in DOMAIN receipts : s[k] = receipts[k]
      /\ DOMAIN receipts = 1..(last - 1)
  BY <1>0, <1>1 DEF TypeOK
<1>4. /\ DOMAIN log' = 1..n /\ DOMAIN log = 1..(n - 1) /\ n \in Nat
      /\ log'[n].op = op
      /\ \A i \in DOMAIN log : log'[i] = log[i]
  BY <1>0, <1>1 DEF Apply, TypeOK
<1>5. PICK d \in {0, 1} :
          /\ d = 1 <=> last = MaxReceipts + 1
          /\ Len(receipts') = last - d
          /\ DOMAIN receipts' = 1..(last - d)
          /\ \A k \in 1..(last - d) : receipts'[k] = s[k + d]
  <2> HIDE DEF s
  <2>1. Len(s) <= MaxReceipts + 1
    BY <1>2, <1>3
  <2>2. \E d \in {0, 1} :
           /\ d = 1 <=> Len(s) = MaxReceipts + 1
           /\ Len(Kept(s)) = Len(s) - d
           /\ DOMAIN Kept(s) = 1..(Len(s) - d)
           /\ \A k \in 1..(Len(s) - d) : Kept(s)[k] = s[k + d]
    BY <1>3, <2>1, KeptLast
  <2>3. Len(s) = last /\ receipts' = Kept(s)
    BY <1>2, <1>3
  <2> HIDE DEF last
  <2> QED BY <2>2, <2>3
<1> HIDE DEF s, op
<1>6. ASSUME NEW j \in 1..last
      PROVE  /\ s[j].gen = gen /\ s[j].rev = rev - Len(receipts) + j - 1
             /\ \E i \in DOMAIN log' : log'[i].op = s[j]
  <2>1. CASE j = last
    BY <1>1, <1>2, <1>3, <1>4, <2>1
  <2>2. CASE j # last
    <3>1. j \in DOMAIN receipts
      BY <1>2, <1>3, <2>2
    <3>2. /\ receipts[j].gen = gen /\ receipts[j].rev = rev - Len(receipts) + j - 1
          /\ \E i \in DOMAIN log : log[i].op = receipts[j]
      BY <3>1 DEF ReceiptsInOrder
    <3> QED BY <1>3, <1>4, <3>1, <3>2
  <2> QED BY <2>1, <2>2
<1>7. ReceiptsInOrder'
  <2> SUFFICES ASSUME NEW k \in 1..(last - d)
               PROVE  /\ receipts'[k].gen = gen'
                      /\ receipts'[k].rev = rev' - Len(receipts') + k - 1
                      /\ \E i \in DOMAIN log' : log'[i].op = receipts'[k]
    BY <1>5 DEF ReceiptsInOrder
  <2>1. k + d \in 1..last /\ receipts'[k] = s[k + d]
    BY <1>2, <1>5
  <2>2. rev - Len(receipts) + (k + d) - 1 = rev' - Len(receipts') + k - 1
    BY <1>2, <1>5
  <2> QED BY <1>2, <1>6, <2>1, <2>2
<1>8. ReceiptsNewest'
  <2> SUFFICES ASSUME NEW i \in DOMAIN log', log'[i].op.gen = gen',
                      rev' - log'[i].op.rev <= MaxReceipts
               PROVE  \E k \in 1..(last - d) : s[k + d] = log'[i].op
    BY <1>5 DEF ReceiptsNewest, Known
  <2>1. CASE i = n
    <3>1. last - d \in 1..(last - d) /\ s[(last - d) + d] = op
      BY <1>2, <1>3, <1>5
    <3> QED BY <1>4, <2>1, <3>1
  <2>2. CASE i # n
    <3>1. i \in DOMAIN log /\ log'[i] = log[i]
      BY <1>4, <2>2
    <3>2. log[i].op.rev \in Nat
      BY <1>0, <3>1, LoggedNumbers
    <3>3. log[i].op \in Known
      BY <1>2, <3>1, <3>2 DEF ReceiptsNewest
    <3>4. PICK j \in DOMAIN receipts : receipts[j] = log[i].op
      BY <3>3 DEF Known
    <3>5. log[i].op.rev = rev - Len(receipts) + j - 1
      BY <3>4 DEF ReceiptsInOrder
    <3>6. j - d \in 1..(last - d)
      BY <1>2, <1>3, <1>5, <3>1, <3>5
    <3>7. s[(j - d) + d] = log'[i].op
      BY <1>2, <1>3, <1>5, <3>1, <3>4
    <3> QED BY <3>6, <3>7
  <2> QED BY <2>1, <2>2
<1> QED BY <1>7, <1>8

LEMMA NextReceipts ==
    IInv /\ ReceiptsInOrder /\ ReceiptsNewest /\ [Next]_vars => ReceiptsInOrder' /\ ReceiptsNewest'
<1> SUFFICES ASSUME IInv, ReceiptsInOrder, ReceiptsNewest, [Next]_vars
             PROVE  ReceiptsInOrder' /\ ReceiptsNewest'
  OBVIOUS
<1>1. ASSUME NEW m \in wire, HandleNew(m) PROVE ReceiptsInOrder' /\ ReceiptsNewest'
  BY <1>1, HandleNewReceipts
<1>2. CASE NewRun
  <2>1. gen' = gen + 1 /\ gen \in Nat /\ log' = log /\ DOMAIN receipts' = {}
    BY <1>2, LimitAssumption DEF NewRun, IInv, TypeOK
  <2>2. \A i \in DOMAIN log : log[i].op.gen # gen'
    BY <2>1, LoggedNumbers DEF IInv, LogPast
  <2> QED BY <2>1, <2>2 DEF ReceiptsInOrder, ReceiptsNewest
<1>3. ASSUME UNCHANGED server PROVE ReceiptsInOrder' /\ ReceiptsNewest'
  BY <1>3 DEF server, ReceiptsInOrder, ReceiptsNewest, Known
<1>4. CASE ~(\E m \in wire : HandleNew(m)) /\ ~NewRun
  <2>1. UNCHANGED server
    BY <1>4 DEF Next, Adapter, Panel, HandleReplay, HandleRefused, ServeRead, Answer, AskHint, Retry,
                Send, ReceiveOk, ReceiveRejected, Fail, AskRead, Remount, ReadArrives, ReadFails,
                Script, vars
  <2> QED BY <1>3, <2>1
<1> QED BY <1>1, <1>2, <1>4

\* Each request in doubt is the one its panel waits for, and the receipts are exactly the
\* newest operations of the run.
THEOREM ReceiptsExact == Spec => []VerdictInv
<1>1. Init => VerdictInv
  BY DEF Init, VerdictInv, WireAnswers, ReceiptsInOrder, ReceiptsNewest
<1>2. IInv /\ VerdictInv /\ [Next]_vars => VerdictInv'
  BY NextAnswers, NextReceipts DEF IInv, VerdictInv
<1> QED BY <1>1, <1>2, CasebookInvariant, PTL DEF Spec

\* A panel told "accepted" sees an operation that was carried out; one told "not accepted"
\* sees an operation of another run, one that was never carried out, or one that more
\* operations followed than there are receipts.
THEOREM VerdictsAreHonest == Spec => VerdictHonest
<1>1. ASSUME IInv, VerdictInv, [Next]_vars, NEW t \in Tabs,
             reply'[t] # None, reply[t] = None, pending[t] # None
      PROVE  IF reply'[t].ok
             THEN \E i \in DOMAIN log' : log'[i].op = pending[t]
             ELSE \/ pending[t].gen # gen
                  \/ \A i \in DOMAIN log : log[i].op # pending[t]
                  \/ rev - pending[t].rev > MaxReceipts
  <2>0. TypeOK
    BY <1>1 DEF IInv
  <2>1. ASSUME NEW m \in wire, NEW ok \in BOOLEAN, Answered(m, ok)
        PROVE  m.op = pending[t] /\ reply'[t].ok = ok
    <3>1. m.tab = t /\ call[t] = m.tag /\ reply'[t] = [ok |-> ok, view |-> Projection']
      BY <1>1, <2>0, <2>1 DEF Answered, TypeOK
    <3>2. pending[t] \in {None, m.op}
      BY <1>1, <3>1 DEF VerdictInv, WireAnswers
    <3> QED BY <1>1, <3>1, <3>2
  <2>2. ASSUME NEW m \in wire, HandleNew(m)
        PROVE  reply'[t].ok /\ \E i \in DOMAIN log' : log'[i].op = pending[t]
    <3>1. m.op = pending[t] /\ reply'[t].ok
      BY <2>1, <2>2 DEF HandleNew
    <3>2. log' = Append(log, [op |-> m.op, won |-> Correct(m.op)]) /\ log \in Seq(Entries)
      BY <2>0, <2>2 DEF HandleNew, Apply, TypeOK
    <3>3. Len(log) + 1 \in DOMAIN log' /\ log'[Len(log) + 1].op = m.op
      BY <3>2
    <3> QED BY <3>1, <3>3
  <2>3. ASSUME NEW m \in wire, HandleReplay(m)
        PROVE  reply'[t].ok /\ \E i \in DOMAIN log' : log'[i].op = pending[t]
    <3>1. m.op = pending[t] /\ reply'[t].ok /\ m.op \in Known /\ log' = log
      BY <2>1, <2>3 DEF HandleReplay, Replay, server
    <3> QED BY <1>1, <3>1 DEF Known, VerdictInv, ReceiptsInOrder
  <2>4. ASSUME NEW m \in wire, HandleRefused(m)
        PROVE  /\ reply'[t].ok = FALSE
               /\ \/ pending[t].gen # gen
                  \/ \A i \in DOMAIN log : log[i].op # pending[t]
                  \/ rev - pending[t].rev > MaxReceipts
    <3>1. m.op = pending[t] /\ reply'[t].ok = FALSE
      BY <2>1, <2>4 DEF HandleRefused
    <3>2. SUFFICES ASSUME pending[t].gen = gen, NEW i \in DOMAIN log, log[i].op = pending[t]
                   PROVE  rev - pending[t].rev > MaxReceipts
      BY <3>1
    <3>3. pending[t] \notin Known
      BY <2>4, <3>1, <3>2 DEF HandleRefused, Valid, Replay
    <3>4. ~(rev - pending[t].rev <= MaxReceipts)
      BY <1>1, <3>2, <3>3 DEF VerdictInv, ReceiptsNewest
    <3>5. pending[t].rev \in Nat /\ rev \in Nat /\ MaxReceipts \in Nat
      BY <2>0, <3>2, LoggedNumbers, LimitAssumption DEF TypeOK
    <3> QED BY <3>4, <3>5
  <2>5. \E m \in wire : HandleNew(m) \/ HandleReplay(m) \/ HandleRefused(m)
    <3>1. SUFFICES ASSUME ~(\E m \in wire : HandleNew(m) \/ HandleReplay(m) \/ HandleRefused(m))
                   PROVE  reply'[t] = reply[t] \/ reply'[t] = None
      BY <1>1
    <3>2. ASSUME NEW u \in Tabs, Panel(u) PROVE reply'[t] = reply[t] \/ reply'[t] = None
      BY <2>0, <3>2 DEF TypeOK, Panel, Answer, AskHint, Retry, Send, ReceiveOk, ReceiveRejected,
                        Fail, AskRead, Remount, ReadArrives, ReadFails
    <3> QED BY <1>1, <3>1, <3>2 DEF Next, Adapter, NewRun, ServeRead, Script, vars, panels
  <2> QED BY <2>2, <2>3, <2>4, <2>5
<1>2. IInv /\ VerdictInv /\ [Next]_vars =>
        [\A t \in Tabs :
            reply'[t] # None /\ reply[t] = None /\ pending[t] # None =>
                IF reply'[t].ok
                THEN \E i \in DOMAIN log' : log'[i].op = pending[t]
                ELSE \/ pending[t].gen # gen
                     \/ \A i \in DOMAIN log : log[i].op # pending[t]
                     \/ rev - pending[t].rev > MaxReceipts]_vars
  BY <1>1
<1> QED BY <1>2, CasebookInvariant, ReceiptsExact, PTL DEF Spec, VerdictHonest

-----------------------------------------------------------------------------
(* The reset of a practice seat.                                           *)

\* The confirmations that exist somewhere.
Made ==
    {resetOp[t] : t \in {u \in PageTabs : resetOp[u] # None}}
        \cup {m[2] : m \in resetWire}
        \cup {performed[i] : i \in DOMAIN performed}

\* An id is used for one confirmation.
IdsOnce == \A a \in Made : a.id < nextReset /\ \A b \in Made : a.id = b.id => a = b

\* The k-th confirmation carried out ended run k.
RunsInOrder ==
    /\ seat = Len(performed) + 1
    /\ \A i \in DOMAIN performed : performed[i].gen = i

\* The receipts are those of the confirmations carried out last.
Newest ==
    /\ Len(resetReceipts) <= Len(performed)
    /\ \A i \in DOMAIN resetReceipts :
           resetReceipts[i] = performed[Len(performed) - Len(resetReceipts) + i]
    /\ Len(resetReceipts) < PageReceipts => Len(resetReceipts) = Len(performed)

\* Only a page that waits has an answer on its way, and a grant is one of a
\* confirmation that was carried out.
Told ==
    \A t \in PageTabs :
        /\ answer[t] # None => waiting[t]
        /\ waiting[t] => resetOp[t] # None
        /\ answer[t] \in 1..PageRuns =>
               /\ answer[t] > resetOp[t].gen
               /\ \E i \in DOMAIN performed : performed[i] = resetOp[t]

ResetInv == Pages!TypeOK /\ IdsOnce /\ RunsInOrder /\ Newest /\ Told
-----------------------------------------------------------------------------
(* Types.                                                                  *)

LEMMA Bounds ==
    /\ PageReceipts \in Nat \ {0} /\ PageRuns \in Nat \ {0} /\ PageIds \in Nat /\ PageLost \in Nat
    /\ None \notin Pages!Resets /\ None \notin 0..PageRuns
BY PageBounds DEF Pages!LimitAssumption, Pages!NoneAssumption

\* A receipt more, without the oldest where there is one too many.
LEMMA RememberedFacts ==
    ASSUME NEW op \in Pages!Resets, Pages!TypeOK
    PROVE  LET old == resetReceipts
               new == Pages!Remembered(Append(resetReceipts, op))
           IN  /\ new \in Seq(Pages!Resets) /\ Len(new) <= PageReceipts
               /\ \/ /\ Len(old) < PageReceipts /\ Len(new) = Len(old) + 1
                     /\ \A i \in 1..Len(old) : new[i] = old[i]
                  \/ /\ Len(old) = PageReceipts /\ Len(new) = Len(old)
                     /\ \A i \in 1..Len(old) - 1 : new[i] = old[i + 1]
               /\ new[Len(new)] = op
<1> DEFINE old == resetReceipts
           all == Append(old, op)
           new == Pages!Remembered(all)
<1>1. old \in Seq(Pages!Resets) /\ Len(old) \in Nat /\ Len(old) <= PageReceipts
  BY DEF Pages!TypeOK
<1>2. /\ all \in Seq(Pages!Resets) /\ Len(all) = Len(old) + 1
      /\ \A i \in 1..Len(old) : all[i] = old[i]
      /\ all[Len(all)] = op
  BY <1>1
<1>3. CASE Len(all) > PageReceipts
  <2>1. Len(old) = PageReceipts /\ new = Tail(all)
    BY <1>1, <1>2, <1>3, Bounds DEF Pages!Remembered
  <2>2. /\ new \in Seq(Pages!Resets) /\ Len(new) = Len(old)
        /\ \A i \in 1..Len(old) : new[i] = all[i + 1]
    <3> HIDE DEF all
    <3> QED BY <1>1, <1>2, <2>1, Bounds
  <2>3. new[Len(new)] = op
    BY <1>1, <1>2, <2>1, <2>2, Bounds
  <2>4. \A i \in 1..Len(old) - 1 : new[i] = old[i + 1]
    BY <1>1, <1>2, <2>2
  <2> QED BY <1>1, <2>1, <2>2, <2>3, <2>4
<1>4. CASE ~(Len(all) > PageReceipts)
  <2>1. new = all
    BY <1>4 DEF Pages!Remembered
  <2> QED BY <1>1, <1>2, <1>4, <2>1, Bounds
<1> QED BY <1>3, <1>4

\* The operators of a step, expanded.
LEMMA AskTypes ==
    ASSUME Pages!TypeOK, NEW t \in PageTabs, NEW op \in Pages!Resets, Pages!Ask(t, op),
           nextReset' \in 1..(PageIds + 1)
    PROVE  Pages!TypeOK'
BY DEF Pages!TypeOK, Pages!Ask, Pages!Resets

LEMMA PageTypes ==
    ASSUME Pages!TypeOK, NEW t \in PageTabs,
           Pages!Open(t) \/ Pages!Confirm(t) \/ Pages!ConfirmAgain(t)
               \/ Pages!Granted(t) \/ Pages!Refused(t) \/ Pages!Break(t)
    PROVE  Pages!TypeOK'
<1>1. CASE Pages!Open(t)
  BY <1>1 DEF Pages!TypeOK, Pages!Open, Pages!Resets
<1>2. CASE Pages!Confirm(t)
  <2> DEFINE op == [id |-> nextReset, gen |-> session[t]]
  <2>1. session[t] \in 1..PageRuns /\ nextReset \in 1..PageIds
    BY <1>2, Bounds DEF Pages!TypeOK, Pages!Confirm, Pages!Idle
  <2>2. op \in Pages!Resets
    BY <2>1 DEF Pages!Resets
  <2>3. Pages!Ask(t, op) /\ nextReset' \in 1..(PageIds + 1)
    BY <1>2, <2>1, Bounds DEF Pages!Confirm
  <2> HIDE DEF op
  <2> QED BY <2>2, <2>3, AskTypes
<1>3. CASE Pages!ConfirmAgain(t)
  BY <1>3, AskTypes DEF Pages!TypeOK, Pages!ConfirmAgain
<1>4. CASE Pages!Granted(t)
  BY <1>4 DEF Pages!TypeOK, Pages!Granted, Pages!Resets
<1>5. CASE Pages!Refused(t)
  BY <1>5 DEF Pages!TypeOK, Pages!Refused, Pages!Resets
<1>6. CASE Pages!Break(t)
  BY <1>6, Bounds DEF Pages!TypeOK, Pages!Break, Pages!Resets
<1> QED BY <1>1, <1>2, <1>3, <1>4, <1>5, <1>6

LEMMA ResetTypes ==
    ASSUME Pages!TypeOK, NEW m \in resetWire, Pages!Reset(m[1], m[2])
    PROVE  Pages!TypeOK'
<1> DEFINE t == m[1]
           op == m[2]
           known == op \in Pages!Held
           starts == ~known /\ ~(~known /\ \E r \in Pages!Held : r.id = op.id) /\ Pages!Due(op)
<1>1. t \in PageTabs /\ op \in Pages!Resets
  BY DEF Pages!TypeOK
<1>2. /\ starts => seat < PageRuns
      /\ resetWire' = resetWire \ {<<t, op>>}
      /\ seat' = IF starts THEN seat + 1 ELSE seat
      /\ resetReceipts' = IF starts THEN Pages!Remembered(Append(resetReceipts, op)) ELSE resetReceipts
      /\ performed' = IF starts THEN Append(performed, op) ELSE performed
      /\ answer' = IF waiting[t] /\ resetOp[t] = op
                   THEN [answer EXCEPT ![t] = IF known \/ starts THEN seat' ELSE 0] ELSE answer
      /\ UNCHANGED <<session, resetOp, waiting, nextReset, lost>>
  BY DEF Pages!Reset, Pages!Done
<1> HIDE DEF t, op, known, starts
<1>3. seat' \in 1..PageRuns
  BY <1>2, Bounds DEF Pages!TypeOK
<1>4. resetReceipts' \in Seq(Pages!Resets) /\ Len(resetReceipts') <= PageReceipts
  <2>1. /\ Pages!Remembered(Append(resetReceipts, op)) \in Seq(Pages!Resets)
        /\ Len(Pages!Remembered(Append(resetReceipts, op))) <= PageReceipts
    BY <1>1, RememberedFacts
  <2>2. resetReceipts \in Seq(Pages!Resets) /\ Len(resetReceipts) <= PageReceipts
    BY DEF Pages!TypeOK
  <2>3. CASE starts
    BY <1>2, <2>1, <2>3
  <2>4. CASE ~starts
    BY <1>2, <2>2, <2>4
  <2> QED BY <2>3, <2>4
<1>5. performed' \in Seq(Pages!Resets)
  BY <1>1, <1>2 DEF Pages!TypeOK
<1>6. answer' \in [PageTabs -> (0..PageRuns) \cup {None}]
  <2>1. answer \in [PageTabs -> (0..PageRuns) \cup {None}]
    BY DEF Pages!TypeOK
  <2>2. (IF known \/ starts THEN seat' ELSE 0) \in 0..PageRuns
    BY <1>3, Bounds
  <2>3. CASE waiting[t] /\ resetOp[t] = op
    <3> DEFINE said == IF known \/ starts THEN seat' ELSE 0
    <3>1. answer' = [answer EXCEPT ![t] = said]
      BY <1>2, <2>3
    <3> HIDE DEF said
    <3> QED BY <2>1, <2>2, <3>1 DEF said
  <2>4. CASE ~(waiting[t] /\ resetOp[t] = op)
    BY <1>2, <2>1, <2>4
  <2> QED BY <2>3, <2>4
<1> QED BY <1>2, <1>3, <1>4, <1>5, <1>6 DEF Pages!TypeOK
LEMMA PagesNextTypes == Pages!TypeOK /\ [Pages!Next]_pageVars => Pages!TypeOK'
<1> SUFFICES ASSUME Pages!TypeOK, [Pages!Next]_pageVars
             PROVE  Pages!TypeOK'
  OBVIOUS
<1>1. CASE \E t \in PageTabs :
              Pages!Open(t) \/ Pages!Confirm(t) \/ Pages!ConfirmAgain(t)
                  \/ Pages!Granted(t) \/ Pages!Refused(t) \/ Pages!Break(t)
  BY <1>1, PageTypes
<1>2. CASE \E m \in resetWire : Pages!Reset(m[1], m[2])
  BY <1>2, ResetTypes
<1>3. CASE UNCHANGED pageVars
  BY <1>3 DEF pageVars, Pages!TypeOK
<1> QED BY <1>1, <1>2, <1>3 DEF Pages!Next

-----------------------------------------------------------------------------
(* The steps of a page.                                                    *)

\* What a page does neither starts a run nor touches a receipt.
LEMMA PageKeepsRuns ==
    ASSUME NEW t \in PageTabs,
           Pages!Open(t) \/ Pages!Confirm(t) \/ Pages!ConfirmAgain(t)
               \/ Pages!Granted(t) \/ Pages!Refused(t) \/ Pages!Break(t)
    PROVE  UNCHANGED <<seat, resetReceipts, performed>>
BY DEF Pages!Open, Pages!Confirm, Pages!ConfirmAgain, Pages!Ask, Pages!Granted, Pages!Refused,
       Pages!Break

\* A page that does not confirm adds no confirmation.
LEMMA FewerIds ==
    ASSUME IdsOnce, Made' \subseteq Made, nextReset' = nextReset
    PROVE  IdsOnce'
BY DEF IdsOnce

LEMMA QuietMade ==
    ASSUME Pages!TypeOK, NEW t \in PageTabs,
           Pages!Open(t) \/ Pages!Granted(t) \/ Pages!Refused(t) \/ Pages!Break(t)
    PROVE  Made' \subseteq Made /\ nextReset' = nextReset
<1>1. /\ \A u \in PageTabs : resetOp'[u] = resetOp[u] \/ resetOp'[u] = None
      /\ UNCHANGED <<resetWire, performed, nextReset>>
  BY DEF Pages!TypeOK, Pages!Open, Pages!Granted, Pages!Refused, Pages!Break
<1> QED BY <1>1 DEF Made

LEMMA AskMade ==
    ASSUME Pages!TypeOK, NEW t \in PageTabs, NEW op, Pages!Ask(t, op)
    PROVE  Made' \subseteq Made \cup {op}
<1>1. /\ \A u \in PageTabs : resetOp'[u] = resetOp[u] \/ resetOp'[u] = op
      /\ resetWire' = resetWire \cup {<<t, op>>}
      /\ performed' = performed
  BY DEF Pages!TypeOK, Pages!Ask
<1>2. <<t, op>>[2] = op
  OBVIOUS
<1> QED BY <1>1, <1>2 DEF Made

LEMMA MadeType == ASSUME Pages!TypeOK PROVE Made \subseteq Pages!Resets
<1>1. \A t \in PageTabs : resetOp[t] # None => resetOp[t] \in Pages!Resets
  BY DEF Pages!TypeOK
<1>2. \A m \in resetWire : m[2] \in Pages!Resets
  BY DEF Pages!TypeOK
<1>3. \A i \in DOMAIN performed : performed[i] \in Pages!Resets
  BY DEF Pages!TypeOK
<1> QED BY <1>1, <1>2, <1>3 DEF Made

LEMMA PageMade ==
    ASSUME Pages!TypeOK, IdsOnce, NEW t \in PageTabs,
           Pages!Open(t) \/ Pages!Confirm(t) \/ Pages!ConfirmAgain(t)
               \/ Pages!Granted(t) \/ Pages!Refused(t) \/ Pages!Break(t)
    PROVE  IdsOnce'
<1>1. CASE Pages!Open(t) \/ Pages!Granted(t) \/ Pages!Refused(t) \/ Pages!Break(t)
  BY <1>1, QuietMade, FewerIds
<1>2. CASE Pages!ConfirmAgain(t)
  <2>1. /\ resetOp[t] \in Made /\ nextReset' = nextReset
        /\ Pages!Ask(t, resetOp[t])
    BY <1>2 DEF Pages!ConfirmAgain, Made
  <2> QED BY <2>1, AskMade, FewerIds
<1>3. CASE Pages!Confirm(t)
  <2> DEFINE op == [id |-> nextReset, gen |-> session[t]]
  <2>1. Pages!Ask(t, op) /\ nextReset' = nextReset + 1 /\ nextReset \in Nat
    BY <1>3, Bounds DEF Pages!Confirm, Pages!TypeOK
  <2>2. op.id = nextReset
    OBVIOUS
  <2> HIDE DEF op
  <2>3. Made' \subseteq Made \cup {op}
    BY <2>1, AskMade
  <2>4. \A a \in Made : a.id \in Nat /\ a.id < nextReset
    BY MadeType, Bounds DEF IdsOnce, Pages!Resets
  <2>5. \A a \in Made' : a.id < nextReset'
    BY <2>1, <2>2, <2>3, <2>4
  <2>6. \A a, b \in Made' : a.id = b.id => a = b
    BY <2>1, <2>2, <2>3, <2>4 DEF IdsOnce
  <2> QED BY <2>5, <2>6 DEF IdsOnce
<1> QED BY <1>1, <1>2, <1>3

LEMMA PageTold ==
    ASSUME Pages!TypeOK, Told, NEW t \in PageTabs,
           Pages!Open(t) \/ Pages!Confirm(t) \/ Pages!ConfirmAgain(t)
               \/ Pages!Granted(t) \/ Pages!Refused(t) \/ Pages!Break(t)
    PROVE  Told'
<1>1. performed' = performed
  BY PageKeepsRuns
<1>2. \A u \in PageTabs \ {t} :
          resetOp'[u] = resetOp[u] /\ waiting'[u] = waiting[u] /\ answer'[u] = answer[u]
  BY DEF Pages!TypeOK, Pages!Open, Pages!Confirm, Pages!ConfirmAgain, Pages!Ask, Pages!Granted,
         Pages!Refused, Pages!Break
<1>3. answer'[t] = None
  <2>1. CASE Pages!Open(t) \/ Pages!Granted(t) \/ Pages!Refused(t) \/ Pages!Break(t)
    BY <2>1 DEF Pages!TypeOK, Pages!Open, Pages!Granted, Pages!Refused, Pages!Break
  <2>2. CASE Pages!Confirm(t) \/ Pages!ConfirmAgain(t)
    BY <2>2 DEF Pages!TypeOK, Pages!Confirm, Pages!ConfirmAgain, Pages!Ask, Pages!Idle, Told
  <2> QED BY <2>1, <2>2
<1>4. waiting'[t] => resetOp'[t] # None
  <2>1. CASE Pages!Open(t) \/ Pages!Granted(t) \/ Pages!Refused(t) \/ Pages!Break(t)
    BY <2>1 DEF Pages!TypeOK, Pages!Open, Pages!Granted, Pages!Refused, Pages!Break
  <2>2. CASE Pages!ConfirmAgain(t)
    BY <2>2 DEF Pages!TypeOK, Pages!ConfirmAgain, Pages!Ask, Pages!Idle
  <2>3. CASE Pages!Confirm(t)
    <3> DEFINE op == [id |-> nextReset, gen |-> session[t]]
    <3>1. session[t] \in 1..PageRuns /\ nextReset \in 1..PageIds
      BY <2>3, Bounds DEF Pages!TypeOK, Pages!Confirm, Pages!Idle
    <3>2. op # None
      BY <3>1, Bounds DEF Pages!Resets
    <3>3. resetOp'[t] = op
      BY <2>3 DEF Pages!TypeOK, Pages!Confirm, Pages!Ask
    <3> QED BY <3>2, <3>3
  <2> QED BY <2>1, <2>2, <2>3
<1>5. None \notin 1..PageRuns
  BY Bounds
<1> QED BY <1>1, <1>2, <1>3, <1>4, <1>5 DEF Told

-----------------------------------------------------------------------------
(* A reset arrives.                                                        *)

\* Whatever is kept was carried out.
LEMMA HeldPerformed ==
    ASSUME Pages!TypeOK, Newest
    PROVE  \A r \in Pages!Held : \E i \in DOMAIN performed : performed[i] = r
<1>1. \A i \in DOMAIN resetReceipts : Len(performed) - Len(resetReceipts) + i \in DOMAIN performed
  BY DEF Pages!TypeOK, Newest
<1> QED BY <1>1 DEF Newest, Pages!Held

\* What Reset(t, op) does, in terms of whether it starts a run.
Starts(op) ==
    /\ op \notin Pages!Held /\ \A r \in Pages!Held : r.id # op.id
    /\ op.gen = seat

LEMMA ResetEffect ==
    ASSUME Pages!TypeOK, Newest, RunsInOrder, NEW m \in resetWire, Pages!Reset(m[1], m[2])
    PROVE  /\ m[1] \in PageTabs /\ m[2] \in Pages!Resets
           /\ resetWire' \subseteq resetWire
           /\ UNCHANGED <<session, resetOp, waiting, nextReset, lost>>
           /\ \/ /\ Starts(m[2]) /\ seat' = seat + 1
                 /\ resetReceipts' = Pages!Remembered(Append(resetReceipts, m[2]))
                 /\ performed' = Append(performed, m[2])
              \/ ~Starts(m[2]) /\ UNCHANGED <<seat, resetReceipts, performed>>
           /\ \A u \in PageTabs :
                \/ answer'[u] = answer[u]
                \/ /\ u = m[1] /\ waiting[u] /\ resetOp[u] = m[2]
                   /\ answer'[u] = IF m[2] \in Pages!Held \/ Starts(m[2]) THEN seat' ELSE 0
<1> DEFINE t == m[1]
           op == m[2]
           known == op \in Pages!Held
           starts == ~known /\ ~(~known /\ \E r \in Pages!Held : r.id = op.id) /\ Pages!Due(op)
<1>1. t \in PageTabs /\ op \in Pages!Resets
  BY DEF Pages!TypeOK
<1>2. /\ resetWire' = resetWire \ {<<t, op>>}
      /\ seat' = IF starts THEN seat + 1 ELSE seat
      /\ resetReceipts' = IF starts THEN Pages!Remembered(Append(resetReceipts, op)) ELSE resetReceipts
      /\ performed' = IF starts THEN Append(performed, op) ELSE performed
      /\ answer' = IF waiting[t] /\ resetOp[t] = op
                   THEN [answer EXCEPT ![t] = IF known \/ starts THEN seat' ELSE 0] ELSE answer
      /\ UNCHANGED <<session, resetOp, waiting, nextReset, lost>>
  BY DEF Pages!Reset, Pages!Done
<1>3. starts <=> Starts(op)
  BY DEF Starts, Pages!Due
<1>4. answer \in [PageTabs -> (0..PageRuns) \cup {None}]
  BY DEF Pages!TypeOK
<1> HIDE DEF t, op, known, starts
<1>5. \A u \in PageTabs :
          \/ answer'[u] = answer[u]
          \/ /\ u = t /\ waiting[u] /\ resetOp[u] = op
             /\ answer'[u] = IF known \/ starts THEN seat' ELSE 0
  BY <1>1, <1>2, <1>4
<1> QED BY <1>1, <1>2, <1>3, <1>5 DEF t, op, known

LEMMA ResetIds ==
    ASSUME Pages!TypeOK, IdsOnce, Newest, RunsInOrder, NEW m \in resetWire, Pages!Reset(m[1], m[2])
    PROVE  IdsOnce'
<1>1. /\ resetWire' \subseteq resetWire /\ UNCHANGED <<resetOp, nextReset>>
      /\ performed' = Append(performed, m[2]) \/ performed' = performed
  BY ResetEffect
<1>0. m[2] \in Made
  BY DEF Made
<1>2. \A i \in DOMAIN performed' : performed'[i] \in Made
  <2>1. performed \in Seq(Pages!Resets) /\ m[2] \in Pages!Resets
    BY ResetEffect DEF Pages!TypeOK
  <2>2. \A i \in DOMAIN performed : performed[i] \in Made
    BY DEF Made
  <2> QED BY <1>0, <1>1, <2>1, <2>2
<1>3. Made' \subseteq Made
  BY <1>1, <1>2 DEF Made
<1> QED BY <1>1, <1>3, FewerIds

LEMMA ResetRuns ==
    ASSUME Pages!TypeOK, RunsInOrder, Newest, NEW m \in resetWire, Pages!Reset(m[1], m[2])
    PROVE  RunsInOrder'
<1>1. CASE UNCHANGED <<seat, performed>>
  BY <1>1 DEF RunsInOrder
<1>2. CASE Starts(m[2]) /\ seat' = seat + 1 /\ performed' = Append(performed, m[2])
  <2>1. performed \in Seq(Pages!Resets) /\ m[2] \in Pages!Resets /\ m[2].gen = Len(performed) + 1
    BY <1>2, ResetEffect DEF Pages!TypeOK, Starts, RunsInOrder
  <2>2. /\ Len(performed') = Len(performed) + 1
        /\ \A i \in DOMAIN performed : performed'[i] = performed[i]
        /\ performed'[Len(performed) + 1] = m[2]
        /\ DOMAIN performed' = 1..Len(performed) + 1 /\ DOMAIN performed = 1..Len(performed)
    BY <1>2, <2>1
  <2>3. \A i \in DOMAIN performed' : performed'[i].gen = i
    BY <2>1, <2>2 DEF RunsInOrder
  <2> QED BY <1>2, <2>1, <2>2, <2>3 DEF RunsInOrder
<1> QED BY <1>1, <1>2, ResetEffect

LEMMA ResetNewest ==
    ASSUME Pages!TypeOK, RunsInOrder, Newest, NEW m \in resetWire, Pages!Reset(m[1], m[2])
    PROVE  Newest'
<1>1. CASE UNCHANGED <<resetReceipts, performed>>
  BY <1>1 DEF Newest
<1>2. CASE /\ resetReceipts' = Pages!Remembered(Append(resetReceipts, m[2]))
           /\ performed' = Append(performed, m[2])
  <2> DEFINE n == Len(performed)
             k == Len(resetReceipts)
  <2>1. /\ performed \in Seq(Pages!Resets) /\ resetReceipts \in Seq(Pages!Resets)
        /\ m[2] \in Pages!Resets /\ n \in Nat /\ k \in Nat /\ k <= n
        /\ k < PageReceipts => k = n
        /\ \A i \in 1..k : resetReceipts[i] = performed[n - k + i]
    BY ResetEffect DEF Pages!TypeOK, Newest
  <2>2. /\ Len(performed') = n + 1
        /\ \A i \in 1..n : performed'[i] = performed[i]
        /\ performed'[n + 1] = m[2]
    BY <1>2, <2>1
  <2>3. /\ resetReceipts' \in Seq(Pages!Resets)
        /\ \/ /\ k < PageReceipts /\ Len(resetReceipts') = k + 1
              /\ \A i \in 1..k : resetReceipts'[i] = resetReceipts[i]
           \/ /\ k = PageReceipts /\ Len(resetReceipts') = k
              /\ \A i \in 1..k - 1 : resetReceipts'[i] = resetReceipts[i + 1]
        /\ resetReceipts'[Len(resetReceipts')] = m[2]
    BY <1>2, <2>1, RememberedFacts
  <2> HIDE DEF n, k
  <2>4. CASE /\ k < PageReceipts /\ Len(resetReceipts') = k + 1
             /\ \A i \in 1..k : resetReceipts'[i] = resetReceipts[i]
    <3>1. \A i \in 1..k + 1 : resetReceipts'[i] = performed'[(n + 1) - (k + 1) + i]
      <4> SUFFICES ASSUME NEW i \in 1..k + 1
                   PROVE  resetReceipts'[i] = performed'[(n + 1) - (k + 1) + i]
        OBVIOUS
      <4>1. (n + 1) - (k + 1) + i = i /\ n = k
        BY <2>1, <2>4
      <4>2. n - k + i = i
        BY <2>1, <4>1
      <4> QED BY <2>1, <2>2, <2>3, <2>4, <4>1, <4>2
    <3>2. DOMAIN resetReceipts' = 1..k + 1
      BY <2>3, <2>4
    <3> QED BY <2>1, <2>2, <2>4, <3>1, <3>2 DEF Newest
  <2>5. CASE /\ k = PageReceipts /\ Len(resetReceipts') = k
             /\ \A i \in 1..k - 1 : resetReceipts'[i] = resetReceipts[i + 1]
    <3>0. k >= 1
      BY <2>5, Bounds
    <3>1. \A i \in 1..k : resetReceipts'[i] = performed'[(n + 1) - k + i]
      <4> SUFFICES ASSUME NEW i \in 1..k
                   PROVE  resetReceipts'[i] = performed'[(n + 1) - k + i]
        OBVIOUS
      <4>1. CASE i = k
        <5>1. (n + 1) - k + i = n + 1
          BY <2>1, <4>1
        <5> QED BY <2>2, <2>3, <2>5, <4>1, <5>1
      <4>2. CASE i # k
        <5>1. i \in 1..k - 1 /\ i + 1 \in 1..k
          BY <2>1, <4>2
        <5>2. resetReceipts'[i] = performed[n - k + (i + 1)]
          BY <2>1, <2>5, <5>1
        <5>3. n - k + (i + 1) = (n + 1) - k + i /\ (n + 1) - k + i \in 1..n
          BY <2>1, <5>1
        <5>4. performed'[(n + 1) - k + i] = performed[(n + 1) - k + i]
          BY <2>2, <5>3
        <5>5. performed[n - k + (i + 1)] = performed[(n + 1) - k + i]
          BY <5>3
        <5> QED BY <5>2, <5>4, <5>5
      <4> QED BY <4>1, <4>2
    <3>2. DOMAIN resetReceipts' = 1..k
      BY <2>3, <2>5
    <3>3. Len(resetReceipts') <= Len(performed') /\ ~(Len(resetReceipts') < PageReceipts)
      BY <2>1, <2>2, <2>5, Bounds
    <3>4. \A i \in DOMAIN resetReceipts' :
              resetReceipts'[i] = performed'[Len(performed') - Len(resetReceipts') + i]
      BY <2>2, <2>5, <3>1, <3>2
    <3> QED BY <3>3, <3>4 DEF Newest
  <2> QED BY <2>3, <2>4, <2>5
<1> QED BY <1>1, <1>2, ResetEffect

LEMMA ResetTold ==
    ASSUME Pages!TypeOK, RunsInOrder, Newest, Told, NEW m \in resetWire, Pages!Reset(m[1], m[2])
    PROVE  Told'
<1>1. performed \in Seq(Pages!Resets) /\ m[2] \in Pages!Resets
  BY ResetEffect DEF Pages!TypeOK
<1>2. \A i \in DOMAIN performed : i \in DOMAIN performed' /\ performed'[i] = performed[i]
  BY <1>1, ResetEffect
<1>3. seat' \in 1..PageRuns
  BY ResetTypes DEF Pages!TypeOK
<1>4. m[2] \in Pages!Held \/ Starts(m[2]) =>
          /\ \E i \in DOMAIN performed' : performed'[i] = m[2]
          /\ seat' > m[2].gen
  <2>1. CASE m[2] \in Pages!Held
    <3>1. PICK i \in DOMAIN performed : performed[i] = m[2]
      BY <2>1, HeldPerformed
    <3>2. m[2].gen = i /\ i < seat /\ i \in Nat /\ seat \in Nat
      BY <1>1, <3>1, Bounds DEF RunsInOrder
    <3>3. ~Starts(m[2])
      BY <2>1 DEF Starts
    <3>4. seat' = seat
      BY <3>3, ResetEffect
    <3> QED BY <1>2, <3>1, <3>2, <3>4
  <2>2. CASE Starts(m[2])
    <3>1. performed' = Append(performed, m[2]) /\ seat' = seat + 1 /\ m[2].gen = seat
      BY <2>2, ResetEffect DEF Starts
    <3>2. /\ Len(performed) + 1 \in DOMAIN performed'
          /\ performed'[Len(performed) + 1] = m[2]
      BY <1>1, <3>1
    <3>3. seat \in Nat
      BY Bounds DEF Pages!TypeOK
    <3> QED BY <3>1, <3>2, <3>3
  <2> QED BY <2>1, <2>2
<1> SUFFICES ASSUME NEW u \in PageTabs
             PROVE  /\ answer'[u] # None => waiting'[u]
                    /\ waiting'[u] => resetOp'[u] # None
                    /\ answer'[u] \in 1..PageRuns =>
                           /\ answer'[u] > resetOp'[u].gen
                           /\ \E i \in DOMAIN performed' : performed'[i] = resetOp'[u]
  BY DEF Told
<1>5. waiting' = waiting /\ resetOp' = resetOp
  BY ResetEffect
<1>6. CASE answer'[u] = answer[u]
  BY <1>2, <1>5, <1>6 DEF Told
<1>7. CASE /\ waiting[u] /\ resetOp[u] = m[2]
           /\ answer'[u] = IF m[2] \in Pages!Held \/ Starts(m[2]) THEN seat' ELSE 0
  <2>1. m[2] # None /\ 0 \notin 1..PageRuns
    BY <1>1, Bounds
  <2> QED BY <1>4, <1>5, <1>7, <2>1
<1> QED BY <1>6, <1>7, ResetEffect
-----------------------------------------------------------------------------
(* The invariant, and what follows from it.                                *)

LEMMA PagesInitInv == Pages!Init => ResetInv
<1> SUFFICES ASSUME Pages!Init PROVE ResetInv
  OBVIOUS
<1>1. Pages!TypeOK
  BY Bounds DEF Pages!Init, Pages!TypeOK
<1>2. Made = {}
  BY DEF Pages!Init, Made
<1>3. IdsOnce /\ RunsInOrder /\ Newest
  BY <1>2 DEF Pages!Init, IdsOnce, RunsInOrder, Newest
<1>4. Told
  BY Bounds DEF Pages!Init, Told
<1> QED BY <1>1, <1>3, <1>4 DEF ResetInv

LEMMA PagesNextInv == ResetInv /\ [Pages!Next]_pageVars => ResetInv'
<1> SUFFICES ASSUME ResetInv, [Pages!Next]_pageVars
             PROVE  ResetInv'
  OBVIOUS
<1> USE DEF ResetInv
<1>1. Pages!TypeOK'
  BY PagesNextTypes
<1>2. ASSUME NEW t \in PageTabs,
             Pages!Open(t) \/ Pages!Confirm(t) \/ Pages!ConfirmAgain(t)
                 \/ Pages!Granted(t) \/ Pages!Refused(t) \/ Pages!Break(t)
      PROVE  ResetInv'
  <2>1. RunsInOrder' /\ Newest'
    BY <1>2, PageKeepsRuns DEF RunsInOrder, Newest
  <2>2. IdsOnce'
    BY <1>2, PageMade
  <2>3. Told'
    BY <1>2, PageTold
  <2> QED BY <1>1, <2>1, <2>2, <2>3
<1>3. ASSUME NEW m \in resetWire, Pages!Reset(m[1], m[2])
      PROVE  ResetInv'
  BY <1>1, <1>3, ResetIds, ResetRuns, ResetNewest, ResetTold
<1>4. CASE UNCHANGED pageVars
  BY <1>1, <1>4 DEF pageVars, IdsOnce, Made, RunsInOrder, Newest, Told
<1> QED BY <1>2, <1>3, <1>4 DEF Pages!Next

\* A page's reset steps and the answers' steps of a behaviour leave each other alone.
LEMMA PracticeSteps == [PracticeNext]_<<part, vars, pageVars>> => [Pages!Next]_pageVars
BY DEF PracticeNext

\* Whatever pages confirm, repeat and lose, the k-th reset ended run k, an id stands for
\* one confirmation, and the receipts are the newest (dev/server.ts:74-99).
THEOREM ResetsInOrder == PracticeSpec => []ResetInv
<1>1. PracticeInit => ResetInv
  BY PagesInitInv DEF PracticeInit
<1>2. ResetInv /\ [PracticeNext]_<<part, vars, pageVars>> => ResetInv'
  BY PagesNextInv, PracticeSteps
<1> QED BY <1>1, <1>2, PTL DEF PracticeSpec

LEMMA InvSound == ResetInv => Pages!ResetSound
<1> SUFFICES ASSUME ResetInv PROVE Pages!ResetSound
  OBVIOUS
<1>1. \A i \in DOMAIN performed : performed[i] \in Made /\ performed[i].gen = i
  BY DEF ResetInv, Made, RunsInOrder
<1>2. Pages!ResetOnce
  BY <1>1 DEF ResetInv, IdsOnce, Pages!ResetOnce
<1>3. Pages!GrantedMeansWiped
  BY DEF ResetInv, Told, Pages!GrantedMeansWiped
<1> QED BY <1>2, <1>3 DEF Pages!ResetSound

\* One confirmation wipes one run, and a page that is told its reset is done has had the
\* run it confirmed wiped (dev/server.ts:74-99, dev/app.tsx).
THEOREM ResetsAreSound == PracticeSpec => []ResetsSound
<1>1. ResetInv => ResetsSound
  BY InvSound DEF ResetsSound, ResetInv
<1> QED BY <1>1, ResetsInOrder, PTL

\* A confirmation that was carried out is refused only after as many others were carried
\* out as there are receipts: a lost answer does not cost the player the reset.
THEOREM LostAnswersCostNothing == PracticeSpec => LostAnswerRecovered
<1>1. ASSUME ResetInv, [PracticeNext]_<<part, vars, pageVars>>
      PROVE  [\A t \in PageTabs : answer'[t] = 0 /\ answer[t] # 0 =>
                 \A i \in DOMAIN performed :
                     performed[i] = resetOp[t] => Len(performed) - i >= PageReceipts]_(Pages!vars)
  <2> SUFFICES ASSUME Pages!Next,
                      NEW t \in PageTabs, answer'[t] = 0, answer[t] # 0,
                      NEW i \in DOMAIN performed, performed[i] = resetOp[t]
               PROVE  Len(performed) - i >= PageReceipts
    BY <1>1, PracticeSteps DEF pageVars, Pages!vars
  <2> USE <1>1 DEF ResetInv
  <2>1. ASSUME NEW u \in PageTabs,
               Pages!Open(u) \/ Pages!Confirm(u) \/ Pages!ConfirmAgain(u)
                   \/ Pages!Granted(u) \/ Pages!Refused(u) \/ Pages!Break(u)
        PROVE  FALSE
    <3>1. 0 # None
      BY Bounds
    <3>2. answer'[t] = answer[t] \/ answer'[t] = None
      BY <2>1 DEF Pages!TypeOK, Pages!Open, Pages!Confirm, Pages!ConfirmAgain, Pages!Ask,
                  Pages!Granted, Pages!Refused, Pages!Break
    <3> QED BY <3>1, <3>2
  <2>2. PICK m \in resetWire : Pages!Reset(m[1], m[2])
    BY <2>1 DEF Pages!Next
  <2>3. resetOp[t] = m[2] /\ m[2] \notin Pages!Held
    <3>1. seat' # 0
      BY <2>2, ResetTypes, Bounds DEF Pages!TypeOK
    <3>2. \/ answer'[t] = answer[t]
          \/ /\ t = m[1] /\ waiting[t] /\ resetOp[t] = m[2]
             /\ answer'[t] = IF m[2] \in Pages!Held \/ Starts(m[2]) THEN seat' ELSE 0
      BY <2>2, ResetEffect
    <3> QED BY <3>1, <3>2
  <2> DEFINE n == Len(performed)
             k == Len(resetReceipts)
  <2>4. /\ n \in Nat /\ k \in Nat /\ k <= n /\ i \in 1..n
        /\ DOMAIN resetReceipts = 1..k
        /\ k <= PageReceipts
    BY DEF Pages!TypeOK, Newest
  <2>5. ~(i > n - k)
    <3> SUFFICES ASSUME i > n - k PROVE FALSE
      OBVIOUS
    <3> DEFINE j == i - (n - k)
    <3>1. j \in 1..k /\ n - k + j = i
      BY <2>4
    <3>2. resetReceipts[j] = performed[i]
      BY <2>4, <3>1 DEF Newest
    <3>3. performed[i] \in Pages!Held
      BY <2>4, <3>1, <3>2 DEF Pages!Held
    <3> QED BY <2>3, <3>3
  <2>6. k < PageReceipts => k = n
    BY DEF Newest
  <2> HIDE DEF n, k
  <2>7. n - i >= PageReceipts
    BY <2>4, <2>5, <2>6, Bounds
  <2> QED BY <2>7 DEF n
<1> QED BY <1>1, ResetsInOrder, PTL DEF PracticeSpec, LostAnswerRecovered, Pages!LostAnswerRecovered
=============================================================================
