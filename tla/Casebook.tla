------------------------------ MODULE Casebook ------------------------------
(***************************************************************************)
(* One team of the forensic casebook: the authoritative reducer             *)
(* (game/index.ts), the practice adapter that calls it (dev/server.ts) and  *)
(* the panels of the team's members (portal/StatusPanel.tsx), which share   *)
(* the team's revision and lose, repeat and reorder requests.               *)
(*                                                                         *)
(* Teams do not share state, so one is modelled.  An operation's digest is  *)
(* the operation itself.                                                    *)
(***************************************************************************)
EXTENDS Integers, Sequences, FiniteSets, FiniteSetsExt

CONSTANTS
    Questions,      \* the checkpoints of all cases
    Points,         \* points of each checkpoint
    Prior,          \* checkpoints to solve first: the earlier ones of "endpoint"
    MaxReceipts,    \* receipts kept (64 in the code)
    MaxOperations,  \* MAX_OPERATIONS_PER_TEAM
    Tabs,           \* panels open for the team
    ScriptIds,      \* operation ids of a member who posts by hand
    MaxIds,         \* bound of the model: operations composed in panels
    MaxSends,       \* bound of the model: requests sent
    MaxReads,       \* bound of the model: projection reads a panel has open
    MaxRuns,        \* bound of the model: practice runs
    None            \* an absent value

ASSUME QuestionAssumption ==
    /\ IsFiniteSet(Questions)
    /\ Points \in [Questions -> Nat]
    /\ Prior \in [Questions -> SUBSET Questions]
ASSUME LimitAssumption ==
    /\ MaxReceipts \in Nat \ {0} /\ MaxOperations \in Nat
    /\ MaxIds \in Nat /\ MaxSends \in Nat /\ MaxReads \in Nat /\ MaxRuns \in Nat \ {0}
    /\ ScriptIds \cap (1..MaxIds) = {} /\ ScriptIds \subseteq Nat

Answers == {"right", "wrong", "foreign"}
Ids == (1..MaxIds) \cup ScriptIds
Operations ==
    [kind : {"answer", "hint"}, id : Ids, rev : Nat, gen : 1..MaxRuns,
     q : Questions, answer : Answers \cup {"none"}, rung : 0..3]
Views == [gen : 1..MaxRuns, rev : Nat, solved : SUBSET Questions,
          hints : [Questions -> 0..3]]
ASSUME NoneAssumption ==
    None \notin Operations /\ None \notin Views /\ None \notin [ok : BOOLEAN, view : Views]
        /\ None \notin Tabs

VARIABLES
    gen,        \* state.generation
    rev,        \* team.revision
    solved,     \* questions whose progress says solved
    attempts,   \* progress.attempts
    hints,      \* progress.unlockedHints
    score,      \* team.score
    receipts,   \* team.receipts, oldest first
    wire,       \* requests on their way to the adapter
    nextId,     \* operation ids are random, hence fresh
    sends,      \* requests sent
    view,       \* projection shown by a panel
    pending,    \* operation a panel cannot yet tell the fate of
    call,       \* request a panel waits for, 0 if none
    reply,      \* answer on its way to a panel
    reads,      \* projection reads of a panel
    log         \* history: operations carried out, and whether they scored

server == <<gen, rev, solved, attempts, hints, score, receipts, log>>
panels == <<view, pending, call, reply, reads>>
vars == <<server, panels, wire, nextId, sends>>

-----------------------------------------------------------------------------
Init ==
    /\ gen = 1 /\ rev = 0 /\ solved = {} /\ score = 0
    /\ attempts = [q \in Questions |-> 0]
    /\ hints = [q \in Questions |-> 0]
    /\ receipts = <<>> /\ log = <<>>
    /\ wire = {} /\ nextId = 1 /\ sends = 0
    /\ view = [t \in Tabs |-> None]
    /\ pending = [t \in Tabs |-> None]
    /\ call = [t \in Tabs |-> 0]
    /\ reply = [t \in Tabs |-> None]
    /\ reads = [t \in Tabs |-> {}]

Projection == [gen |-> gen, rev |-> rev, solved |-> solved, hints |-> hints]

Known == {receipts[i] : i \in DOMAIN receipts}
Replay(op) == op \in Known
Reused(op) == \E r \in Known : r.id = op.id

\* validateOp of an operation whose id has no receipt.
MutFresh(op) ==
    /\ rev < MaxOperations
    /\ op.q \in Questions
    /\ op.kind = "answer" => op.q \notin solved /\ op.answer # "foreign"
    /\ op.kind = "hint" => op.rung = hints[op.q] + 1
Fresh(op) ==
    /\ op.rev = rev
    /\ rev < MaxOperations
    /\ op.q \in Questions
    /\ op.kind = "answer" => op.q \notin solved /\ op.answer # "foreign"
    /\ op.kind = "hint" => op.rung = hints[op.q] + 1

\* The run is checked before the receipts, the receipts before the revision.
Valid(op) == op.gen = gen /\ (Replay(op) \/ (~Reused(op) /\ Fresh(op)))

\* The answer and its citations are right, and an ordered question is due.
MutCorrect(op) == op.kind = "answer" /\ op.answer = "right"
Correct(op) ==
    op.kind = "answer" /\ op.answer = "right" /\ Prior[op.q] \subseteq solved

\* Only the newest receipts are kept.
MutUnbounded(s) == s
MutKept(s) == IF Len(s) > MaxReceipts THEN SubSeq(s, 1, MaxReceipts) ELSE s
Kept(s) == IF Len(s) > MaxReceipts THEN SubSeq(s, Len(s) - MaxReceipts + 1, Len(s)) ELSE s

\* applyOp of a valid operation that is not a replay.
Apply(op) ==
    /\ rev' = rev + 1
    /\ receipts' = Kept(Append(receipts, op))
    /\ log' = Append(log, [op |-> op, won |-> Correct(op)])
    /\ hints' = IF op.kind = "hint" THEN [hints EXCEPT ![op.q] = op.rung] ELSE hints
    /\ attempts' = IF op.kind = "answer" THEN [attempts EXCEPT ![op.q] = @ + 1] ELSE attempts
    /\ solved' = IF op.kind = "hint" THEN solved
                 ELSE IF Correct(op) THEN solved \cup {op.q} ELSE solved \ {op.q}
    /\ score' = IF Correct(op) THEN score + Points[op.q] ELSE score
    /\ UNCHANGED gen

-----------------------------------------------------------------------------
(* The adapter.                                                            *)

\* The answer reaches a panel only while it still waits for this request.
Answered(m, ok) ==
    reply' = IF m.tab # None /\ call[m.tab] = m.tag
             THEN [reply EXCEPT ![m.tab] = [ok |-> ok, view |-> Projection']]
             ELSE reply

HandleNew(m) ==
    /\ Valid(m.op) /\ ~Replay(m.op)
    /\ Apply(m.op)
    /\ wire' = wire \ {m}
    /\ Answered(m, TRUE)
    /\ UNCHANGED <<nextId, sends, view, pending, call, reads>>

HandleReplay(m) ==
    /\ Valid(m.op) /\ Replay(m.op)
    /\ wire' = wire \ {m}
    /\ UNCHANGED server
    /\ Answered(m, TRUE)
    /\ UNCHANGED <<nextId, sends, view, pending, call, reads>>

HandleRefused(m) ==
    /\ ~Valid(m.op)
    /\ wire' = wire \ {m}
    /\ UNCHANGED server
    /\ Answered(m, FALSE)
    /\ UNCHANGED <<nextId, sends, view, pending, call, reads>>

\* A confirmed practice reset replaces the state of the seat.
MutNewRun ==
    /\ gen < MaxRuns
    /\ gen' = gen + 1
    /\ rev' = 0 /\ solved' = {} /\ receipts' = <<>>
    /\ attempts' = [q \in Questions |-> 0]
    /\ hints' = [q \in Questions |-> 0]
    /\ UNCHANGED <<score, log, panels, wire, nextId, sends>>
NewRun ==
    /\ gen < MaxRuns
    /\ gen' = gen + 1
    /\ rev' = 0 /\ solved' = {} /\ score' = 0
    /\ attempts' = [q \in Questions |-> 0]
    /\ hints' = [q \in Questions |-> 0]
    /\ receipts' = <<>>
    /\ UNCHANGED <<log, panels, wire, nextId, sends>>

ServeRead(t, r) ==
    /\ r.view = None
    /\ reads' = [reads EXCEPT ![t] = (@ \ {r}) \cup {[r EXCEPT !.view = Projection]}]
    /\ UNCHANGED <<server, wire, nextId, sends, view, pending, call, reply>>

-----------------------------------------------------------------------------
(* A panel.                                                                *)

Busy(t) == call[t] # 0 \/ \E r \in reads[t] : r.awaited
Locked(t) == Busy(t) \/ pending[t] # None

\* The projection on show never loses revisions of the same run.
MutAccepted(old, next) == next
Accepted(old, next) ==
    IF old # None /\ old.gen = next.gen /\ next.rev < old.rev THEN old ELSE next
\* Another run makes the operation in doubt meaningless.
StillPending(t, next) ==
    IF view[t] # None /\ view[t].gen # next.gen THEN None ELSE pending[t]

Transmit(t, op) ==
    /\ sends < MaxSends
    /\ sends' = sends + 1
    /\ wire' = wire \cup {[tab |-> t, tag |-> sends + 1, op |-> op]}

Send(t, op) ==
    /\ Transmit(t, op)
    /\ pending' = [pending EXCEPT ![t] = op]
    /\ call' = [call EXCEPT ![t] = sends + 1]
    /\ UNCHANGED <<server, view, reply, reads>>

Answer(t, q, a) ==
    /\ view[t] # None /\ ~Locked(t) /\ q \notin view[t].solved
    /\ nextId <= MaxIds /\ nextId' = nextId + 1
    /\ Send(t, [kind |-> "answer", id |-> nextId, rev |-> view[t].rev, gen |-> view[t].gen,
                q |-> q, answer |-> a, rung |-> 0])

AskHint(t, q) ==
    /\ view[t] # None /\ ~Locked(t) /\ view[t].hints[q] < 3
    /\ nextId <= MaxIds /\ nextId' = nextId + 1
    /\ Send(t, [kind |-> "hint", id |-> nextId, rev |-> view[t].rev, gen |-> view[t].gen,
                q |-> q, answer |-> "none", rung |-> view[t].hints[q] + 1])

\* "Retry the same request": same id, same content.
Retry(t) ==
    /\ ~Busy(t) /\ pending[t] # None
    /\ UNCHANGED nextId
    /\ Send(t, pending[t])

\* A member who posts by hand composes from the current state, and reuses ids.
Script(id, q, a) ==
    /\ Transmit(None, [kind |-> "answer", id |-> id, rev |-> rev, gen |-> gen,
                       q |-> q, answer |-> a, rung |-> 0])
    /\ UNCHANGED <<server, panels, nextId>>

ReceiveOk(t) ==
    /\ reply[t] # None /\ reply[t].ok
    /\ view' = [view EXCEPT ![t] = Accepted(@, reply[t].view)]
    /\ pending' = [pending EXCEPT ![t] = None]
    /\ call' = [call EXCEPT ![t] = 0]
    /\ reply' = [reply EXCEPT ![t] = None]
    /\ UNCHANGED <<server, wire, nextId, sends, reads>>

\* A refusal ends the matter and reloads before the panel unlocks.
ReceiveRejected(t) ==
    /\ reply[t] # None /\ ~reply[t].ok
    /\ pending' = [pending EXCEPT ![t] = None]
    /\ call' = [call EXCEPT ![t] = 0]
    /\ reply' = [reply EXCEPT ![t] = None]
    /\ reads' = [reads EXCEPT ![t] = @ \cup {[awaited |-> TRUE, view |-> None]}]
    /\ UNCHANGED <<server, wire, nextId, sends, view>>

\* The connection breaks: the request may or may not arrive yet.
Fail(t) ==
    /\ call[t] # 0
    /\ call' = [call EXCEPT ![t] = 0]
    /\ reply' = [reply EXCEPT ![t] = None]
    /\ UNCHANGED <<server, wire, nextId, sends, view, pending, reads>>

\* The first read of a panel and the timer's, while nothing is in doubt.
AskRead(t) ==
    /\ ~Locked(t) /\ Cardinality(reads[t]) < MaxReads
    /\ reads' = [reads EXCEPT ![t] = @ \cup {[awaited |-> FALSE, view |-> None]}]
    /\ UNCHANGED <<server, wire, nextId, sends, view, pending, call, reply>>

ReadArrives(t, r) ==
    /\ r.view # None
    /\ reads' = [reads EXCEPT ![t] = @ \ {r}]
    /\ view' = [view EXCEPT ![t] = Accepted(@, r.view)]
    /\ pending' = [pending EXCEPT ![t] = StillPending(t, r.view)]
    /\ UNCHANGED <<server, wire, nextId, sends, call, reply>>

ReadFails(t, r) ==
    /\ reads' = [reads EXCEPT ![t] = @ \ {r}]
    /\ UNCHANGED <<server, wire, nextId, sends, view, pending, call, reply>>

\* The page is reloaded, or remounted after a reset.
Remount(t) ==
    /\ view' = [view EXCEPT ![t] = None]
    /\ pending' = [pending EXCEPT ![t] = None]
    /\ call' = [call EXCEPT ![t] = 0]
    /\ reply' = [reply EXCEPT ![t] = None]
    /\ reads' = [reads EXCEPT ![t] = {}]
    /\ UNCHANGED <<server, wire, nextId, sends>>

-----------------------------------------------------------------------------
Adapter ==
    \/ \E m \in wire : HandleNew(m) \/ HandleReplay(m) \/ HandleRefused(m)
    \/ NewRun
    \/ \E t \in Tabs : \E r \in reads[t] : ServeRead(t, r)

Panel(t) ==
    \/ \E q \in Questions, a \in {"right", "wrong"} : Answer(t, q, a)
    \/ \E q \in Questions : AskHint(t, q)
    \/ Retry(t) \/ ReceiveOk(t) \/ ReceiveRejected(t) \/ Fail(t)
    \/ AskRead(t) \/ Remount(t)
    \/ \E r \in reads[t] : ReadArrives(t, r) \/ ReadFails(t, r)

Next ==
    \/ Adapter
    \/ \E t \in Tabs : Panel(t)
    \/ \E id \in ScriptIds, q \in Questions, a \in Answers : Script(id, q, a)

Spec == Init /\ [][Next]_vars

-----------------------------------------------------------------------------
Entries == [op : Operations, won : BOOLEAN]
Reads == [awaited : BOOLEAN, view : Views \cup {None}]

\* Every variable keeps its type; the newest receipts only are kept, and no
\* team carries out more operations than the limit.
TypeOK ==
    /\ gen \in 1..MaxRuns /\ rev \in 0..MaxOperations
    /\ solved \subseteq Questions
    /\ attempts \in [Questions -> Nat]
    /\ hints \in [Questions -> 0..3]
    /\ score \in Nat
    /\ receipts \in Seq(Operations) /\ Len(receipts) <= MaxReceipts
    /\ wire \subseteq [tab : Tabs \cup {None}, tag : 1..MaxSends, op : Operations]
    /\ nextId \in 1..(MaxIds + 1) /\ sends \in 0..MaxSends
    /\ view \in [Tabs -> Views \cup {None}]
    /\ pending \in [Tabs -> Operations \cup {None}]
    /\ call \in [Tabs -> 0..MaxSends]
    /\ reply \in [Tabs -> [ok : BOOLEAN, view : Views] \cup {None}]
    /\ reads \in [Tabs -> SUBSET Reads]
    /\ log \in Seq(Entries)

\* However often a request is sent, and whatever receipts were dropped or runs
\* started in between, no operation is carried out twice ("An evicted old
\* operation remains stale by revision").
AppliedOnce ==
    \A i, j \in DOMAIN log : i # j => log[i].op # log[j].op

\* The score is exactly the points of the questions solved in this run.
ScoreEarned == score = MapThenSumSet(LAMBDA q : Points[q], solved)

\* Every answer that scored is one solved question of its run, once.
PaidOnce ==
    \A i, j \in DOMAIN log :
        /\ log[i].won /\ log[i].op.gen = gen => log[i].op.q \in solved
        /\ log[i].won /\ log[j].won /\ log[i].op.gen = log[j].op.gen
               /\ log[i].op.q = log[j].op.q => i = j

\* A request sent again, by whomever and after whatever else, is neither carried out
\* nor paid a second time.
OperationsOnce == AppliedOnce /\ PaidOnce

\* A panel that is told "accepted" sees an operation that was carried out; one
\* that is told "not accepted" sees an operation of another run, one that was
\* never carried out, or one that left the receipt window long ago.
VerdictHonest ==
    [][\A t \in Tabs :
        reply'[t] # None /\ reply[t] = None /\ pending[t] # None =>
            IF reply'[t].ok
            THEN \E i \in DOMAIN log' : log'[i].op = pending[t]
            ELSE \/ pending[t].gen # gen
                 \/ \A i \in DOMAIN log : log[i].op # pending[t]
                 \/ rev - pending[t].rev > MaxReceipts]_vars

\* Overlapping reads and replies never take back, within a run, what a panel
\* has shown: neither a revision, nor a solved question, nor an opened hint.
ViewForward ==
    [][\A t \in Tabs :
        view[t] # None /\ view'[t] # None /\ view[t].gen = view'[t].gen =>
            /\ view[t].rev <= view'[t].rev
            /\ view[t].solved \subseteq view'[t].solved
            /\ \A q \in Questions : view[t].hints[q] <= view'[t].hints[q]]_vars

\* The requests, retries and receipts together keep the casebook's promise.
Promise == INSTANCE CasebookPromise WITH run <- gen
KeepsPromise == Promise!PSpec
=============================================================================
