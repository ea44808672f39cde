----------------------------- MODULE MovePanel ------------------------------
(***************************************************************************)
(* The page a player answers on (portal/FastMovePanel.tsx, on the poller of   *)
(* portal/coordination.ts).  It polls on a timer whether or not the last poll   *)
(* was answered, sends one move at a time, takes the projection of either, and  *)
(* lets the clocks it shows run on in between.  The host (dev/host.ts) brings   *)
(* the match to its clock before it serves a request, and a request whose host   *)
(* is behind does not take the match back.                                    *)
(*                                                                         *)
(* Time is that of the players; the clock of a browser differs from it by an   *)
(* offset, which cancels in everything the page computes.  What an Order asks    *)
(* and the wording of verdicts are left out; a duel is one whose opening is       *)
(* already in, which its deadline completes.                                  *)
(***************************************************************************)
EXTENDS Integers, FiniteSets

CONSTANTS
    Orders,     \* numbers of the team's Orders, as they are issued
    Arrives,    \* when each is issued
    Deadline,   \* and expires
    Duels,      \* those an absent opponent forfeits at the deadline
    MatchEnd,   \* end of the match
    Polls,      \* polls that may be open at a time
    MaxTime,    \* bound of the model
    MaxMoves,   \* bound of the model: moves sent
    None        \* an absent value

ASSUME PanelBounds ==
    /\ Orders \subseteq Nat \ {0} /\ IsFiniteSet(Orders) /\ Duels \subseteq Orders
    /\ Arrives \in [Orders -> Nat] /\ Deadline \in [Orders -> Nat]
    /\ \A o \in Orders : Arrives[o] < Deadline[o] /\ Deadline[o] <= MatchEnd
    /\ MatchEnd \in Nat \ {0} /\ MaxTime \in Nat /\ MaxMoves \in Nat

Statuses == {"unissued", "open", "completed", "expired", "voided"}
Snapshots ==
    [clock : Nat, status : [Orders -> Statuses], gen : Nat, moves : Nat]
Typed == [order : Orders, gen : Nat]
Requests ==
    [kind : {"answer", "attack", "rotate"}, order : Orders \cup {None},
     outcome : {"none", "hit", "miss", "refused"}, snap : Snapshots \cup {None}, moved : BOOLEAN]
ASSUME NoneAssumption ==
    None \notin Snapshots /\ None \notin Requests /\ None \notin Orders /\ None \notin Typed

VARIABLES
    exact,      \* no two requests are served at one reading of the host's clock
    now,
    clock,      \* state.nowMs
    status,     \* status of each Order of the team
    gen,        \* generation of the team's secrets
    moves,      \* history: moves carried out
    earned,     \* history: Orders this page completed
    asked,      \* polls on their way to the host
    polls,      \* the snapshots on their way back
    ask,        \* the move this page waits for, with what it was sent from
    shown,      \* polledProjection
    anchor,     \* projectionAtMs: when the page takes it to have been computed
    seen,       \* nowMs of the page, read once a second
    chosen,     \* selectedOrderId
    typed,      \* the answer being typed, with what it was typed for
    receipt,    \* orderReceipt
    completing  \* completionPending

host == <<now, clock, status, gen, moves, earned>>
page == <<shown, anchor, seen, chosen, typed, receipt, completing>>
panelVars == <<exact, host, asked, polls, ask, page>>

Most(a, b) == IF a > b THEN a ELSE b
Least(a, b) == IF a < b THEN a ELSE b

Init ==
    /\ exact \in BOOLEAN
    /\ now = 0 /\ clock = 0 /\ gen = 1 /\ moves = 0 /\ earned = {}
    /\ status = [o \in Orders |-> IF Arrives[o] = 0 THEN "open" ELSE "unissued"]
    /\ asked = {} /\ polls = [p \in Polls |-> None] /\ ask = None
    /\ shown = None /\ anchor = 0 /\ seen = 0 /\ chosen = None
    /\ typed = None /\ receipt = None /\ completing = FALSE

-----------------------------------------------------------------------------
(* The host.                                                               *)

Settled(o) == IF o \in Duels THEN "completed" ELSE "expired"

Ticked(c) == [o \in Orders |->
    IF status[o] \in {"unissued", "open"} /\ Deadline[o] <= c THEN Settled(o)
    ELSE IF status[o] = "unissued" /\ Arrives[o] <= c THEN "open"
    ELSE status[o]]

\* A host's clock may be behind the others', or read what the last request read.
Reads(c) == IF exact THEN c = now /\ c > clock ELSE c \in Most(now - 1, 0)..now

Snapshot(c, st, g, m) == [clock |-> c, status |-> st, gen |-> g, moves |-> m]

Tick ==
    /\ now < MaxTime /\ now' = now + 1
    /\ UNCHANGED <<exact, clock, status, gen, moves, earned, asked, polls, ask, page>>

ServePoll(p) ==
    /\ p \in asked /\ asked' = asked \ {p}
    /\ \E c \in 0..now :
        /\ Reads(c)
        /\ clock' = Most(clock, c) /\ status' = Ticked(clock')
        /\ polls' = [polls EXCEPT ![p] = Snapshot(clock', status', gen, moves)]
    /\ UNCHANGED <<exact, now, gen, moves, earned, ask, page>>

\* What the move a leaves of the Orders: an answer that is right completes one, a rotation
\* voids what is open.
Moved(a, outcome, st) ==
    IF outcome # "hit" THEN st
    ELSE IF a.kind = "answer" THEN [st EXCEPT ![a.order] = "completed"]
    ELSE IF a.kind = "rotate" THEN [o \in Orders |-> IF st[o] = "open" THEN "voided" ELSE st[o]]
    ELSE st

\* A move is refused or carried out; an answer needs an open Order and may be wrong.
Outcomes(a, at) ==
    IF at >= MatchEnd THEN {"refused"}
    ELSE IF a.kind = "answer"
         THEN IF Ticked(at)[a.order] = "open" THEN {"hit", "miss"} ELSE {"refused"}
    ELSE IF a.kind = "rotate" THEN {"hit", "refused"}
    ELSE {"hit", "miss", "refused"}

ServeMove ==
    /\ ask # None /\ ask.outcome = "none"
    /\ \E c \in 0..now :
        /\ Reads(c) /\ clock' = Most(clock, c)
        /\ \E outcome \in Outcomes(ask, clock') :
            /\ status' = Moved(ask, outcome, Ticked(clock'))
            /\ gen' = IF ask.kind = "rotate" /\ outcome = "hit" THEN gen + 1 ELSE gen
            /\ moves' = IF outcome = "refused" THEN moves ELSE moves + 1
            /\ earned' = IF ask.kind = "answer" /\ outcome = "hit"
                         THEN earned \cup {ask.order} ELSE earned
            /\ ask' = [ask EXCEPT !.outcome = outcome,
                          !.snap = IF outcome = "refused" THEN None
                                   ELSE Snapshot(clock', status', gen', moves')]
    /\ UNCHANGED <<exact, now, asked, polls, page>>

-----------------------------------------------------------------------------
(* What the page shows.                                                     *)

\* The snapshot s, taken to be computed at a, as it stands at t.
Elapsed(a, t) == Most(0, t - a)
Left(until, s, a, t) == Most(0, until - s.clock - Elapsed(a, t))
Closed(s, a, t) == s # None /\ Left(MatchEnd, s, a, t) = 0
OpenOrders(s, a, t) ==
    IF s = None \/ Closed(s, a, t) THEN {}
    ELSE {o \in Orders : s.status[o] = "open" /\ Left(Deadline[o], s, a, t) > 0}

\* The chosen Order while it is open, and the first that is otherwise.
SelectedOf(open, c) ==
    IF c \in open THEN c
    ELSE IF open = {} THEN None
    ELSE CHOOSE o \in open : \A other \in open : o <= other
Selected == SelectedOf(OpenOrders(shown, anchor, seen), chosen)

Generation(s) == IF s = None THEN None ELSE s.gen

\* What the page does whenever it is drawn anew: the Order that is shown is pinned, and
\* what was typed goes when that Order or the team's generation is another.
Pinned(sel, c) == IF sel = None THEN c ELSE sel
TypedFor(sel, s) ==
    IF sel = Selected /\ Generation(s) = Generation(shown) THEN typed ELSE None

Drawn(s, a, t, c) ==
    LET sel == SelectedOf(OpenOrders(s, a, t), c)
    IN  /\ shown' = s /\ anchor' = a /\ seen' = t
        /\ chosen' = Pinned(sel, c)
        /\ typed' = TypedFor(sel, s)

\* A choice, or a pin that is another, tells the move under way that the player moved on.
Marked(a, moved) == IF a = None \/ ~moved THEN a ELSE [a EXCEPT !.moved = TRUE]
Repins(s, a, t, c) == Pinned(SelectedOf(OpenOrders(s, a, t), c), c) # c

\* setProjection: a snapshot of an earlier clock is dropped; one that took longer to
\* come than the clock moved on is aged from where the page stood.
MutLate(next) == FALSE
Late(next) == shown # None /\ next.clock < shown.clock
AnchorOf(next) ==
    IF shown = None THEN now ELSE Least(now, anchor + next.clock - shown.clock)
Accepted(next) == IF Late(next) THEN shown ELSE next
AnchorAfter(next) == IF Late(next) THEN anchor ELSE AnchorOf(next)

-----------------------------------------------------------------------------
(* The page.                                                               *)

Poll(p) ==
    /\ p \notin asked /\ polls[p] = None
    /\ asked' = asked \cup {p}
    /\ UNCHANGED <<exact, host, polls, ask, page>>

PollArrives(p) ==
    /\ polls[p] # None
    /\ polls' = [polls EXCEPT ![p] = None]
    /\ LET s == Accepted(polls[p])
           a == AnchorAfter(polls[p])
       IN  /\ Drawn(s, a, seen, chosen)
           /\ ask' = Marked(ask, Repins(s, a, seen, chosen))
    /\ UNCHANGED <<exact, host, asked, receipt, completing>>

\* The page keeps the last projection it had.
PollFails(p) ==
    /\ p \in asked \/ polls[p] # None
    /\ asked' = asked \ {p} /\ polls' = [polls EXCEPT ![p] = None]
    /\ UNCHANGED <<exact, host, ask, page>>

Beat ==
    /\ seen # now
    /\ Drawn(shown, anchor, now, chosen)
    /\ ask' = Marked(ask, Repins(shown, anchor, now, chosen))
    /\ UNCHANGED <<exact, host, asked, polls, receipt, completing>>

Playing == shown # None /\ ~Closed(shown, anchor, seen)

Choose(o) ==
    /\ Playing /\ o \in OpenOrders(shown, anchor, seen)
    /\ Drawn(shown, anchor, seen, o)
    /\ ask' = Marked(ask, TRUE)
    /\ completing' = FALSE
    /\ UNCHANGED <<exact, host, asked, polls, receipt>>

\* While a completed Order is on show, nothing can be typed for the next.
Type ==
    /\ Playing /\ ~completing /\ Selected # None /\ Selected \notin Duels
    /\ typed' = [order |-> Selected, gen |-> shown.gen]
    /\ UNCHANGED <<exact, host, asked, polls, ask, shown, anchor, seen, chosen, receipt, completing>>

Proceed ==
    /\ Playing /\ completing /\ OpenOrders(shown, anchor, seen) # {}
    /\ completing' = FALSE
    /\ UNCHANGED <<exact, host, asked, polls, ask, shown, anchor, seen, chosen, typed, receipt>>

\* An answer is sent for an Order; what else is sent is not.
MutSubmittedFor(kind) == Selected
SubmittedFor(kind) == IF kind = "answer" THEN Selected ELSE None

Submit(kind) ==
    /\ Playing /\ ask = None /\ moves < MaxMoves
    /\ kind = "answer" => ~completing /\ typed # None
    /\ ask' = [kind |-> kind, order |-> SubmittedFor(kind), outcome |-> "none",
               snap |-> None, moved |-> FALSE]
    /\ UNCHANGED <<exact, host, asked, polls, shown, anchor, seen, chosen, typed, receipt, completing>>

\* completionReceipt: the Order the move was sent for is completed, and paid.
CompletionReceipt(submitted, hit, next) ==
    IF submitted # None /\ hit /\ next.status[submitted] = "completed" THEN submitted ELSE None

\* Whether the answer may take the player's attention.
Passive(a) == a.moved

MoveAnswered ==
    /\ ask # None /\ ask.outcome # "none" /\ ask' = None
    /\ IF ask.outcome = "refused"
       THEN UNCHANGED <<shown, anchor, seen, chosen, typed, receipt, completing>>
       ELSE LET got == CompletionReceipt(ask.order, ask.outcome = "hit", ask.snap)
            IN  /\ Drawn(Accepted(ask.snap), AnchorAfter(ask.snap), seen, chosen)
                /\ receipt' = IF got = None THEN receipt ELSE got
                /\ completing' = IF got = None THEN completing ELSE ~Passive(ask)
    /\ UNCHANGED <<exact, host, asked, polls>>

\* The connection breaks before the host has the move, or before its answer arrives.
MoveLost ==
    /\ ask # None /\ ask' = None
    /\ UNCHANGED <<exact, host, asked, polls, shown, anchor, seen, chosen, typed, receipt, completing>>

Next ==
    \/ Tick \/ Beat \/ Type \/ Proceed
    \/ ServeMove \/ MoveAnswered \/ MoveLost
    \/ \E p \in Polls : Poll(p) \/ ServePoll(p) \/ PollArrives(p) \/ PollFails(p)
    \/ \E o \in Orders : Choose(o)
    \/ \E kind \in {"answer", "attack", "rotate"} : Submit(kind)

Spec == Init /\ [][Next]_panelVars

-----------------------------------------------------------------------------
TypeOK ==
    /\ exact \in BOOLEAN
    /\ now \in Nat /\ clock \in Nat /\ gen \in Nat /\ moves \in Nat
    /\ status \in [Orders -> Statuses] /\ earned \subseteq Orders
    /\ asked \subseteq Polls /\ polls \in [Polls -> Snapshots \cup {None}]
    /\ ask \in Requests \cup {None}
    /\ shown \in Snapshots \cup {None} /\ anchor \in Int /\ seen \in Nat
    /\ chosen \in Orders \cup {None} /\ typed \in Typed \cup {None}
    /\ receipt \in Orders \cup {None}
    /\ completing \in BOOLEAN

\* The page never shows an Order as lapsed, nor the match as over, before it is: a
\* snapshot may be slow, but it is never aged by more than the time since it was computed.
NeverEarly ==
    shown # None =>
        /\ \A o \in Orders : Left(Deadline[o], shown, anchor, seen) = 0 => Deadline[o] <= now
        /\ Closed(shown, anchor, seen) => MatchEnd <= now

\* What is typed is for the Order and the generation on show (FastMovePanel.tsx:1220-1233).
TypedHere ==
    typed # None => typed.order = Selected /\ typed.gen = shown.gen

\* An Order is shown as this player's completion only if an answer of this page completed
\* it: not if a deadline did while another move was made.
ReceiptEarned ==
    /\ receipt # None => receipt \in earned
    /\ completing => receipt # None

PanelSound == NeverEarly /\ TypedHere /\ ReceiptEarned

\* Polls overlap and overtake each other and the moves: what the page shows never goes
\* back to an earlier clock, and no countdown ever rises.
Countdown ==
    shown # None =>
        /\ shown'.clock >= shown.clock
        /\ \A o \in Orders :
              Left(Deadline[o], shown', anchor', seen') <= Left(Deadline[o], shown, anchor, seen)

\* The page turns to a completed Order only if the player is still where the answer was
\* sent from.
StaysPut == completing' /\ ~completing => chosen = ask.order

\* A move that the page has shown is never taken back by a slower poll.
NotTakenBack == shown # None => shown'.moves >= shown.moves

\* Countdown and StaysPut, and NotTakenBack while no two requests are served at one
\* reading of the host's clock (FastMovePanel.tsx:1158-1170, 1252-1275).
PanelForward == [][Countdown /\ StaysPut /\ (exact => NotTakenBack)]_panelVars

\* "Ignore a late poll that was computed before the operation response"
\* (FastMovePanel.tsx:1162), whatever the host's clock reads.
LatePollIgnored == [][NotTakenBack]_panelVars
=============================================================================
