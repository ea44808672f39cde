-------------------------- MODULE MovePanelProofs ---------------------------
(***************************************************************************)
(* For any Orders, any number of polls and any length of the match: the page *)
(* shows nothing as lapsed before it is, sends nothing for an Order it was   *)
(* not typed for, claims no completion it did not earn, keeps the player in  *)
(* place, takes no move back, and what it counts down never rises.  For any    *)
(* number of tabs: a proof that one began can be finished in another.         *)
(***************************************************************************)
EXTENDS MovePanel, WitnessTabs, WellFoundedInduction, SumTheorems

\* A snapshot on its way was computed by now.
ClocksPast ==
    /\ clock <= now /\ seen <= now
    /\ \A p \in Polls : polls[p] # None => polls[p].clock <= now
    /\ ask # None => (ask.snap # None => ask.snap.clock <= now)

\* The page never takes a snapshot to be older than its clock says.
Anchored == shown # None => shown.clock <= anchor /\ shown.clock <= now

\* What the move under way can be answered with.
AskHonest ==
    ask # None =>
        /\ ask.outcome \in {"hit", "miss"} => ask.snap # None
        /\ ask.kind = "answer" <=> ask.order # None
        /\ ask.kind = "answer" /\ ask.outcome = "hit" => ask.order \in earned

IInv == TypeOK /\ ClocksPast /\ Anchored /\ AskHonest /\ TypedHere /\ ReceiptEarned

-----------------------------------------------------------------------------
(* Operators.                                                              *)

LEMMA SnapFields ==
    ASSUME NEW s \in Snapshots
    PROVE  /\ s.clock \in Nat /\ s.gen \in Nat /\ s.moves \in Nat
           /\ s.status \in [Orders -> Statuses] /\ s # None
BY NoneAssumption DEF Snapshots

LEMMA LeastOrder ==
    ASSUME NEW S \in SUBSET Orders, S # {}
    PROVE  \E o \in S : \A other \in S : o <= other
<1>1. S \subseteq Nat
  BY PanelBounds
<1> DEFINE R == {ss \in Nat \X Nat : ss[1] < ss[2]}
<1>2. IsWellFoundedOn(R, Nat)
  BY NatLessThanWellFounded, Zenon DEF OpToRel
<1> HIDE DEF R
<1>3. PICK o \in S : \A other \in S : ~(<<other, o>> \in R)
  BY <1>1, <1>2, WFMin, Zenon
<1>4. ASSUME NEW other \in S
      PROVE  o <= other
  <2>1. <<other, o>> \in Nat \X Nat /\ <<other, o>> \notin R
    BY <1>1, <1>3
  <2>2. ~(other < o)
    BY <2>1 DEF R
  <2> QED BY <1>1, <2>2
<1> QED BY <1>4

LEMMA OpenAreOrders ==
    ASSUME NEW s, NEW a, NEW t
    PROVE  OpenOrders(s, a, t) \subseteq Orders
BY DEF OpenOrders

LEMMA SelectedType ==
    ASSUME NEW S \in SUBSET Orders, NEW c
    PROVE  /\ SelectedOf(S, c) \in S \cup {None}
           /\ SelectedOf(S, c) = None <=> S = {}
           /\ SelectedOf(S, Pinned(SelectedOf(S, c), c)) = SelectedOf(S, c)
<1>0. None \notin S
  BY NoneAssumption
<1>1. CASE c \in S
  BY <1>0, <1>1 DEF SelectedOf, Pinned
<1>2. CASE S = {}
  BY <1>2 DEF SelectedOf, Pinned
<1>3. CASE c \notin S /\ S # {}
  <2>1. SelectedOf(S, c) = CHOOSE o \in S : \A other \in S : o <= other
    BY <1>3 DEF SelectedOf
  <2>2. SelectedOf(S, c) \in S
    BY <1>3, <2>1, LeastOrder
  <2> QED BY <1>0, <1>3, <2>2 DEF SelectedOf, Pinned
<1> QED BY <1>1, <1>2, <1>3

LEMMA TickedType ==
    ASSUME TypeOK, NEW c \in Nat
    PROVE  Ticked(c) \in [Orders -> Statuses]
BY DEF TypeOK, Ticked, Settled, Statuses

LEMMA AcceptedFacts ==
    ASSUME TypeOK, ClocksPast, Anchored, NEW next \in Snapshots, next.clock <= now
    PROVE  /\ Accepted(next) \in Snapshots /\ AnchorAfter(next) \in Int
           /\ Accepted(next).clock <= AnchorAfter(next) /\ Accepted(next).clock <= now
           /\ shown # None =>
                /\ shown.clock <= Accepted(next).clock
                /\ Accepted(next).clock - AnchorAfter(next) >= shown.clock - anchor
<1> USE SnapFields DEF TypeOK, ClocksPast, Anchored
<1>1. CASE shown = None
  BY <1>1 DEF Accepted, AnchorAfter, Late, AnchorOf
<1>2. CASE shown # None
  <2>1. shown \in Snapshots
    BY <1>2
  <2>2. CASE next.clock < shown.clock
    BY <1>2, <2>1, <2>2 DEF Accepted, AnchorAfter, Late
  <2>3. CASE ~(next.clock < shown.clock)
    BY <1>2, <2>1, <2>3 DEF Accepted, AnchorAfter, Late, AnchorOf, Least
  <2> QED BY <2>2, <2>3
<1> QED BY <1>1, <1>2

\* Whatever draws the page anew leaves what was typed for the Order on show.
LEMMA DrawnFacts ==
    ASSUME TypeOK, TypedHere, NEW s \in Snapshots \cup {None}, NEW a \in Int, NEW t \in Nat,
           NEW c \in Orders \cup {None}, Drawn(s, a, t, c)
    PROVE  /\ shown' = s /\ anchor' = a /\ seen' = t
           /\ chosen' \in Orders \cup {None} /\ typed' \in Typed \cup {None}
           /\ TypedHere'
<1> DEFINE S == OpenOrders(s, a, t)
           sel == SelectedOf(S, c)
<1>1. S \in SUBSET Orders
  BY OpenAreOrders
<1>2. /\ sel \in Orders \cup {None}
      /\ SelectedOf(S, Pinned(sel, c)) = sel
  BY <1>1, SelectedType
<1>3. /\ shown' = s /\ anchor' = a /\ seen' = t /\ chosen' = Pinned(sel, c)
      /\ typed' = TypedFor(sel, s)
  BY DEF Drawn
<1>4. Selected' = sel
  BY <1>2, <1>3 DEF Selected
<1>5. chosen' \in Orders \cup {None}
  BY <1>2, <1>3 DEF Pinned
<1>6. typed' \in Typed \cup {None}
  BY <1>3 DEF TypedFor, TypeOK
<1>7. TypedHere'
  <2> SUFFICES ASSUME typed' # None
               PROVE  typed'.order = Selected' /\ typed'.gen = shown'.gen
    BY DEF TypedHere
  <2>1. sel = Selected /\ Generation(s) = Generation(shown) /\ typed' = typed
    BY <1>3 DEF TypedFor
  <2>2. typed.order = Selected /\ typed.gen = shown.gen /\ typed.gen \in Nat
    BY <2>1, NoneAssumption DEF TypedHere, TypeOK, Typed
  <2>3. sel # None
    BY <2>1, <2>2, NoneAssumption DEF TypeOK, Typed
  <2>4. shown # None /\ s # None
    BY <2>1, <2>3, OpenAreOrders, SelectedType DEF OpenOrders, Selected
  <2> QED BY <1>3, <1>4, <2>1, <2>2, <2>4 DEF Generation
<1> QED BY <1>3, <1>5, <1>6, <1>7
-----------------------------------------------------------------------------
(* The requests and answers.                                               *)

LEMMA InitInv == Init => IInv
<1> SUFFICES ASSUME Init PROVE IInv
  OBVIOUS
<1>1. TypeOK
  <2>1. status \in [Orders -> Statuses]
    BY DEF Init, Statuses
  <2>2. polls \in [Polls -> Snapshots \cup {None}]
    BY DEF Init
  <2>3. exact \in BOOLEAN /\ completing \in BOOLEAN
    BY DEF Init
  <2>4. now \in Nat /\ clock \in Nat /\ gen \in Nat /\ moves \in Nat /\ seen \in Nat /\ anchor \in Int
    BY DEF Init
  <2> QED BY <2>1, <2>2, <2>3, <2>4, Zenon DEF Init, TypeOK
<1>2. ClocksPast /\ Anchored
  BY DEF Init, ClocksPast, Anchored
<1>3. AskHonest /\ TypedHere /\ ReceiptEarned
  BY DEF Init, AskHonest, TypedHere, ReceiptEarned
<1> QED BY <1>1, <1>2, <1>3 DEF IInv

\* What the clauses about the page read, where a step leaves the page alone.
LEMMA PageStays ==
    ASSUME IInv, UNCHANGED <<shown, anchor, seen, chosen, typed>>, now' = now
    PROVE  TypedHere' /\ Anchored'
<1>1. Selected' = Selected
  BY DEF Selected
<1> QED BY <1>1 DEF IInv, TypedHere, Anchored

LEMMA ServedSnap ==
    ASSUME TypeOK, NEW at \in Nat, NEW after \in [Orders -> Statuses], NEW g \in Nat, NEW m \in Nat
    PROVE  /\ Snapshot(at, after, g, m) \in Snapshots
           /\ Snapshot(at, after, g, m).clock = at
BY DEF Snapshot, Snapshots

LEMMA ServePollInv == ASSUME IInv, NEW p \in Polls, ServePoll(p) PROVE IInv'
<1> USE DEF IInv
<1>1. PICK c \in 0..now :
        /\ clock' = Most(clock, c) /\ status' = Ticked(clock')
        /\ polls' = [polls EXCEPT ![p] = Snapshot(clock', status', gen, moves)]
  BY DEF ServePoll
<1>2. clock' \in Nat /\ clock' <= now /\ c \in Nat
  BY <1>1 DEF Most, TypeOK, ClocksPast
<1>3. status' \in [Orders -> Statuses]
  BY <1>1, <1>2, TickedType
<1>4. /\ Snapshot(clock', status', gen, moves) \in Snapshots
      /\ Snapshot(clock', status', gen, moves).clock = clock'
  BY <1>2, <1>3, ServedSnap DEF TypeOK
<1>5. TypeOK'
  BY <1>1, <1>2, <1>3, <1>4 DEF TypeOK, ServePoll, page
<1>6. ClocksPast'
  <2>1. \A q \in Polls : polls'[q] = IF q = p THEN Snapshot(clock', status', gen, moves) ELSE polls[q]
    BY <1>1 DEF TypeOK
  <2> QED BY <1>2, <1>4, <2>1 DEF ClocksPast, ServePoll, page
<1>7. TypedHere' /\ Anchored'
  BY PageStays DEF ServePoll, page
<1> QED BY <1>5, <1>6, <1>7 DEF ServePoll, page, AskHonest, ReceiptEarned

\* The fields of a request, and of what is left of it once it is marked.
LEMMA AskFields ==
    ASSUME NEW a \in Requests
    PROVE  /\ a # None /\ a.kind \in {"answer", "attack", "rotate"}
           /\ a.order \in Orders \cup {None} /\ a.moved \in BOOLEAN
           /\ a.outcome \in {"none", "hit", "miss", "refused"}
           /\ a.snap \in Snapshots \cup {None}
BY NoneAssumption DEF Requests

LEMMA MarkedFields ==
    ASSUME NEW a \in Requests \cup {None}, NEW moved \in BOOLEAN
    PROVE  /\ Marked(a, moved) \in Requests \cup {None}
           /\ Marked(a, moved) = None <=> a = None
           /\ a # None =>
                /\ Marked(a, moved).kind = a.kind /\ Marked(a, moved).order = a.order
                /\ Marked(a, moved).outcome = a.outcome /\ Marked(a, moved).snap = a.snap
<1>1. CASE a = None \/ ~moved
  BY <1>1 DEF Marked
<1>2. CASE a # None /\ moved
  <2>1. a \in Requests /\ Marked(a, moved) = [a EXCEPT !.moved = TRUE]
    BY <1>2 DEF Marked
  <2>2. /\ [a EXCEPT !.moved = TRUE] \in Requests
        /\ [a EXCEPT !.moved = TRUE].kind = a.kind /\ [a EXCEPT !.moved = TRUE].order = a.order
        /\ [a EXCEPT !.moved = TRUE].outcome = a.outcome
        /\ [a EXCEPT !.moved = TRUE].snap = a.snap
    BY <2>1 DEF Requests
  <2> QED BY <2>1, <2>2, NoneAssumption
<1> QED BY <1>1, <1>2

LEMMA ServeMoveInv == ASSUME IInv, ServeMove PROVE IInv'
<1> USE DEF IInv
<1>0. ask \in Requests /\ ask # None
  BY DEF ServeMove, TypeOK
<1>1. PICK c \in 0..now :
        /\ clock' = Most(clock, c)
        /\ \E outcome \in Outcomes(ask, clock') :
            /\ status' = Moved(ask, outcome, Ticked(clock'))
            /\ gen' = IF ask.kind = "rotate" /\ outcome = "hit" THEN gen + 1 ELSE gen
            /\ moves' = IF outcome = "refused" THEN moves ELSE moves + 1
            /\ earned' = IF ask.kind = "answer" /\ outcome = "hit"
                         THEN earned \cup {ask.order} ELSE earned
            /\ ask' = [ask EXCEPT !.outcome = outcome,
                          !.snap = IF outcome = "refused" THEN None
                                   ELSE Snapshot(clock', status', gen', moves')]
  BY DEF ServeMove
<1>2. PICK outcome \in Outcomes(ask, clock') :
        /\ status' = Moved(ask, outcome, Ticked(clock'))
        /\ gen' = IF ask.kind = "rotate" /\ outcome = "hit" THEN gen + 1 ELSE gen
        /\ moves' = IF outcome = "refused" THEN moves ELSE moves + 1
        /\ earned' = IF ask.kind = "answer" /\ outcome = "hit"
                     THEN earned \cup {ask.order} ELSE earned
        /\ ask' = [ask EXCEPT !.outcome = outcome,
                      !.snap = IF outcome = "refused" THEN None
                               ELSE Snapshot(clock', status', gen', moves')]
  BY <1>1
<1>3. outcome \in {"hit", "miss", "refused"}
  BY DEF Outcomes
<1>4. clock' \in Nat /\ clock' <= now
  BY <1>1 DEF Most, TypeOK, ClocksPast
<1>5. status' \in [Orders -> Statuses]
  BY <1>2, <1>4, TickedType DEF Moved, Statuses
<1>6. gen' \in Nat /\ moves' \in Nat
  BY <1>2 DEF TypeOK
<1> DEFINE s == IF outcome = "refused" THEN None ELSE Snapshot(clock', status', gen', moves')
<1>7. s \in Snapshots \cup {None} /\ (s # None => s.clock <= now)
      /\ (outcome # "refused" => s # None)
  BY <1>4, <1>5, <1>6, ServedSnap, NoneAssumption
<1>8. /\ ask' \in Requests /\ ask'.kind = ask.kind /\ ask'.order = ask.order
      /\ ask'.outcome = outcome /\ ask'.snap = s
  <2>1. ask' = [ask EXCEPT !.outcome = outcome, !.snap = s]
    BY <1>2
  <2> HIDE DEF s
  <2> QED BY <1>0, <1>3, <1>7, <2>1 DEF Requests
<1>9. ask.kind = "answer" => ask.order \in Orders
  BY <1>0, AskFields DEF AskHonest
<1> HIDE DEF s
<1>10. earned' \subseteq Orders
  BY <1>2, <1>9 DEF TypeOK
<1>11. TypeOK'
  BY <1>4, <1>5, <1>6, <1>8, <1>10 DEF TypeOK, ServeMove, page
<1>12. ClocksPast'
  BY <1>4, <1>7, <1>8 DEF ClocksPast, ServeMove, page
<1>13. AskHonest'
  <2>1. ask.kind = "answer" /\ outcome = "hit" => ask.order \in earned'
    BY <1>2
  <2> QED BY <1>0, <1>3, <1>7, <1>8, <2>1 DEF AskHonest
<1>14. ReceiptEarned'
  BY <1>2 DEF ReceiptEarned, ServeMove, page
<1>15. TypedHere' /\ Anchored'
  BY PageStays DEF ServeMove, page
<1> QED BY <1>11, <1>12, <1>13, <1>14, <1>15

-----------------------------------------------------------------------------
(* The page.                                                               *)

\* A snapshot that reaches the page.
LEMMA ArrivalFacts ==
    ASSUME IInv, NEW next \in Snapshots, next.clock <= now,
           Drawn(Accepted(next), AnchorAfter(next), seen, chosen), now' = now
    PROVE  /\ shown' \in Snapshots /\ anchor' \in Int /\ seen' = seen
           /\ chosen' \in Orders \cup {None} /\ typed' \in Typed \cup {None}
           /\ TypedHere' /\ Anchored' /\ Countdown
<1>1. /\ Accepted(next) \in Snapshots /\ AnchorAfter(next) \in Int
      /\ Accepted(next).clock <= AnchorAfter(next) /\ Accepted(next).clock <= now
      /\ shown # None =>
           /\ shown.clock <= Accepted(next).clock
           /\ Accepted(next).clock - AnchorAfter(next) >= shown.clock - anchor
  BY AcceptedFacts DEF IInv
<1>2. /\ shown' = Accepted(next) /\ anchor' = AnchorAfter(next) /\ seen' = seen
      /\ chosen' \in Orders \cup {None} /\ typed' \in Typed \cup {None} /\ TypedHere'
  BY <1>1, DrawnFacts DEF IInv, TypeOK
<1>3. Anchored'
  BY <1>1, <1>2 DEF Anchored
<1>4. Countdown
  <2> SUFFICES ASSUME shown # None, NEW o \in Orders
               PROVE  Left(Deadline[o], shown', anchor', seen')
                        <= Left(Deadline[o], shown, anchor, seen)
    BY <1>1, <1>2 DEF Countdown
  <2>1. shown \in Snapshots /\ anchor \in Int /\ seen \in Nat /\ Deadline[o] \in Nat
    BY PanelBounds DEF IInv, TypeOK
  <2>2. shown.clock \in Nat /\ shown'.clock \in Nat
    BY <1>1, <1>2, <2>1, SnapFields
  <2>3. shown'.clock >= shown.clock /\ shown'.clock - anchor' >= shown.clock - anchor
    BY <1>1, <1>2
  <2> QED BY <1>1, <1>2, <2>1, <2>2, <2>3 DEF Left, Elapsed, Most
<1> QED BY <1>1, <1>2, <1>3, <1>4

LEMMA PollArrivesInv == ASSUME IInv, NEW p \in Polls, PollArrives(p) PROVE IInv' /\ Countdown
<1> USE DEF IInv
<1>1. polls[p] \in Snapshots /\ polls[p].clock <= now
  BY DEF PollArrives, TypeOK, ClocksPast
<1>2. /\ Drawn(Accepted(polls[p]), AnchorAfter(polls[p]), seen, chosen)
      /\ \E moved \in BOOLEAN : ask' = Marked(ask, moved)
      /\ polls' = [polls EXCEPT ![p] = None]
  BY DEF PollArrives, Repins
<1>3. /\ shown' \in Snapshots /\ anchor' \in Int /\ seen' = seen
      /\ chosen' \in Orders \cup {None} /\ typed' \in Typed \cup {None}
      /\ TypedHere' /\ Anchored' /\ Countdown
  BY <1>1, <1>2, ArrivalFacts DEF PollArrives, host
<1>4. ask' \in Requests \cup {None} /\ AskHonest' /\ ClocksPast'
  <2>1. PICK moved \in BOOLEAN : ask' = Marked(ask, moved)
    BY <1>2
  <2>2. /\ ask' \in Requests \cup {None} /\ (ask' = None <=> ask = None)
        /\ ask # None => ask'.kind = ask.kind /\ ask'.order = ask.order
                         /\ ask'.outcome = ask.outcome /\ ask'.snap = ask.snap
    BY <2>1, MarkedFields DEF TypeOK
  <2>3. AskHonest'
    BY <2>2 DEF AskHonest, PollArrives, host
  <2>4. \A q \in Polls : polls'[q] = IF q = p THEN None ELSE polls[q]
    BY <1>2 DEF TypeOK
  <2>5. ClocksPast'
    BY <1>3, <2>2, <2>4 DEF ClocksPast, PollArrives, host
  <2> QED BY <2>2, <2>3, <2>5
<1>5. TypeOK'
  BY <1>2, <1>3, <1>4 DEF TypeOK, PollArrives, host
<1>6. ReceiptEarned'
  BY DEF ReceiptEarned, PollArrives, host
<1> QED BY <1>3, <1>4, <1>5, <1>6

LEMMA MoveAnsweredInv ==
    ASSUME IInv, MoveAnswered
    PROVE  IInv' /\ (Countdown \/ UNCHANGED <<shown, anchor, seen>>)
<1> USE DEF IInv
<1>0. ask \in Requests /\ ask # None /\ ask.outcome \in {"hit", "miss", "refused"}
  BY AskFields DEF MoveAnswered, TypeOK
<1>1. CASE ask.outcome = "refused"
  <2>1. UNCHANGED <<shown, anchor, seen, chosen, typed, receipt, completing>>
    BY <1>1 DEF MoveAnswered
  <2>2. TypedHere' /\ Anchored'
    BY <2>1, PageStays DEF MoveAnswered, host
  <2> QED BY <2>1, <2>2
        DEF MoveAnswered, host, TypeOK, ClocksPast, AskHonest, ReceiptEarned
<1>2. CASE ask.outcome # "refused"
  <2> DEFINE got == CompletionReceipt(ask.order, ask.outcome = "hit", ask.snap)
  <2>1. /\ Drawn(Accepted(ask.snap), AnchorAfter(ask.snap), seen, chosen)
        /\ receipt' = IF got = None THEN receipt ELSE got
        /\ completing' = IF got = None THEN completing ELSE ~Passive(ask)
    BY <1>2 DEF MoveAnswered
  <2>2. ask.snap \in Snapshots /\ ask.snap.clock <= now
    BY <1>0, <1>2, AskFields DEF AskHonest, ClocksPast
  <2>3. /\ shown' \in Snapshots /\ anchor' \in Int /\ seen' = seen
        /\ chosen' \in Orders \cup {None} /\ typed' \in Typed \cup {None}
        /\ TypedHere' /\ Anchored' /\ Countdown
    BY <2>1, <2>2, ArrivalFacts DEF MoveAnswered, host
  <2>4. got # None => got \in earned /\ got \in Orders
    BY <1>0, AskFields DEF CompletionReceipt, AskHonest
  <2>5. ask.moved \in BOOLEAN
    BY <1>0, AskFields
  <2> HIDE DEF got
  <2>6. receipt' \in Orders \cup {None} /\ completing' \in BOOLEAN
    BY <2>1, <2>4, <2>5 DEF TypeOK, Passive
  <2>7. ReceiptEarned'
    BY <2>1, <2>4 DEF ReceiptEarned, MoveAnswered, host
  <2>8. TypeOK'
    BY <2>3, <2>6 DEF TypeOK, MoveAnswered, host
  <2>9. ClocksPast' /\ AskHonest'
    BY <2>3 DEF ClocksPast, AskHonest, MoveAnswered, host
  <2> QED BY <2>3, <2>7, <2>8, <2>9
<1> QED BY <1>1, <1>2

LEMMA BeatInv == ASSUME IInv, Beat PROVE IInv' /\ Countdown
<1> USE DEF IInv
<1>1. Drawn(shown, anchor, now, chosen) /\ shown \in Snapshots \cup {None}
  BY DEF Beat, TypeOK
<1>2. /\ shown' = shown /\ anchor' = anchor /\ seen' = now
      /\ chosen' \in Orders \cup {None} /\ typed' \in Typed \cup {None} /\ TypedHere'
  BY <1>1, DrawnFacts DEF TypeOK
<1>3. PICK moved \in BOOLEAN : ask' = Marked(ask, moved)
  BY DEF Beat, Repins
<1>4. /\ ask' \in Requests \cup {None} /\ (ask' = None <=> ask = None)
      /\ ask # None => ask'.kind = ask.kind /\ ask'.order = ask.order
                       /\ ask'.outcome = ask.outcome /\ ask'.snap = ask.snap
  BY <1>3, MarkedFields DEF TypeOK
<1>5. TypeOK'
  BY <1>2, <1>4 DEF TypeOK, Beat, host
<1>6. ClocksPast' /\ Anchored'
  BY <1>2, <1>4 DEF ClocksPast, Anchored, TypeOK, Beat, host
<1>7. AskHonest' /\ ReceiptEarned'
  BY <1>4 DEF AskHonest, ReceiptEarned, Beat, host
<1>8. Countdown
  <2> SUFFICES ASSUME shown # None, NEW o \in Orders
               PROVE  Left(Deadline[o], shown', anchor', seen')
                        <= Left(Deadline[o], shown, anchor, seen)
    BY <1>2, SnapFields DEF Countdown, TypeOK
  <2>1. /\ anchor \in Int /\ seen \in Nat /\ now \in Nat /\ seen <= now
        /\ Deadline[o] \in Nat /\ shown.clock \in Nat
    BY PanelBounds, SnapFields DEF TypeOK, ClocksPast
  <2> QED BY <1>2, <2>1 DEF Left, Elapsed, Most
<1> QED BY <1>2, <1>5, <1>6, <1>7, <1>8

LEMMA ChooseInv ==
    ASSUME IInv, NEW o \in Orders, Choose(o)
    PROVE  IInv' /\ UNCHANGED <<shown, anchor, seen>>
<1> USE DEF IInv
<1>1. Drawn(shown, anchor, seen, o)
  BY DEF Choose
<1>2. /\ shown' = shown /\ anchor' = anchor /\ seen' = seen
      /\ chosen' \in Orders \cup {None} /\ typed' \in Typed \cup {None} /\ TypedHere'
  BY <1>1, DrawnFacts DEF TypeOK
<1>3. /\ ask' \in Requests \cup {None} /\ (ask' = None <=> ask = None)
      /\ ask # None => ask'.kind = ask.kind /\ ask'.order = ask.order
                       /\ ask'.outcome = ask.outcome /\ ask'.snap = ask.snap
  BY MarkedFields DEF TypeOK, Choose
<1>4. TypeOK'
  BY <1>2, <1>3 DEF TypeOK, Choose, host
<1>5. ClocksPast' /\ Anchored'
  BY <1>2, <1>3 DEF ClocksPast, Anchored, Choose, host
<1>6. AskHonest' /\ ReceiptEarned'
  BY <1>3 DEF AskHonest, ReceiptEarned, Choose, host
<1> QED BY <1>2, <1>4, <1>5, <1>6

LEMMA TypeInv ==
    ASSUME IInv, Type PROVE IInv' /\ UNCHANGED <<shown, anchor, seen>>
<1> USE DEF IInv
<1>1. shown \in Snapshots /\ Selected \in Orders
  BY OpenAreOrders, SelectedType DEF Type, Playing, TypeOK, Selected
<1>2. Selected' = Selected
  BY DEF Selected, Type
<1>3. typed' = [order |-> Selected, gen |-> shown.gen] /\ typed' \in Typed
  BY <1>1, SnapFields DEF Type, Typed
<1>4. TypedHere'
  BY <1>2, <1>3 DEF TypedHere, Type
<1>5. TypeOK'
  BY <1>3 DEF TypeOK, Type, host
<1> QED BY <1>4, <1>5 DEF Type, host, ClocksPast, Anchored, AskHonest, ReceiptEarned

LEMMA SubmitInv ==
    ASSUME IInv, NEW kind \in {"answer", "attack", "rotate"}, Submit(kind)
    PROVE  IInv' /\ UNCHANGED <<shown, anchor, seen>>
<1> USE DEF IInv
<1>1. UNCHANGED <<exact, host, asked, polls, shown, anchor, seen, chosen, typed, receipt, completing>>
  BY DEF Submit
<1>2. kind = "answer" => SubmittedFor(kind) \in Orders
  BY DEF Submit, SubmittedFor, TypedHere, TypeOK, Typed
<1>3. SubmittedFor(kind) \in Orders \cup {None} /\ (kind = "answer" <=> SubmittedFor(kind) # None)
  BY <1>2, NoneAssumption DEF SubmittedFor
<1>4. /\ ask' \in Requests /\ ask'.outcome = "none" /\ ask'.snap = None
      /\ ask'.kind = kind /\ ask'.order = SubmittedFor(kind)
  BY <1>3 DEF Submit, Requests
<1>5. TypeOK'
  BY <1>1, <1>4 DEF TypeOK, host
<1>6. ClocksPast' /\ AskHonest' /\ ReceiptEarned'
  BY <1>1, <1>3, <1>4 DEF ClocksPast, AskHonest, ReceiptEarned, host
<1>7. TypedHere' /\ Anchored'
  BY <1>1, PageStays DEF host
<1> QED BY <1>1, <1>5, <1>6, <1>7

\* Steps that leave what the page shows alone, and ask for nothing.
LEMMA QuietInv ==
    ASSUME IInv,
           \/ Tick \/ Proceed \/ MoveLost \/ UNCHANGED panelVars
           \/ \E p \in Polls : Poll(p) \/ PollFails(p)
    PROVE  IInv' /\ UNCHANGED <<shown, anchor, seen>>
<1> USE DEF IInv
<1>1. CASE Tick
  <2>2. now' \in Nat /\ now <= now'
    BY <1>1 DEF Tick, TypeOK
  <2>1. TypedHere' /\ Anchored'
    <3>1. UNCHANGED <<shown, anchor, seen, chosen, typed>> /\ Selected' = Selected
      BY <1>1 DEF Tick, page, Selected
    <3>2. shown # None => shown.clock <= now'
      BY <2>2, SnapFields DEF TypeOK, Anchored
    <3> QED BY <3>1, <3>2 DEF TypedHere, Anchored
  <2>3. TypeOK'
    BY <1>1, <2>2 DEF Tick, page, TypeOK
  <2>4. ClocksPast'
    <3>1. clock <= now' /\ seen <= now'
      BY <1>1, <2>2 DEF TypeOK, ClocksPast
    <3>2. \A p \in Polls : polls[p] # None => polls[p].clock <= now'
      BY <2>2, SnapFields DEF TypeOK, ClocksPast
    <3>3. ask # None => (ask.snap # None => ask.snap.clock <= now')
      BY <2>2, SnapFields, AskFields DEF TypeOK, ClocksPast
    <3> QED BY <1>1, <3>1, <3>2, <3>3 DEF Tick, page, ClocksPast
  <2> QED BY <1>1, <2>1, <2>3, <2>4 DEF Tick, page, AskHonest, ReceiptEarned
<1>2. CASE Proceed
  <2>1. TypedHere' /\ Anchored'
    BY <1>2, PageStays DEF Proceed, host
  <2> QED BY <1>2, <2>1 DEF Proceed, host, TypeOK, ClocksPast, AskHonest, ReceiptEarned
<1>3. CASE MoveLost
  <2>1. TypedHere' /\ Anchored'
    BY <1>3, PageStays DEF MoveLost, host
  <2> QED BY <1>3, <2>1 DEF MoveLost, host, TypeOK, ClocksPast, AskHonest, ReceiptEarned
<1>4. CASE UNCHANGED panelVars
  <2>1. TypedHere' /\ Anchored'
    BY <1>4, PageStays DEF panelVars, page, host
  <2> QED BY <1>4, <2>1 DEF panelVars, host, page, TypeOK, ClocksPast, AskHonest, ReceiptEarned
<1>5. ASSUME NEW p \in Polls, Poll(p)
      PROVE  IInv' /\ UNCHANGED <<shown, anchor, seen>>
  <2>1. TypedHere' /\ Anchored'
    BY <1>5, PageStays DEF Poll, page, host
  <2> QED BY <1>5, <2>1 DEF Poll, host, page, TypeOK, ClocksPast, AskHonest, ReceiptEarned
<1>6. ASSUME NEW p \in Polls, PollFails(p)
      PROVE  IInv' /\ UNCHANGED <<shown, anchor, seen>>
  <2>1. TypedHere' /\ Anchored'
    BY <1>6, PageStays DEF PollFails, page, host
  <2>2. \A q \in Polls : polls'[q] = IF q = p THEN None ELSE polls[q]
    BY <1>6 DEF PollFails, TypeOK
  <2>3. polls' \in [Polls -> Snapshots \cup {None}]
    BY <1>6 DEF PollFails, TypeOK
  <2> QED BY <1>6, <2>1, <2>2, <2>3
        DEF PollFails, host, page, TypeOK, ClocksPast, AskHonest, ReceiptEarned
<1> QED BY <1>1, <1>2, <1>3, <1>4, <1>5, <1>6

-----------------------------------------------------------------------------
(* Results.                                                                *)

LEMMA StepInv ==
    ASSUME IInv, [Next]_panelVars
    PROVE  IInv' /\ (Countdown \/ UNCHANGED <<shown, anchor, seen>>)
<1>1. CASE \/ Tick \/ Proceed \/ MoveLost \/ UNCHANGED panelVars
           \/ \E p \in Polls : Poll(p) \/ PollFails(p)
  BY <1>1, QuietInv
<1>2. CASE Beat
  BY <1>2, BeatInv
<1>3. CASE Type
  BY <1>3, TypeInv
<1>4. CASE ServeMove
  BY <1>4, ServeMoveInv DEF ServeMove, page
<1>5. CASE MoveAnswered
  BY <1>5, MoveAnsweredInv
<1>6. ASSUME NEW p \in Polls, ServePoll(p)
      PROVE  IInv' /\ (Countdown \/ UNCHANGED <<shown, anchor, seen>>)
  BY <1>6, ServePollInv DEF ServePoll, page
<1>7. ASSUME NEW p \in Polls, PollArrives(p)
      PROVE  IInv' /\ (Countdown \/ UNCHANGED <<shown, anchor, seen>>)
  BY <1>7, PollArrivesInv
<1>8. ASSUME NEW o \in Orders, Choose(o)
      PROVE  IInv' /\ (Countdown \/ UNCHANGED <<shown, anchor, seen>>)
  BY <1>8, ChooseInv
<1>9. ASSUME NEW kind \in {"answer", "attack", "rotate"}, Submit(kind)
      PROVE  IInv' /\ (Countdown \/ UNCHANGED <<shown, anchor, seen>>)
  BY <1>9, SubmitInv
<1> QED BY <1>1, <1>2, <1>3, <1>4, <1>5, <1>6, <1>7, <1>8, <1>9 DEF Next

\* A snapshot that the page ages by what has passed since its clock is never ahead of now.
LEMMA NeverEarlyFollows == ASSUME IInv PROVE NeverEarly
<1> SUFFICES ASSUME shown # None
             PROVE  /\ \A o \in Orders :
                         Left(Deadline[o], shown, anchor, seen) = 0 => Deadline[o] <= now
                    /\ Left(MatchEnd, shown, anchor, seen) = 0 => MatchEnd <= now
  BY DEF NeverEarly, Closed
<1>1. /\ shown.clock \in Nat /\ shown.clock <= anchor /\ shown.clock <= now
      /\ anchor \in Int /\ seen \in Nat /\ now \in Nat /\ seen <= now
  BY SnapFields DEF IInv, TypeOK, ClocksPast, Anchored
<1>2. \A until \in Nat : Left(until, shown, anchor, seen) = 0 => until <= now
  BY <1>1 DEF Left, Elapsed, Most
<1> QED BY <1>2, PanelBounds

\* The types, that nothing shows as lapsed before it is, that what is typed is for the
\* Order on show, and that a completion on show was earned here (MovePanel: PanelSound).
THEOREM PanelIsSound == Spec => [](TypeOK /\ PanelSound)
<1>1. Init => IInv
  BY InitInv
<1>2. IInv /\ [Next]_panelVars => IInv'
  BY StepInv
<1>3. IInv => TypeOK /\ PanelSound
  BY NeverEarlyFollows DEF IInv, PanelSound
<1> QED BY <1>1, <1>2, <1>3, PTL DEF Spec

\* Whatever polls and answers overtake each other, no countdown on the page rises.
THEOREM CountsDown == Spec => [][Countdown]_<<shown, anchor, seen>>
<1>1. Init => IInv
  BY InitInv
<1>2. IInv /\ [Next]_panelVars => IInv' /\ [Countdown]_<<shown, anchor, seen>>
  BY StepInv
<1> QED BY <1>1, <1>2, PTL DEF Spec

-----------------------------------------------------------------------------
(* Where the player is, and in what order the snapshots were computed.      *)

\* The Order on show is the one that is pinned.
Follows == Selected # None => chosen = Selected

\* The player is where the answer under way was sent from, or the page knows better.
Waits == ask # None /\ ask.order # None /\ ~ask.moved => chosen = ask.order

\* The snapshots on show and under way.
Held ==
    {s \in Snapshots : \/ s = shown
                       \/ \E p \in Polls : s = polls[p]
                       \/ ask # None /\ s = ask.snap}

\* With a clock that moves on between two requests, the later snapshot has seen every move
\* that the earlier one has.
Ordered ==
    exact => \A s \in Held : /\ s.clock <= clock /\ s.moves <= moves
                             /\ \A t \in Held : s.clock <= t.clock => s.moves <= t.moves

JInv == IInv /\ Follows /\ Waits /\ Ordered

LEMMA DrawnFollows ==
    ASSUME NEW s, NEW a, NEW t, NEW c, Drawn(s, a, t, c)
    PROVE  Follows'
<1> DEFINE S == OpenOrders(s, a, t)
           sel == SelectedOf(S, c)
<1>1. S \in SUBSET Orders
  BY OpenAreOrders
<1>2. SelectedOf(S, Pinned(sel, c)) = sel
  BY <1>1, SelectedType
<1>3. shown' = s /\ anchor' = a /\ seen' = t /\ chosen' = Pinned(sel, c)
  BY DEF Drawn
<1>4. Selected' = sel
  BY <1>2, <1>3 DEF Selected
<1> QED BY <1>3, <1>4 DEF Follows, Pinned

\* A page that is drawn anew and pins another Order says so to the move under way.
LEMMA RedrawnWaits ==
    ASSUME TypeOK, Waits, NEW s, NEW a, NEW t, Drawn(s, a, t, chosen),
           ask' = Marked(ask, Repins(s, a, t, chosen))
    PROVE  Waits'
<1>1. CASE ask = None \/ ~Repins(s, a, t, chosen)
  <2>1. ask' = ask
    BY <1>1 DEF Marked
  <2>2. ask = None \/ chosen' = chosen
    BY <1>1 DEF Drawn, Repins
  <2> QED BY <2>1, <2>2 DEF Waits
<1>2. CASE ask # None /\ Repins(s, a, t, chosen)
  <2>1. ask \in Requests /\ ask' = [ask EXCEPT !.moved = TRUE]
    BY <1>2 DEF Marked, TypeOK
  <2>2. ask'.moved
    BY <2>1 DEF Requests
  <2> QED BY <2>2 DEF Waits
<1> QED BY <1>1, <1>2

LEMMA HeldKept ==
    ASSUME Ordered, Held' \subseteq Held, UNCHANGED <<exact, clock, moves>>
    PROVE  Ordered'
BY DEF Ordered

\* A request that is served reads a later clock than any snapshot has.
LEMMA HeldServed ==
    ASSUME TypeOK, Ordered, exact' = exact, clock' \in Nat, moves' \in Nat, moves <= moves',
           exact => clock < clock',
           NEW new \in Snapshots, new.clock = clock', new.moves = moves',
           Held' \subseteq Held \cup {new}
    PROVE  Ordered'
<1> SUFFICES ASSUME exact, NEW s \in Held'
             PROVE  /\ s.clock <= clock' /\ s.moves <= moves'
                    /\ \A t \in Held' : s.clock <= t.clock => s.moves <= t.moves
  BY DEF Ordered
<1>1. clock \in Nat /\ moves \in Nat /\ clock < clock'
  BY DEF TypeOK
<1>2. \A t \in Held : /\ t.clock \in Nat /\ t.moves \in Nat /\ t.clock <= clock /\ t.moves <= moves
                      /\ \A u \in Held : t.clock <= u.clock => t.moves <= u.moves
  BY SnapFields DEF Ordered, Held
<1>3. \A t \in Held' : t \in Held \/ t = new
  OBVIOUS
<1>4. \A t \in Held : t.clock < clock' /\ t.moves <= moves'
  BY <1>1, <1>2
<1>5. CASE s = new
  <2>1. \A t \in Held : ~(s.clock <= t.clock)
    BY <1>2, <1>4, <1>5
  <2> QED BY <1>3, <1>5, <2>1
<1>6. CASE s \in Held
  BY <1>1, <1>2, <1>3, <1>4, <1>6
<1> QED BY <1>3, <1>5, <1>6

LEMMA ExactReads ==
    ASSUME TypeOK, NEW c \in 0..now, Reads(c), clock' = Most(clock, c)
    PROVE  clock' \in Nat /\ (exact => clock < clock')
BY DEF TypeOK, Reads, Most

-----------------------------------------------------------------------------
(* The steps.                                                              *)

\* A step leaves the player in place, and the moves on show where they are.
KeepsPlace == StaysPut /\ (exact => NotTakenBack)

LEMMA NotShown ==
    ASSUME TypeOK, shown' = shown, completing' => completing
    PROVE  KeepsPlace
BY SnapFields DEF KeepsPlace, StaysPut, NotTakenBack, TypeOK

\* A snapshot that is drawn is one that was held, and has every move the last one had.
LEMMA ArrivalOrdered ==
    ASSUME IInv, Ordered, NEW next \in Held, shown' = Accepted(next)
    PROVE  shown' \in Held /\ (exact => NotTakenBack)
<1>1. shown' \in Held
  BY DEF Accepted, Late, Held, IInv, TypeOK
<1>2. ASSUME exact, shown # None PROVE shown'.moves >= shown.moves
  <2>1. shown \in Held /\ shown \in Snapshots /\ next \in Snapshots
    BY <1>2 DEF Held, IInv, TypeOK
  <2>2. shown.clock <= shown'.clock
    BY <1>2, <2>1, SnapFields DEF Accepted, Late
  <2>3. shown.moves <= shown'.moves
    BY <1>1, <1>2, <2>1, <2>2 DEF Ordered
  <2> QED BY <1>1, <2>1, <2>3, SnapFields DEF Held
<1> QED BY <1>1, <1>2 DEF NotTakenBack

LEMMA ServePollStep == ASSUME JInv, NEW p \in Polls, ServePoll(p) PROVE JInv' /\ KeepsPlace
<1> USE DEF JInv
<1>1. IInv'
  BY ServePollInv
<1>2. UNCHANGED <<exact, now, gen, moves, earned, ask, page>>
  BY DEF ServePoll
<1>3. Follows' /\ Waits'
  BY <1>2 DEF Follows, Waits, Selected, page
<1>4. PICK c \in 0..now :
        /\ Reads(c) /\ clock' = Most(clock, c)
        /\ polls' = [polls EXCEPT ![p] = Snapshot(clock', status', gen, moves)]
  BY DEF ServePoll
<1> DEFINE new == Snapshot(clock', status', gen, moves)
<1>5. clock' \in Nat /\ (exact => clock < clock')
  BY <1>4, ExactReads DEF IInv
<1>6. new \in Snapshots /\ new.clock = clock' /\ new.moves = moves'
  BY <1>1, <1>2 DEF IInv, TypeOK, Snapshot, Snapshots
<1> HIDE DEF new
<1>7. \A q \in Polls : polls'[q] = IF q = p THEN new ELSE polls[q]
  BY <1>4 DEF IInv, TypeOK, new
<1>8. Held' \subseteq Held \cup {new}
  BY <1>2, <1>7 DEF Held, page
<1>9. Ordered'
  BY <1>2, <1>5, <1>6, <1>8, HeldServed DEF IInv, TypeOK
<1>10. KeepsPlace
  BY <1>2, NotShown DEF IInv, page
<1> QED BY <1>1, <1>3, <1>9, <1>10

LEMMA ServeMoveStep == ASSUME JInv, ServeMove PROVE JInv' /\ KeepsPlace
<1> USE DEF JInv
<1>1. IInv'
  BY ServeMoveInv
<1>2. UNCHANGED <<exact, now, asked, polls, page>> /\ ask \in Requests /\ ask # None
  BY DEF ServeMove, IInv, TypeOK
<1>3. PICK c \in 0..now :
        /\ Reads(c) /\ clock' = Most(clock, c)
        /\ \E outcome \in Outcomes(ask, clock') :
            /\ moves' = IF outcome = "refused" THEN moves ELSE moves + 1
            /\ ask' = [ask EXCEPT !.outcome = outcome,
                          !.snap = IF outcome = "refused" THEN None
                                   ELSE Snapshot(clock', status', gen', moves')]
  BY DEF ServeMove
<1>4. PICK outcome \in Outcomes(ask, clock') :
        /\ moves' = IF outcome = "refused" THEN moves ELSE moves + 1
        /\ ask' = [ask EXCEPT !.outcome = outcome,
                      !.snap = IF outcome = "refused" THEN None
                               ELSE Snapshot(clock', status', gen', moves')]
  BY <1>3
<1> DEFINE new == Snapshot(clock', status', gen', moves')
<1>5. ask'.order = ask.order /\ ask'.moved = ask.moved /\ (ask'.snap = None \/ ask'.snap = new)
  <2> DEFINE s == IF outcome = "refused" THEN None ELSE new
  <2>1. ask' = [ask EXCEPT !.outcome = outcome, !.snap = s]
    BY <1>4
  <2>2. s = None \/ s = new
    OBVIOUS
  <2> HIDE DEF s, new
  <2>3. ask'.order = ask.order /\ ask'.moved = ask.moved /\ ask'.snap = s
    BY <1>2, <2>1 DEF Requests
  <2> QED BY <2>2, <2>3
<1>6. Follows' /\ Waits'
  BY <1>2, <1>5 DEF Follows, Waits, Selected, page
<1>7. clock' \in Nat /\ (exact => clock < clock')
  BY <1>3, ExactReads DEF IInv
<1>8. moves \in Nat /\ moves' \in Nat /\ moves <= moves'
  BY <1>4 DEF IInv, TypeOK
<1>9. new \in Snapshots /\ new.clock = clock' /\ new.moves = moves'
  BY <1>1 DEF IInv, TypeOK, Snapshot, Snapshots
<1> HIDE DEF new
<1>10. Held' \subseteq Held \cup {new}
  BY <1>2, <1>5, NoneAssumption DEF Held, page
<1>11. Ordered'
  BY <1>2, <1>7, <1>8, <1>9, <1>10, HeldServed DEF IInv
<1>12. KeepsPlace
  BY <1>2, NotShown DEF IInv, page
<1> QED BY <1>1, <1>6, <1>11, <1>12

LEMMA PollArrivesStep == ASSUME JInv, NEW p \in Polls, PollArrives(p) PROVE JInv' /\ KeepsPlace
<1> USE DEF JInv
<1>1. IInv'
  BY PollArrivesInv
<1> DEFINE s == Accepted(polls[p])
           a == AnchorAfter(polls[p])
<1>2. /\ polls[p] # None /\ polls' = [polls EXCEPT ![p] = None]
      /\ Drawn(s, a, seen, chosen) /\ ask' = Marked(ask, Repins(s, a, seen, chosen))
      /\ UNCHANGED <<exact, host, asked, receipt, completing>>
  BY DEF PollArrives
<1>3. Follows'
  BY <1>2, DrawnFollows
<1>4. Waits'
  BY <1>2, RedrawnWaits DEF IInv
<1>5. polls[p] \in Held
  BY <1>2 DEF Held, IInv, TypeOK
<1>6. shown' = Accepted(polls[p])
  BY <1>2 DEF Drawn
<1>7. shown' \in Held /\ (exact => NotTakenBack)
  BY <1>5, <1>6, ArrivalOrdered
<1> HIDE DEF s, a
<1>8. ask # None => ask' # None /\ ask'.snap = ask.snap
  BY <1>2, MarkedFields DEF IInv, TypeOK, Repins
<1>9. ask = None => ask' = None
  BY <1>2 DEF Marked
<1>10. \A q \in Polls : polls'[q] = IF q = p THEN None ELSE polls[q]
  BY <1>2 DEF IInv, TypeOK
<1>11. Held' \subseteq Held
  <2>1. \A u \in Snapshots : u # None
    BY NoneAssumption
  <2> QED BY <1>7, <1>8, <1>9, <1>10, <2>1 DEF Held
<1>12. Ordered'
  BY <1>2, <1>11, HeldKept DEF host
<1> QED BY <1>1, <1>2, <1>3, <1>4, <1>7, <1>12 DEF KeepsPlace, StaysPut

\* A completion takes the page over only where the player still waits for it.
LEMMA MoveAnsweredStep == ASSUME JInv, MoveAnswered PROVE JInv' /\ KeepsPlace
<1> USE DEF JInv
<1>0. ask \in Requests /\ ask # None /\ ask.outcome \in {"hit", "miss", "refused"} /\ ask' = None
  BY AskFields DEF MoveAnswered, IInv, TypeOK
<1>1. IInv' /\ Waits' /\ UNCHANGED <<exact, host, polls>>
  BY <1>0, MoveAnsweredInv DEF MoveAnswered, Waits
<1>2. CASE ask.outcome = "refused"
  <2>1. UNCHANGED <<shown, anchor, seen, chosen, typed, receipt, completing>>
    BY <1>2 DEF MoveAnswered
  <2>2. Follows'
    BY <2>1 DEF Follows, Selected
  <2>3. Held' \subseteq Held
    BY <1>0, <1>1, <2>1 DEF Held
  <2>4. Ordered'
    BY <1>1, <2>3, HeldKept DEF host
  <2>5. KeepsPlace
    BY <2>1, NotShown DEF IInv
  <2> QED BY <1>1, <2>2, <2>4, <2>5
<1>3. CASE ask.outcome # "refused"
  <2> DEFINE got == CompletionReceipt(ask.order, ask.outcome = "hit", ask.snap)
  <2>1. /\ Drawn(Accepted(ask.snap), AnchorAfter(ask.snap), seen, chosen)
        /\ completing' = IF got = None THEN completing ELSE ~Passive(ask)
    BY <1>3 DEF MoveAnswered
  <2>2. Follows'
    BY <2>1, DrawnFollows
  <2>3. ask.snap \in Held
    BY <1>0, <1>3, AskFields DEF Held, IInv, AskHonest
  <2>4. shown' = Accepted(ask.snap)
    BY <2>1 DEF Drawn
  <2>5. shown' \in Held /\ (exact => NotTakenBack)
    BY <2>3, <2>4, ArrivalOrdered
  <2>6. Held' \subseteq Held
    BY <1>0, <1>1, <2>5 DEF Held
  <2>7. Ordered'
    BY <1>1, <2>6, HeldKept DEF host
  <2>8. StaysPut
    <3> SUFFICES ASSUME completing', ~completing PROVE chosen = ask.order
      BY DEF StaysPut
    <3>1. got # None /\ ~ask.moved
      BY <2>1 DEF Passive
    <3>2. ask.order # None
      BY <3>1 DEF CompletionReceipt
    <3> QED BY <1>0, <3>1, <3>2 DEF Waits
  <2> QED BY <1>1, <2>2, <2>5, <2>7, <2>8 DEF KeepsPlace
<1> QED BY <1>2, <1>3

LEMMA BeatStep == ASSUME JInv, Beat PROVE JInv' /\ KeepsPlace
<1> USE DEF JInv
<1>1. /\ Drawn(shown, anchor, now, chosen)
      /\ ask' = Marked(ask, Repins(shown, anchor, now, chosen))
      /\ UNCHANGED <<exact, host, asked, polls, receipt, completing>>
  BY DEF Beat
<1>2. IInv' /\ Follows' /\ Waits'
  BY <1>1, BeatInv, DrawnFollows, RedrawnWaits DEF IInv
<1>3. shown' = shown
  BY <1>1 DEF Drawn
<1>4. (ask = None => ask' = None) /\ (ask # None => ask'.snap = ask.snap)
  BY <1>1, MarkedFields DEF IInv, TypeOK, Repins
<1>5. Held' \subseteq Held
  BY <1>1, <1>3, <1>4 DEF Held
<1>6. Ordered'
  BY <1>1, <1>5, HeldKept DEF host
<1>7. KeepsPlace
  BY <1>1, <1>3, NotShown DEF IInv
<1> QED BY <1>2, <1>6, <1>7

LEMMA ChooseStep == ASSUME JInv, NEW o \in Orders, Choose(o) PROVE JInv' /\ KeepsPlace
<1> USE DEF JInv
<1>1. /\ Drawn(shown, anchor, seen, o) /\ ask' = Marked(ask, TRUE) /\ completing' = FALSE
      /\ UNCHANGED <<exact, host, asked, polls, receipt>>
  BY DEF Choose
<1>2. IInv' /\ Follows'
  BY <1>1, ChooseInv, DrawnFollows
<1>3. shown' = shown
  BY <1>1 DEF Drawn
<1>4. (ask = None => ask' = None) /\ (ask # None => ask'.snap = ask.snap /\ ask'.moved)
  <2>1. ask # None => ask'.moved
    BY <1>1 DEF Marked, IInv, TypeOK, Requests
  <2> QED BY <1>1, <2>1, MarkedFields DEF IInv, TypeOK
<1>5. Waits'
  BY <1>4 DEF Waits
<1>6. Held' \subseteq Held
  BY <1>1, <1>3, <1>4 DEF Held
<1>7. Ordered'
  BY <1>1, <1>6, HeldKept DEF host
<1>8. KeepsPlace
  BY <1>1, <1>3, NotShown DEF IInv
<1> QED BY <1>2, <1>5, <1>7, <1>8

LEMMA SubmitStep ==
    ASSUME JInv, NEW kind \in {"answer", "attack", "rotate"}, Submit(kind)
    PROVE  JInv' /\ KeepsPlace
<1> USE DEF JInv
<1>1. /\ ask' = [kind |-> kind, order |-> SubmittedFor(kind), outcome |-> "none",
                 snap |-> None, moved |-> FALSE]
      /\ UNCHANGED <<exact, host, asked, polls, page>>
  BY DEF Submit, page
<1>2. IInv' /\ Follows'
  BY <1>1, SubmitInv DEF Follows, Selected, page
<1>3. ask'.order = SubmittedFor(kind) /\ ask'.snap = None
  BY <1>1
<1>4. Waits'
  <2>1. SubmittedFor(kind) # None => SubmittedFor(kind) = Selected
    BY DEF SubmittedFor
  <2> QED BY <1>1, <1>3, <2>1 DEF Waits, Follows, page
<1>5. Held' \subseteq Held
  BY <1>1, <1>3, NoneAssumption DEF Held, page
<1>6. Ordered'
  BY <1>1, <1>5, HeldKept DEF host
<1>7. KeepsPlace
  BY <1>1, NotShown DEF IInv, page
<1> QED BY <1>2, <1>4, <1>6, <1>7

\* Steps that leave what the page shows alone, and ask for nothing.
LEMMA QuietStep ==
    ASSUME JInv,
           \/ Tick \/ Proceed \/ MoveLost \/ Type \/ UNCHANGED panelVars
           \/ \E p \in Polls : Poll(p) \/ PollFails(p)
    PROVE  JInv' /\ KeepsPlace
<1> USE DEF JInv
<1>1. IInv'
  BY QuietInv, TypeInv
<1>2. /\ UNCHANGED <<shown, anchor, seen, chosen, exact, clock, moves>>
      /\ (completing' => completing) /\ (ask' = ask \/ ask' = None)
  BY DEF Tick, Proceed, MoveLost, Type, Poll, PollFails, panelVars, host, page
<1>3. Follows' /\ Waits'
  BY <1>2 DEF Follows, Waits, Selected
<1>4. \A p \in Polls : polls'[p] = polls[p] \/ polls'[p] = None
  <2>1. ASSUME NEW q \in Polls, PollFails(q)
        PROVE  \A p \in Polls : polls'[p] = polls[p] \/ polls'[p] = None
    BY <2>1 DEF PollFails, IInv, TypeOK
  <2> QED BY <2>1 DEF Tick, Proceed, MoveLost, Type, Poll, panelVars, host
<1>5. Held' \subseteq Held
  BY <1>2, <1>4, NoneAssumption DEF Held
<1>6. Ordered'
  BY <1>2, <1>5, HeldKept
<1>7. KeepsPlace
  BY <1>2, NotShown DEF IInv
<1> QED BY <1>1, <1>3, <1>6, <1>7

LEMMA StepJInv == ASSUME JInv, [Next]_panelVars PROVE JInv' /\ KeepsPlace
<1>1. CASE \/ Tick \/ Proceed \/ MoveLost \/ Type \/ UNCHANGED panelVars
           \/ \E p \in Polls : Poll(p) \/ PollFails(p)
  BY <1>1, QuietStep
<1>2. CASE Beat
  BY <1>2, BeatStep
<1>3. CASE ServeMove
  BY <1>3, ServeMoveStep
<1>4. CASE MoveAnswered
  BY <1>4, MoveAnsweredStep
<1>5. ASSUME NEW p \in Polls, ServePoll(p) \/ PollArrives(p) PROVE JInv' /\ KeepsPlace
  BY <1>5, ServePollStep, PollArrivesStep
<1>6. ASSUME NEW o \in Orders, Choose(o) PROVE JInv' /\ KeepsPlace
  BY <1>6, ChooseStep
<1>7. ASSUME NEW kind \in {"answer", "attack", "rotate"}, Submit(kind) PROVE JInv' /\ KeepsPlace
  BY <1>7, SubmitStep
<1> QED BY <1>1, <1>2, <1>3, <1>4, <1>5, <1>6, <1>7 DEF Next

LEMMA InitJInv == Init => JInv
<1> SUFFICES ASSUME Init PROVE JInv
  OBVIOUS
<1>1. Selected = None
  <2>1. OpenOrders(shown, anchor, seen) = {}
    BY DEF Init, OpenOrders
  <2> QED BY <2>1, SelectedType DEF Selected
<1>2. Held = {}
  BY NoneAssumption DEF Init, Held
<1> QED BY <1>1, <1>2, InitInv DEF Init, JInv, Follows, Waits, Ordered

\* Whatever polls and answers overtake each other: no countdown on the page rises, the
\* page turns to a completion only where the player waits for it, and a move it has shown
\* is never taken back while the host's clock moves on (FastMovePanel.tsx:1158-1275).
THEOREM PanelGoesForward == Spec => PanelForward
<1>1. Init => JInv
  BY InitJInv
<1>2. JInv /\ [Next]_panelVars
        => JInv' /\ [Countdown /\ StaysPut /\ (exact => NotTakenBack)]_panelVars
  <2> SUFFICES ASSUME JInv, [Next]_panelVars
               PROVE  JInv' /\ [Countdown /\ StaysPut /\ (exact => NotTakenBack)]_panelVars
    OBVIOUS
  <2>1. JInv' /\ KeepsPlace
    BY StepJInv
  <2>2. Countdown \/ UNCHANGED <<shown, anchor, seen>>
    BY StepInv DEF JInv
  <2>3. UNCHANGED <<shown, anchor, seen>> => Countdown
    BY SnapFields, PanelBounds DEF Countdown, JInv, IInv, TypeOK, Left, Elapsed, Most
  <2> QED BY <2>1, <2>2, <2>3 DEF KeepsPlace
<1> QED BY <1>1, <1>2, PTL DEF Spec, PanelForward

-----------------------------------------------------------------------------
(* The tabs of an interactive proof: the group of order 11 modulo 23.      *)

LEMMA PowerSteps ==
    ASSUME NEW base \in 0..22
    PROVE  /\ Power(base, 0) = 1
           /\ \A i \in Nat : /\ Power(base, i) \in 0..22
                             /\ Power(base, i + 1) = (Power(base, i) * base) % 23
<1> DEFINE F == [i \in Nat |-> [v \in 0..22 |-> (v * base) % 23]]
           Is(h) == h = [i \in Nat |-> IF i = 0 THEN 1 ELSE (h[i - 1] * base) % 23]
           value == CHOOSE h : Is(h)
<1>1. \A i : Power(base, i) = value[i]
  BY DEF Power
<1>2. F \in [Nat -> [0..22 -> 0..22]]
  OBVIOUS
<1>3. \A i \in Nat, v \in 0..22 : F[i][v] = (v * base) % 23
  OBVIOUS
<1> HIDE DEF F
<1>4. PICK h \in [Nat -> 0..22] : Repeats(h, 1, F)
  <2>1. 1 \in 0..22
    OBVIOUS
  <2> QED BY <1>2, <2>1, Iterates
<1>5. \A i \in Nat : i # 0 => F[i][h[i - 1]] = (h[i - 1] * base) % 23
  BY <1>3, <1>4
<1>6. h = [i \in Nat |-> IF i = 0 THEN 1 ELSE (h[i - 1] * base) % 23]
  BY <1>4, <1>5 DEF Repeats
<1>7. Is(value)
  BY <1>6
<1> HIDE DEF value
<1>8. value[0] = 1 /\ \A i \in Nat : value[i + 1] = (value[i] * base) % 23
  BY <1>7
<1>9. \A i \in Nat : value[i] \in 0..22
  <2> DEFINE T == {i \in Nat : value[i] \in 0..22}
  <2>1. 0 \in T /\ T \in SUBSET Nat
    BY <1>8
  <2>2. ASSUME NEW i \in T PROVE i + 1 \in T
    <3>1. i \in Nat /\ value[i] \in 0..22 /\ i + 1 \in Nat
      OBVIOUS
    <3>2. (value[i] * base) % 23 \in 0..22
      BY <3>1
    <3>3. value[i + 1] \in 0..22
      BY <1>8, <3>1, <3>2
    <3> QED BY <3>1, <3>3
  <2> HIDE DEF T
  <2>3. T = Nat
    BY <2>1, <2>2, NatSteps
  <2> QED BY <2>3 DEF T
<1> QED BY <1>1, <1>8, <1>9

LEMMA PowersOfTwo ==
    /\ G(0) = 1 /\ G(1) = 2 /\ G(2) = 4 /\ G(3) = 8 /\ G(4) = 16 /\ G(5) = 9
    /\ G(6) = 18 /\ G(7) = 13 /\ G(8) = 3 /\ G(9) = 6 /\ G(10) = 12
<1>1. G(0) = 1
  BY PowerSteps DEF G
<1>2. \A i \in Nat : G(i + 1) = (G(i) * 2) % 23
  BY PowerSteps DEF G
<1> HIDE DEF G
<1>3. G(1) = 2
  BY <1>1, <1>2, 0 + 1 = 1
<1>4. G(2) = 4
  BY <1>2, <1>3, 1 + 1 = 2
<1>5. G(3) = 8
  BY <1>2, <1>4, 2 + 1 = 3
<1>6. G(4) = 16
  BY <1>2, <1>5, 3 + 1 = 4
<1>7. G(5) = 9
  BY <1>2, <1>6, 4 + 1 = 5
<1>8. G(6) = 18
  BY <1>2, <1>7, 5 + 1 = 6
<1>9. G(7) = 13
  BY <1>2, <1>8, 6 + 1 = 7
<1>10. G(8) = 3
  BY <1>2, <1>9, 7 + 1 = 8
<1>11. G(9) = 6
  BY <1>2, <1>10, 8 + 1 = 9
<1>12. G(10) = 12
  BY <1>2, <1>11, 9 + 1 = 10
<1> QED BY <1>1, <1>3, <1>4, <1>5, <1>6, <1>7, <1>8, <1>9, <1>10, <1>11, <1>12

LEMMA ScalarsListed == Scalars = {0, 1, 2, 3, 4, 5, 6, 7, 8, 9, 10}
BY DEF Scalars

\* Eleven powers, all different: a value has one exponent.
LEMMA GInjective ==
    ASSUME NEW i \in Scalars, NEW j \in Scalars, G(i) = G(j)
    PROVE  i = j
<1> DEFINE log(v) == IF v = 1 THEN 0 ELSE IF v = 2 THEN 1 ELSE IF v = 4 THEN 2
                     ELSE IF v = 8 THEN 3 ELSE IF v = 16 THEN 4 ELSE IF v = 9 THEN 5
                     ELSE IF v = 18 THEN 6 ELSE IF v = 13 THEN 7 ELSE IF v = 3 THEN 8
                     ELSE IF v = 6 THEN 9 ELSE 10
<1> HIDE DEF G
<1>1. \A l \in Scalars : log(G(l)) = l
  BY PowersOfTwo, ScalarsListed
<1> QED BY <1>1

LEMMA GType == ASSUME NEW i \in Scalars PROVE G(i) \in 0..22
BY PowersOfTwo, ScalarsListed

LEMMA ExponentIsIt ==
    ASSUME NEW i \in Scalars
    PROVE  ExponentOf(G(i)) = i
BY GInjective DEF ExponentOf

\* The powers multiply as their exponents add up.
LEMMA GAdds ==
    ASSUME NEW i \in Scalars, NEW j \in Scalars
    PROVE  (i + j) % 11 \in Scalars /\ (G(i) * G(j)) % 23 = G((i + j) % 11)
<1> HIDE DEF G
<1>1. (i + j) % 11 \in Scalars
  BY DEF Scalars
<1>2. (i + j) % 11 = IF i + j < 11 THEN i + j ELSE i + j - 11
  BY DEF Scalars
<1> DEFINE Adds(l) == (G(l) * G(j)) % 23 = G(IF l + j < 11 THEN l + j ELSE l + j - 11)
<1>3. Adds(0) /\ Adds(1) /\ Adds(2) /\ Adds(3)
  BY PowersOfTwo, ScalarsListed
<1>4. Adds(4) /\ Adds(5) /\ Adds(6) /\ Adds(7)
  BY PowersOfTwo, ScalarsListed
<1>5. Adds(8) /\ Adds(9) /\ Adds(10)
  BY PowersOfTwo, ScalarsListed
<1>6. Adds(i)
  BY <1>3, <1>4, <1>5, ScalarsListed
<1> QED BY <1>1, <1>2, <1>6

\* A power of a power: its exponents multiply.
LEMMA PowerOfG ==
    ASSUME NEW i \in Scalars, NEW e \in Scalars
    PROVE  (e * i) % 11 \in Scalars /\ Power(G(i), e) = G((e * i) % 11)
<1> DEFINE T == {k \in Nat : Power(G(i), k) = G((k * i) % 11)}
<1>1. G(i) \in 0..22 /\ i \in Nat /\ \A k \in Nat : (k * i) % 11 \in Scalars
  BY GType DEF Scalars
<1> HIDE DEF G, Power
<1>2. 0 \in T
  <2>1. Power(G(i), 0) = 1 /\ G(0) = 1
    BY <1>1, PowerSteps, PowersOfTwo
  <2>2. (0 * i) % 11 = 0
    BY <1>1
  <2> QED BY <2>1, <2>2
<1>3. ASSUME NEW k \in T PROVE k + 1 \in T
  <2> DEFINE j == (k * i) % 11
  <2>1. k \in Nat /\ k + 1 \in Nat /\ Power(G(i), k) = G(j) /\ j \in Scalars
    BY <1>1
  <2>2. Power(G(i), k + 1) = (G(j) * G(i)) % 23
    BY <1>1, <2>1, PowerSteps
  <2>3. (G(j) * G(i)) % 23 = G((j + i) % 11)
    BY <2>1, GAdds
  <2>4. (j + i) % 11 = ((k + 1) * i) % 11
    <3> DEFINE p == k * i
    <3>1. p \in Nat /\ (k + 1) * i = p + i /\ i \in Nat
      BY <1>1, <2>1
    <3> HIDE DEF p
    <3>2. ((p % 11) + i) % 11 = (p + i) % 11
      BY <3>1
    <3> QED BY <3>1, <3>2 DEF p
  <2> QED BY <2>1, <2>2, <2>3, <2>4
<1>4. T \in SUBSET Nat
  OBVIOUS
<1> HIDE DEF T
<1>5. T = Nat
  BY <1>2, <1>3, <1>4, NatSteps
<1>6. e \in T
  BY <1>5 DEF Scalars
<1> QED BY <1>1, <1>6 DEF T, Scalars

\* The equation that the judge checks holds of one response and of no other.
LEMMA OneResponse ==
    ASSUME NEW r \in Scalars, NEW e \in Scalars, NEW s \in Scalars, NEW z \in Scalars
    PROVE  (G(z) = (G(r) * Power(G(s), e)) % 23) <=> (z = (r + e * s) % 11)
<1> DEFINE m == (e * s) % 11
<1> HIDE DEF G, Power
<1>1. m \in Scalars /\ Power(G(s), e) = G(m)
  BY PowerOfG
<1>2. (r + m) % 11 \in Scalars /\ (G(r) * G(m)) % 23 = G((r + m) % 11)
  BY <1>1, GAdds
<1>3. (r + m) % 11 = (r + e * s) % 11
  <2> DEFINE p == e * s
  <2>1. p \in Int /\ r \in Int
    BY DEF Scalars
  <2> HIDE DEF p
  <2>2. (r + (p % 11)) % 11 = (r + p) % 11
    BY <2>1
  <2> QED BY <2>2 DEF p
<1> QED BY <1>1, <1>2, <1>3, GInjective

LEMMA NoteFields ==
    ASSUME NEW w \in Notes
    PROVE  w.x \in Scalars /\ w.r \in Scalars /\ w # Absent
BY AbsentAssumption DEF Notes

LEMMA ProofFields ==
    ASSUME NEW p \in Proofs
    PROVE  p.a \in 0..22 /\ p.e \in Scalars /\ p.used \in BOOLEAN /\ p # Absent
BY AbsentAssumption DEF Proofs

\* The commitment is of a number the table has, and a tab knows the one the judge fixed.
Committed(p) == p # Absent => \E r \in Scalars : p.a = G(r)
SameProof(k, p) ==
    k # Absent => /\ p # Absent /\ p.a = k.a /\ p.e = k.e
                  /\ (k.used => p.used)
\* Whatever a tab has on screen or in store is of the statement of the Order.
OfSecret(w) == w # Absent => w.x = secret

TabsInv ==
    /\ TabsTyped /\ Committed(proof)
    /\ \A t \in Tabs : SameProof(known[t], proof) /\ OfSecret(witness[t]) /\ OfSecret(stored[t])
    /\ Finishable /\ StepsVerify /\ NumberKept

LEMMA InitTabsInv == TabsInit => TabsInv
BY WitnessBounds DEF TabsInit, TabsInv, TabsTyped, Committed, SameProof, OfSecret, Finishable,
                     StepsVerify, NumberKept

\* What fits is of the secret, and of the commitment.
LEMMA FitsMeans ==
    ASSUME secret \in Scalars, NEW w \in Notes, NEW p
    PROVE  Fits(w, p) <=> (w.x = secret /\ (p = Absent \/ G(w.r) = p.a))
BY NoteFields, GInjective DEF Fits, Y

LEMMA WitnessesFit ==
    ASSUME TabsInv, NEW notes \in Notes \cup {Absent}, NEW p \in Proofs \cup {Absent},
           Committed(p), NEW w \in Witnesses(notes, p)
    PROVE  w \in Notes /\ Fits(w, p)
<1>1. secret \in Scalars
  BY DEF TabsInv, TabsTyped
<1> HIDE DEF G
<1>2. CASE notes # Absent /\ Fits(notes, p)
  BY <1>2 DEF Witnesses
<1>3. CASE ~(notes # Absent /\ Fits(notes, p)) /\ p # Absent
  <2>1. PICK r \in Scalars : p.a = G(r)
    BY <1>3 DEF Committed
  <2>2. ExponentOf(Y) = secret /\ ExponentOf(p.a) = r
    BY <1>1, <2>1, ExponentIsIt DEF Y
  <2>3. w = [x |-> secret, r |-> r]
    BY <1>3, <2>2 DEF Witnesses, Recovered
  <2> QED BY <1>1, <2>1, <2>3 DEF Notes, Fits, Y
<1>4. CASE ~(notes # Absent /\ Fits(notes, p)) /\ p = Absent
  <2>1. ExponentOf(Y) = secret
    BY <1>1, ExponentIsIt DEF Y
  <2>2. PICK r \in Draws : w = [x |-> secret, r |-> r]
    BY <1>4, <2>1 DEF Witnesses
  <2> QED BY <1>1, <1>4, <2>2, WitnessBounds DEF Notes, Fits, Y
<1> QED BY <1>2, <1>3, <1>4

\* What the effect of a tab with p leaves on its screen and in its store.
EffectKeeps(t, p) ==
    /\ witness' \in [Tabs -> Notes \cup {Absent}] /\ stored' \in [Tabs -> Notes \cup {Absent}]
    /\ \A u \in Tabs : u # t => witness'[u] = witness[u] /\ stored'[u] = stored[u]
    /\ OfSecret(witness'[t]) /\ OfSecret(stored'[t])
    /\ p # Absent => witness'[t] # Absent /\ Fits(witness'[t], p)
    /\ p = Absent /\ keeps[t] => stored'[t] = witness'[t]

LEMMA EffectIsSound ==
    ASSUME TabsInv, NEW t \in Tabs, NEW p \in Proofs \cup {Absent}, Committed(p), Effect(t, p)
    PROVE  EffectKeeps(t, p)
<1>1. /\ secret \in Scalars
      /\ witness \in [Tabs -> Notes \cup {Absent}] /\ stored \in [Tabs -> Notes \cup {Absent}]
      /\ OfSecret(witness[t]) /\ OfSecret(stored[t])
  BY DEF TabsInv, TabsTyped
<1> DEFINE stays == witness[t] # Absent /\ p # Absent /\ mounted[t] /\ Fits(witness[t], p)
           found == Witnesses(stored[t], p)
<1>2. CASE stays
  BY <1>1, <1>2 DEF Effect, EffectKeeps
<1>3. CASE ~stays /\ found = {}
  <2>1. witness' = [witness EXCEPT ![t] = Absent] /\ stored' = stored
    BY <1>3 DEF Effect
  <2>2. p = Absent
    BY <1>3 DEF Witnesses, Recovered
  <2>3. stored[t] = Absent
    <3>1. ~(stored[t] # Absent /\ Fits(stored[t], p))
      BY <1>3 DEF Witnesses
    <3> QED BY <1>1, <2>2, <3>1 DEF OfSecret, Fits, Y
  <2> QED BY <1>1, <2>1, <2>2, <2>3 DEF EffectKeeps, OfSecret
<1>4. CASE ~stays /\ found # {}
  <2>1. PICK w \in found :
           /\ witness' = [witness EXCEPT ![t] = w]
           /\ stored' = IF keeps[t] /\ (p = Absent \/ w = stored[t])
                        THEN [stored EXCEPT ![t] = w] ELSE stored
    BY <1>4 DEF Effect
  <2>2. w \in Notes /\ Fits(w, p) /\ w # Absent /\ w.x = secret
    BY <1>1, <2>1, WitnessesFit, FitsMeans, NoteFields
  <2> HIDE DEF found, stays
  <2>3. witness' \in [Tabs -> Notes \cup {Absent}] /\ witness'[t] = w
        /\ \A u \in Tabs : u # t => witness'[u] = witness[u]
    BY <1>1, <2>1, <2>2
  <2>4. stored' \in [Tabs -> Notes \cup {Absent}] /\ stored'[t] \in {stored[t], w}
        /\ \A u \in Tabs : u # t => stored'[u] = stored[u]
    BY <1>1, <2>1, <2>2
  <2>5. p = Absent /\ keeps[t] => stored'[t] = w
    BY <1>1, <2>1, <2>2
  <2> QED BY <1>1, <2>2, <2>3, <2>4, <2>5 DEF EffectKeeps, OfSecret
<1> QED BY <1>2, <1>3, <1>4

LEMMA MountKeeps ==
    ASSUME TabsInv, NEW t \in Tabs, Mount(t)
    PROVE  TabsInv'
<1>1. known[t] \in Proofs \cup {Absent} /\ Committed(known[t])
  BY DEF TabsInv, TabsTyped, Committed, SameProof
<1>2. EffectKeeps(t, known[t])
  BY <1>1, EffectIsSound DEF Mount
<1>3. UNCHANGED <<secret, proof, hit, ruled, known, keeps>>
      /\ mounted' = [mounted EXCEPT ![t] = TRUE]
  BY DEF Mount
<1>4. TabsTyped'
  BY <1>2, <1>3 DEF TabsInv, TabsTyped, EffectKeeps
<1>5. Committed(proof)' /\ StepsVerify'
  BY <1>3 DEF TabsInv, Committed, StepsVerify
<1>6. \A u \in Tabs : SameProof(known[u], proof)' /\ OfSecret(witness[u])' /\ OfSecret(stored[u])'
  BY <1>2, <1>3 DEF TabsInv, SameProof, OfSecret, EffectKeeps
<1>7. Finishable'
  BY <1>2, <1>3 DEF TabsInv, TabsTyped, Finishable, Matches, Fits, Y, EffectKeeps
<1>8. NumberKept'
  BY <1>2, <1>3 DEF TabsInv, TabsTyped, NumberKept, EffectKeeps
<1> QED BY <1>4, <1>5, <1>6, <1>7, <1>8 DEF TabsInv

LEMMA LeaveKeeps ==
    ASSUME TabsInv, NEW t \in Tabs, Leave(t)
    PROVE  TabsInv'
<1>1. TabsTyped'
  BY DEF TabsInv, TabsTyped, Leave
<1>2. Committed(proof)' /\ StepsVerify'
  BY DEF TabsInv, Committed, StepsVerify, Leave
<1>3. \A u \in Tabs : SameProof(known[u], proof)' /\ OfSecret(witness[u])' /\ OfSecret(stored[u])'
  BY DEF TabsInv, TabsTyped, SameProof, OfSecret, Leave
<1>4. Finishable' /\ NumberKept'
  BY DEF TabsInv, TabsTyped, Finishable, NumberKept, Matches, Fits, Y, Leave
<1> QED BY <1>1, <1>2, <1>3, <1>4 DEF TabsInv

LEMMA ReadKeeps ==
    ASSUME TabsInv, NEW t \in Tabs, Read(t)
    PROVE  TabsInv'
<1>1. /\ proof \in Proofs \cup {Absent} /\ Committed(proof) /\ known[t] # proof
      /\ known \in [Tabs -> Proofs \cup {Absent}] /\ SameProof(known[t], proof)
      /\ witness \in [Tabs -> Notes \cup {Absent}] /\ stored \in [Tabs -> Notes \cup {Absent}]
  BY DEF TabsInv, TabsTyped, Read
<1>2. UNCHANGED <<secret, proof, hit, ruled, mounted, keeps>>
      /\ known' = [known EXCEPT ![t] = proof]
  BY DEF Read, Learn
<1>3. proof # Absent
  BY <1>1 DEF SameProof
<1>4. Committed(proof)' /\ StepsVerify'
  BY <1>2 DEF TabsInv, Committed, StepsVerify
<1>5. \A u \in Tabs : SameProof(known[u], proof)'
  BY <1>1, <1>2 DEF TabsInv, SameProof
<1>6. CASE mounted[t] /\ known[t] = Absent
  <2>1. EffectKeeps(t, proof)
    BY <1>1, <1>3, <1>6, EffectIsSound DEF Read, Learn
  <2>2. TabsTyped'
    BY <1>1, <1>2, <2>1 DEF TabsInv, TabsTyped, EffectKeeps
  <2>3. \A u \in Tabs : OfSecret(witness[u])' /\ OfSecret(stored[u])'
    BY <1>2, <2>1 DEF TabsInv, OfSecret, EffectKeeps
  <2>4. Finishable'
    BY <1>1, <1>2, <1>3, <2>1 DEF TabsInv, Finishable, Matches, Fits, Y, EffectKeeps
  <2>5. NumberKept'
    BY <1>1, <1>2, <1>3, <2>1 DEF TabsInv, NumberKept, EffectKeeps
  <2> QED BY <1>4, <1>5, <2>2, <2>3, <2>4, <2>5 DEF TabsInv
<1>7. CASE ~(mounted[t] /\ known[t] = Absent)
  <2>1. UNCHANGED <<witness, stored>>
    BY <1>3, <1>7 DEF Read, Learn
  <2>2. TabsTyped'
    BY <1>1, <1>2, <2>1 DEF TabsInv, TabsTyped
  <2>3. \A u \in Tabs : OfSecret(witness[u])' /\ OfSecret(stored[u])'
    BY <1>2, <2>1 DEF TabsInv, OfSecret
  <2>4. Finishable'
    BY <1>1, <1>2, <1>7, <2>1 DEF TabsInv, Finishable, Matches, Fits, Y, SameProof
  <2>5. NumberKept'
    BY <1>1, <1>2, <1>3, <2>1 DEF TabsInv, NumberKept
  <2> QED BY <1>4, <1>5, <2>1, <2>2, <2>3, <2>4, <2>5 DEF TabsInv
<1> QED BY <1>6, <1>7

LEMMA CommitKeeps ==
    ASSUME TabsInv, NEW t \in Tabs, Commit(t)
    PROVE  TabsInv'
<1>1. /\ secret \in Scalars /\ proof \in Proofs \cup {Absent}
      /\ known \in [Tabs -> Proofs \cup {Absent}] /\ keeps \in [Tabs -> BOOLEAN]
      /\ witness \in [Tabs -> Notes \cup {Absent}] /\ stored \in [Tabs -> Notes \cup {Absent}]
      /\ \A u \in Tabs : SameProof(known[u], proof) /\ OfSecret(witness[u]) /\ OfSecret(stored[u])
  BY DEF TabsInv, TabsTyped
<1>2. /\ mounted[t] /\ known[t] = Absent /\ witness[t] # Absent
      /\ UNCHANGED <<secret, hit, ruled, mounted, keeps, witness>>
      /\ stored' = IF keeps[t] THEN [stored EXCEPT ![t] = witness[t]] ELSE stored
      /\ \/ proof = Absent /\ known' = [known EXCEPT ![t] = proof']
         \/ UNCHANGED known
  BY DEF Commit
<1>3. PICK e \in Challenges : proof' = Fixes([a |-> G(witness[t].r), e |-> e, used |-> FALSE])
  BY DEF Commit
<1> DEFINE fresh == [a |-> G(witness[t].r), e |-> e, used |-> FALSE]
<1>4. witness[t] \in Notes /\ witness[t].r \in Scalars /\ witness[t].x = secret
  BY <1>1, <1>2, NoteFields DEF OfSecret
<1>5. fresh \in Proofs /\ fresh # Absent /\ fresh.a = G(witness[t].r) /\ fresh.used = FALSE
  BY <1>4, GType, WitnessBounds, ProofFields DEF Proofs
<1>6. proof' = IF proof = Absent THEN fresh ELSE proof
  BY <1>3 DEF Fixes
<1> HIDE DEF fresh
<1>7. proof' \in Proofs /\ proof' # Absent /\ Committed(proof)'
  BY <1>1, <1>4, <1>5, <1>6, ProofFields DEF TabsInv, Committed
<1>8. known' \in [Tabs -> Proofs \cup {Absent}]
  BY <1>1, <1>2, <1>7
<1>9. stored' \in [Tabs -> Notes \cup {Absent}] /\ (keeps[t] => stored'[t] = witness[t])
      /\ \A u \in Tabs : u # t => stored'[u] = stored[u]
  BY <1>1, <1>2
<1>10. TabsTyped'
  BY <1>2, <1>7, <1>8, <1>9 DEF TabsInv, TabsTyped
<1>11. StepsVerify'
  BY <1>2, <1>5, <1>6 DEF TabsInv, StepsVerify
<1>12. \A u \in Tabs : SameProof(known[u], proof)'
  BY <1>1, <1>2, <1>6, <1>7 DEF SameProof
<1>13. \A u \in Tabs : OfSecret(witness[u])' /\ OfSecret(stored[u])'
  BY <1>1, <1>2, <1>9 DEF OfSecret
<1>14. Finishable'
  <2> SUFFICES ASSUME NEW u \in Tabs, mounted'[u], known'[u] # Absent PROVE Matches(u)'
    BY DEF Finishable
  <2>1. CASE known' = known
    BY <1>2, <2>1 DEF TabsInv, Finishable, Matches, Fits, Y
  <2>2. CASE known' # known /\ u # t
    BY <1>1, <1>2, <2>2 DEF TabsInv, Finishable, Matches, Fits, Y
  <2>3. CASE known' # known /\ u = t
    <3>1. known'[t] = fresh
      BY <1>1, <1>2, <1>6, <2>3
    <3> QED BY <1>2, <1>4, <1>5, <2>3, <3>1 DEF Matches, Fits, Y
  <2> QED BY <2>1, <2>2, <2>3
<1>15. NumberKept'
  <2> SUFFICES ASSUME NEW u \in Tabs, mounted'[u], known'[u] = Absent, keeps'[u]
               PROVE  stored'[u] = witness'[u]
    BY DEF NumberKept
  <2>1. known[u] = Absent
    BY <1>1, <1>2, <1>7
  <2> QED BY <1>2, <1>9, <2>1 DEF TabsInv, NumberKept
<1> QED BY <1>7, <1>10, <1>11, <1>12, <1>13, <1>14, <1>15 DEF TabsInv

LEMMA RespondKeeps ==
    ASSUME TabsInv, NEW t \in Tabs, Respond(t)
    PROVE  TabsInv'
<1> DEFINE right == Response(witness[t], known[t].e)
<1>1. /\ secret \in Scalars /\ proof \in Proofs \cup {Absent} /\ known[t] \in Proofs \cup {Absent}
      /\ witness[t] \in Notes \cup {Absent} /\ SameProof(known[t], proof)
  BY DEF TabsInv, TabsTyped
<1>2. known[t] # Absent /\ proof # Absent /\ witness[t] # Absent /\ Fits(witness[t], known[t])
      /\ UNCHANGED <<secret, mounted, known, witness, stored, keeps>>
  BY DEF Respond, Matches
<1>3. PICK z \in {right, (right + 1) % 11} :
        /\ proof' = [proof EXCEPT !.used = TRUE]
        /\ hit' = Verifies(proof.a, proof.e, z)
        /\ ruled' = (z = right)
  BY DEF Respond
<1>4. /\ proof' \in Proofs /\ proof'.a = proof.a /\ proof'.e = proof.e /\ proof'.used = TRUE
      /\ proof' # Absent
  <2>1. proof \in Proofs
    BY <1>1, <1>2
  <2>2. proof' \in Proofs /\ proof'.a = proof.a /\ proof'.e = proof.e /\ proof'.used = TRUE
    BY <1>3, <2>1 DEF Proofs
  <2> QED BY <2>2, ProofFields
<1> DEFINE r == witness[t].r
           e == proof.e
<1>5. /\ witness[t].x = secret /\ r \in Scalars /\ e \in Scalars
      /\ proof.a = G(r) /\ known[t].e = e
  BY <1>1, <1>2, FitsMeans, NoteFields, ProofFields DEF SameProof
<1>6. right = (r + e * secret) % 11
  BY <1>5 DEF Response
<1> HIDE DEF r, e, right
<1>7. right \in Scalars /\ z \in Scalars
  <2>1. r + e * secret \in Int
    BY <1>1, <1>5 DEF Scalars
  <2>2. right \in Scalars
    BY <1>6, <2>1 DEF Scalars
  <2>3. (right + 1) % 11 \in Scalars
    BY <2>2 DEF Scalars
  <2> QED BY <1>3, <2>2, <2>3
<1>8. Verifies(proof.a, e, z) <=> (z = right)
  BY <1>1, <1>5, <1>6, <1>7, OneResponse DEF Verifies, Y
<1>9. hit' = ruled' /\ ruled' \in BOOLEAN
  BY <1>3, <1>8 DEF e, Verifies
<1>10. TabsTyped'
  BY <1>2, <1>4, <1>9 DEF TabsInv, TabsTyped
<1>11. StepsVerify'
  BY <1>9 DEF StepsVerify
<1>12. Committed(proof)' /\ \A u \in Tabs : SameProof(known[u], proof)'
  BY <1>2, <1>4 DEF TabsInv, Committed, SameProof
<1>13. \A u \in Tabs : OfSecret(witness[u])' /\ OfSecret(stored[u])'
  BY <1>2 DEF TabsInv, OfSecret
<1>14. Finishable' /\ NumberKept'
  BY <1>2 DEF TabsInv, Finishable, NumberKept, Matches, Fits, Y
<1> QED BY <1>10, <1>11, <1>12, <1>13, <1>14 DEF TabsInv

\* For any number of tabs, any secrets, draws and challenges: whichever tab a commitment was
\* sent from, every tab that knows of it can finish the proof, whoever follows the steps on
\* screen is told so, and the number on screen outlives a reload where the browser stores
\* (portal/schnorr-witness.ts:11-32, game/src/schnorr.ts:17-19).
THEOREM ProofsAreSound == TabsSpec => []ProofsSound
<1>1. TabsInv /\ [TabsNext]_witnessVars => TabsInv'
  <2> SUFFICES ASSUME TabsInv, [TabsNext]_witnessVars PROVE TabsInv'
    OBVIOUS
  <2>1. CASE TabsNext
    BY <2>1, MountKeeps, LeaveKeeps, ReadKeeps, CommitKeeps, RespondKeeps DEF TabsNext
  <2>2. CASE UNCHANGED witnessVars
    BY <2>2 DEF witnessVars, TabsInv, TabsTyped, Committed, SameProof, OfSecret, Finishable,
                StepsVerify, NumberKept, Matches, Fits, Y
  <2> QED BY <2>1, <2>2
<1>2. TabsInv => ProofsSound
  BY DEF TabsInv, ProofsSound
<1> QED BY <1>1, <1>2, InitTabsInv, PTL DEF TabsSpec
=============================================================================
