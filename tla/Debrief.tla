------------------------------- MODULE Debrief -------------------------------
(***************************************************************************)
(* The debrief of a crypto battle (replay.ts buildReplay and keyMoments): a   *)
(* time line put together, whenever an organizer asks for it, from what the   *)
(* row of the match still holds.  The moves that leave a trace are here; what *)
(* makes them legal is in MatchClock, HuntSlots and HuntRecords.  An event is *)
(* [at, kind, who, what]; the wording of its summary is left out.            *)
(***************************************************************************)
EXTENDS Integers, Sequences, FiniteSets, SequencesExt, TLC

CONSTANTS
    Roster,      \* the teams, in the order of the row
    Reports,     \* the lengths the platform may report
    Indices,     \* the indices of a team's shares
    Threshold,   \* how many distinct shares rebuild a secret
    Kinds,       \* the kinds of artifact that are posted besides shares
    Cooldown,    \* rotateCooldownMs
    Horizon,     \* bound: the last instant
    MaxMoves,    \* bound: the moves of a match
    None

Teams == {Roster[i] : i \in DOMAIN Roster}

\* Every kind the ledger may hold, and what the debrief calls it.  Who reads the time line
\* asks what a team did, not by which scheme.
Called ==
    [share |-> "leak", proof |-> "prove", ciphertext |-> "fhe", partial |-> "mpc"]
    @@ ("sudoku-reveal" :> "prove") @@ ("rps-commit" :> "rps-commit")
    @@ ("rps-open" :> "rps-open") @@ ("cipher-pair" :> "cipher-leak")
    @@ ("rsa-pair" :> "cipher-leak") @@ ("rotor-pair" :> "cipher-leak")

DebriefBounds ==
    /\ Cooldown \in Nat \ {0} /\ Horizon \in Nat /\ MaxMoves \in Nat
    /\ Kinds \subseteq DOMAIN Called /\ Threshold \in 1..Cardinality(Indices)

VARIABLES
    match,   \* the row: clock, timing, ledger, HUNT log, generations, last rotations
    told,    \* history: every move, as it was made
    marks,   \* history: the instants at which a secret gave way, or was replaced
    held     \* history: the phases during which time went by

debriefVars == <<match, told, marks, held>>

Artifacts == [team : Teams, gen : Nat \ {0}, kind : DOMAIN Called, order : Nat,
              share : Indices \cup {None}, at : Nat]
Successes == [by : Teams, on : Teams, gen : Nat \ {0},
              via : {"none", "sudoku", "rsa", "rotor"}, at : Nat]

-----------------------------------------------------------------------------
(* buildReplay.                                                             *)

Event(at, kind, who, what) == [at |-> at, kind |-> kind, who |-> who, what |-> what]

ArtifactEvent(a) ==
    Event(a.at, Called[a.kind], a.team,
          IF a.kind = "share" THEN <<a.order, a.gen, a.share>> ELSE <<a.order, a.gen>>)
HuntEvent(h) == Event(h.at, "hunt-success", h.by, <<h.on, h.gen, h.via>>)

\* Of the rotations of a team the row remembers the last.
RotateEvents(m) ==
    LET turned == SelectSeq(Roster, LAMBDA t : m.gen[t] > 1 /\ m.rotated[t] # None)
    IN  [i \in DOMAIN turned |->
            Event(m.rotated[turned[i]], "rotate", turned[i], <<m.gen[turned[i]]>>)]

\* Boundaries stand since START, and a reported end can come before one of them.
Begins(m, boundary) ==
    /\ boundary.what = <<"ended">> \/ boundary.at < m.start + m.length
    /\ boundary.at <= m.now
PhaseEvents(m) ==
    IF m.start = None THEN <<>>
    ELSE SelectSeq(<<Event(m.start + m.toPressure, "phase-change", None, <<"pressure">>),
                     Event(m.start + m.toEndgame, "phase-change", None, <<"endgame">>),
                     Event(m.start + m.length, "phase-change", None, <<"ended">>)>>,
                   LAMBDA boundary : Begins(m, boundary))

\* The sort is stable: events of one instant keep the order they were listed in.
Chronological(events) ==
    LET order == SortSeq([i \in DOMAIN events |-> i], LAMBDA i, j :
                    events[i].at < events[j].at \/ (events[i].at = events[j].at /\ i < j))
    IN  [i \in DOMAIN events |-> events[order[i]]]

BuildReplay(m) ==
    Chronological([i \in DOMAIN m.ledger |-> ArtifactEvent(m.ledger[i])]
                  \o [i \in DOMAIN m.hunts |-> HuntEvent(m.hunts[i])]
                  \o RotateEvents(m) \o PhaseEvents(m))

-----------------------------------------------------------------------------
(* keyMoments.                                                              *)

\* The shares of one secret that were open after the i-th event.
OpenAfter(replay, i, who, gen) ==
    {replay[j].what[3] : j \in {k \in 1..i : /\ replay[k].kind = "leak"
                                             /\ replay[k].who = who
                                             /\ replay[k].what[2] = gen}}
Crosses(replay, i) ==
    LET e == replay[i]
    IN  /\ e.kind = "leak"
        /\ Cardinality(OpenAfter(replay, i - 1, e.who, e.what[2])) < Threshold
        /\ Cardinality(OpenAfter(replay, i, e.who, e.what[2])) = Threshold

Worthless(m, who, gen) ==
    {a.share : a \in {b \in ToSet(m.ledger) : b.kind = "share" /\ b.team = who /\ b.gen = gen}}

KeyMoments(replay, m) ==
    LET crossing == SelectSeq([i \in DOMAIN replay |-> i], LAMBDA i : Crosses(replay, i))
        turning == SelectSeq(replay, LAMBDA e : e.kind = "rotate")
    IN  Chronological(
          [i \in DOMAIN crossing |->
              LET e == replay[crossing[i]]
              IN  Event(e.at, "threshold-crossed", e.who, <<e.what[2], Threshold>>)]
          \o [i \in DOMAIN turning |->
              LET e == turning[i]
              IN  Event(e.at, "rotate-invalidated-leaks", e.who,
                    <<Cardinality(Worthless(m, e.who, e.what[1] - 1)), e.what[1] - 1>>)])

-----------------------------------------------------------------------------
(* The match behind it.                                                     *)

Init ==
    /\ match = [now |-> 0, start |-> None, length |-> 0, toPressure |-> 0, toEndgame |-> 0,
                phase |-> "waiting", ledger |-> <<>>, hunts |-> <<>>,
                gen |-> [t \in Teams |-> 1], rotated |-> [t \in Teams |-> None]]
    /\ told = <<>> /\ marks = {} /\ held = {}

ComputePhase(m, at) ==
    CASE at >= m.start + m.length -> "ended"
      [] at >= m.start + m.toEndgame -> "endgame"
      [] at >= m.start + m.toPressure -> "pressure"
      [] OTHER -> "build"

\* START fixes the phases from the time that is left of the reported length.
Begin(reported) ==
    LET left == reported - match.now
    IN  /\ match.start = None
        /\ left >= 3        \* bound: each phase lasts at least one unit
        /\ match' = [match EXCEPT !.start = match.now, !.length = left, !.toPressure = left \div 3,
                                  !.toEndgame = (2 * left) \div 3, !.phase = "build"]
        /\ UNCHANGED <<told, marks, held>>

\* A report moves the end and nothing else; it never moves it into the past.
Tick(by, reported) ==
    LET open == match.start # None /\ match.phase # "ended"
        m == IF open THEN [match EXCEPT !.length = reported - match.start] ELSE match
    IN  /\ match.now + by <= Horizon
        /\ open => reported >= match.now
        /\ match' = [m EXCEPT !.now = @ + by,
                       !.phase = IF m.start = None THEN "waiting" ELSE ComputePhase(m, m.now + by)]
        /\ held' = held \cup (IF m.start = None THEN {}
                              ELSE {ComputePhase(m, at) : at \in m.now..(m.now + by - 1)})
        /\ UNCHANGED <<told, marks>>

Playing == match.start # None /\ match.phase # "ended" /\ Len(told) < MaxMoves

Open(t) == Worthless(match, t, match.gen[t])

\* An Order is answered: publish appends to the ledger.
Post(t, kind, share) ==
    LET a == [team |-> t, gen |-> match.gen[t], kind |-> kind, order |-> Len(match.ledger),
              share |-> share, at |-> match.now]
        opens == /\ kind = "share" /\ Cardinality(Open(t)) < Threshold
                 /\ Cardinality(Open(t) \cup {share}) >= Threshold
    IN  /\ Playing
        /\ match' = [match EXCEPT !.ledger = Append(@, a)]
        /\ told' = Append(told, ArtifactEvent(a))
        /\ marks' = IF opens
                    THEN marks \cup {Event(match.now, "threshold-crossed", t,
                                           <<match.gen[t], Threshold>>)}
                    ELSE marks
        /\ UNCHANGED held

\* A HUNT that lands, on the current generation of another team.
Hunt(t, on, via) ==
    LET h == [by |-> t, on |-> on, gen |-> match.gen[on], via |-> via, at |-> match.now]
    IN  /\ Playing
        /\ t # on
        /\ via = "none" => Cardinality(Open(on)) >= Threshold
        /\ \A i \in DOMAIN match.hunts :
               ~(match.hunts[i].by = t /\ match.hunts[i].on = on
                   /\ match.hunts[i].gen = h.gen /\ match.hunts[i].via = via)
        /\ match' = [match EXCEPT !.hunts = Append(@, h)]
        /\ told' = Append(told, HuntEvent(h))
        /\ UNCHANGED <<marks, held>>

Rotate(t) ==
    /\ Playing
    /\ match.rotated[t] # None => match.now - match.rotated[t] >= Cooldown
    /\ match' = [match EXCEPT !.gen[t] = @ + 1, !.rotated[t] = match.now]
    /\ told' = Append(told, Event(match.now, "rotate", t, <<match.gen[t] + 1>>))
    /\ marks' = marks \cup {Event(match.now, "rotate-invalidated-leaks", t,
                                  <<Cardinality(Open(t)), match.gen[t]>>)}
    /\ UNCHANGED held

Next ==
    \/ \E r \in Reports : Begin(r)
    \/ \E by \in 0..2, r \in Reports : Tick(by, r)
    \/ \E t \in Teams, i \in Indices : Post(t, "share", i)
    \/ \E t \in Teams, k \in Kinds : Post(t, k, None)
    \/ \E t, on \in Teams, via \in {"none", "sudoku"} : Hunt(t, on, via)
    \/ \E t \in Teams : Rotate(t)

-----------------------------------------------------------------------------
TypeOK ==
    /\ ToSet(match.ledger) \subseteq Artifacts
    /\ ToSet(match.hunts) \subseteq Successes
    /\ held \subseteq {"build", "pressure", "endgame", "ended"}

Remains(e) == e.kind = "rotate" => e.what = <<match.gen[e.who]>>
IsHunt(e) == e.kind = "hunt-success"
IsTurn(e) == e.kind = "rotate"
IsPhase(e) == e.kind = "phase-change"
IsPost(e) == ~(IsHunt(e) \/ IsTurn(e) \/ IsPhase(e))

\* The time line of a debrief, whenever it is asked for, is in order, tells every move of
\* the match once and in the order of the moves, but for the rotations a team has since
\* repeated, and tells nothing else (buildReplay).
TellsWhatHappened(replay) ==
    /\ \A i, j \in DOMAIN replay : i < j => replay[i].at <= replay[j].at
    /\ SelectSeq(replay, IsPost) = SelectSeq(told, IsPost)
    /\ SelectSeq(replay, IsHunt) = SelectSeq(told, IsHunt)
    /\ LET turns == SelectSeq(replay, IsTurn)
           kept == SelectSeq(told, LAMBDA e : IsTurn(e) /\ Remains(e))
       IN  Len(turns) = Len(kept) /\ ToSet(turns) = ToSet(kept)

\* A phase is in it exactly if time went by in that phase or it is the present one, however
\* the reported end has moved since the boundaries were fixed at START.
PhasesTold(replay) ==
    {e.what[1] : e \in {f \in ToSet(replay) : IsPhase(f)}}
        = (held \cup {match.phase}) \ {"waiting", "build"}

\* A team whose secret could be rebuilt is pointed out once, at the instant its threshold
\* was reached and not where a share was merely repeated, and a rotation with the number
\* of shares it made worthless at that instant (keyMoments).
MomentsTrue(replay) ==
    LET moments == KeyMoments(replay, match)
        remaining == {e \in marks : e.kind = "rotate-invalidated-leaks" =>
                                        e.what[2] = match.gen[e.who] - 1}
    IN  /\ ToSet(moments) = remaining
        /\ Len(moments) = Cardinality(remaining)
        /\ \A i, j \in DOMAIN moments : i < j => moments[i].at <= moments[j].at

DebriefSound ==
    LET replay == BuildReplay(match)
    IN  TypeOK /\ TellsWhatHappened(replay) /\ PhasesTold(replay) /\ MomentsTrue(replay)
=============================================================================
