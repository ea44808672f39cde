----------------------------- MODULE FirstRequest -----------------------------
(***************************************************************************)
(* The server of every StackStack problem (server.mjs) with the scenario       *)
(* "first-request" (scenarios/first-request.mjs): which requests are answered,   *)
(* how a body that arrives in pieces is read, what the process says of its own    *)
(* health, and what /verify credits. A token is worth submitting because it is    *)
(* told in one answer only. The board's posts and settings are in StackBoard.    *)
(***************************************************************************)
EXTENDS Integers, FiniteSets

CONSTANTS
    Slots,      \* bound: requests under way at once
    Visited,    \* bound: the routes the players use
    MaxBody,    \* MAX_BODY_BYTES, in pieces
    MaxFaults,  \* the faults that are kept: 20
    MaxEntries  \* bound: signatures in the guestbook

\* What the constants have to satisfy.
FrontBounds == MaxBody \in Nat /\ MaxFaults \in Nat \ {0} /\ MaxEntries \in Nat

VARIABLES
    inbox,      \* the request in each slot, while it is under way
    observed,   \* the routes that were asked for
    doorOpened, entries, proven,
    faults, faulted,  \* the faults kept; history: how many there were since the start
    told        \* history: the tokens that the players have been told

frontVars == <<inbox, observed, doorOpened, entries, proven, faults, faulted, told>>

-----------------------------------------------------------------------------
(* The surface.  A route is its method and its path.                         *)

SCENARIO_ROUTES ==
    {"GET/api/postcard", "GET/api/door", "GET/api/guestbook", "POST/api/guestbook"}
PAGES == {"GET/", "GET/docs", "GET/openapi.json"}
\* The scenario has neither settings nor a source of its own to edit.
BASE_ROUTES ==
    PAGES \cup {"GET/healthz", "GET/api/board", "GET/api/logs", "GET/posture", "POST/api/posts",
                "GET/api/config", "PATCH/api/config", "DELETE/api/config"}
ROUTES == BASE_ROUTES \cup SCENARIO_ROUTES

\* openApiPaths: the statuses that the exercise announces.
Announced ==
    [route \in SCENARIO_ROUTES |->
        CASE route = "GET/api/door" -> {200, 400}
          [] route = "POST/api/guestbook" -> {201, 400, 413}
          [] OTHER -> {200}]

\* openApiDocument: what the console can try, the scenario's part last.
Documented ==
    {"GET/api/board", "GET/api/config", "PATCH/api/config", "DELETE/api/config",
     "POST/api/posts", "GET/api/logs", "GET/posture", "GET/healthz"} \cup DOMAIN Announced

\* The console shows every route but the pages, and none that is not there; a scenario that
\* took one of the board's routes would not boot.
SurfaceWhole == Documented = ROUTES \ PAGES /\ BASE_ROUTES \cap SCENARIO_ROUTES = {}

-----------------------------------------------------------------------------
(* The gates and the checks.                                                 *)

Gates ==
    [postcard |-> "GET/api/postcard" \in observed \/ "postcard" \in proven,
     door |-> doorOpened \/ "door" \in proven,
     receipt |-> entries > 0 \/ "receipt" \in proven]
Ready == \A gate \in DOMAIN Gates : Gates[gate]

\* What each checkpoint wants to hear; ids that every object inherits are nobody's.
Checks == [postcard |-> "postcard", lockedDoor |-> "door", guestbook |-> "receipt",
           roundTrip |-> "ready"]
Correct(id, submission) ==
    id \in DOMAIN Checks /\ submission = Checks[id] /\ (id = "roundTrip" => Ready)

-----------------------------------------------------------------------------
Free == [route |-> "none", pieces |-> 0, paused |-> FALSE, settled |-> FALSE, status |-> 0, answers |-> 0]
Busy(s) == inbox[s] # Free

Init ==
    /\ inbox = [s \in Slots |-> Free]
    /\ observed = {} /\ doorOpened = FALSE /\ entries = 0 /\ proven = {}
    /\ faults = 0 /\ faulted = 0
    /\ told = {}

Observe(route) == observed' = observed \cup ({route} \cap ROUTES)
Tell(tokens) == told' = told \cup tokens

\* The settings are well (StackBoard: ConfigOk).
Well == faults = 0

\* A request without a body is answered at once.
Get(route, tokens) ==
    /\ route \in Visited
    /\ Observe(route) /\ Tell(tokens)
    /\ UNCHANGED <<inbox, entries, proven, faults, faulted>>

Look(route) ==
    /\ Get(route, IF route = "GET/api/postcard" THEN {"postcard"}
                  ELSE IF route = "GET/posture" /\ Ready THEN {"ready"} ELSE {})
    /\ UNCHANGED doorOpened

\* The door takes the token of the postcard.
DoorStatus(key) == IF key = "postcard" THEN 200 ELSE 400
Door(key) ==
    /\ Get("GET/api/door", IF DoorStatus(key) = 200 THEN {"door"} ELSE {})
    /\ doorOpened' = (doorOpened \/ DoorStatus(key) = 200)

\* GET /healthz, of which no gate hears.
Healthz == IF Well THEN 200 ELSE 503

-----------------------------------------------------------------------------
(* Bodies.  readJson settles once: on too many bytes, at the end, or when the *)
(* connection fails; what happens to the stream afterwards changes nothing.   *)

Waiting(s) == Busy(s) /\ ~inbox[s].settled

Ask(s, route) ==
    /\ ~Busy(s) /\ route \in Visited
    /\ route = "POST/api/guestbook" => entries < MaxEntries
    /\ inbox' = [inbox EXCEPT ![s].route = route]
    /\ Observe(route)
    /\ UNCHANGED <<doorOpened, entries, proven, faults, faulted, told>>

Settled(s, request, status) ==
    inbox' = [inbox EXCEPT ![s] =
                IF request.settled THEN request
                ELSE [request EXCEPT !.settled = TRUE, !.status = status, !.answers = @ + 1]]

\* The guestbook signs in a body with a name and a message.
Sign(s, request, body) ==
    LET taken == body = "signed"
    IN  /\ request.route = "POST/api/guestbook"
        /\ Settled(s, request, IF body = "oversized" THEN 413 ELSE IF taken THEN 201 ELSE 400)
        /\ entries' = entries + IF taken THEN 1 ELSE 0
        /\ Tell(IF taken THEN {"receipt"} ELSE {})
        /\ UNCHANGED proven

\* /verify reads a missing or unreadable body as an empty one; it echoes the id it was
\* asked about, and remembers a right answer for the gate it belongs to.
Verify(s, request, body, id, submission) ==
    LET asked == IF body = "signed" THEN id ELSE ""
        correct == Correct(asked, submission)
    IN  /\ request.route = "POST/verify"
        /\ Settled(s, request, IF asked \in DOMAIN Checks THEN 200 ELSE 400)
        /\ proven' = proven \cup (IF correct THEN {submission} \ {"ready"} ELSE {})
        /\ UNCHANGED <<entries, told>>

Handle(s, request, body) ==
    \/ Sign(s, request, body)
    \/ \E id \in DOMAIN Checks \cup {"constructor"}, submission \in told \cup {"guess"} :
          Verify(s, request, body, id, submission)

Piece(s) ==
    /\ Waiting(s) /\ ~inbox[s].paused /\ inbox[s].pieces <= MaxBody
    /\ LET more == [inbox[s] EXCEPT !.pieces = @ + 1]
       IN  IF more.pieces > MaxBody
           THEN Handle(s, [more EXCEPT !.paused = TRUE], "oversized")
           ELSE /\ inbox' = [inbox EXCEPT ![s] = more]
                /\ UNCHANGED <<entries, proven, told>>
    /\ UNCHANGED <<observed, doorOpened, faults, faulted>>

EndOfBody(s, body) ==
    /\ Waiting(s) /\ ~inbox[s].paused
    /\ body # "malformed" => inbox[s].pieces > 0
    /\ Handle(s, inbox[s], body)
    /\ UNCHANGED <<observed, doorOpened, faults, faulted>>

\* The connection fails, before the body was read or after.
Failed(s) ==
    /\ Busy(s)
    /\ IF Waiting(s) THEN Handle(s, inbox[s], "unread")
       ELSE Settled(s, inbox[s], 400) /\ UNCHANGED <<entries, proven, told>>
    /\ UNCHANGED <<observed, doorOpened, faults, faulted>>

Done(s) ==
    /\ inbox[s].settled
    /\ inbox' = [inbox EXCEPT ![s] = Free]
    /\ UNCHANGED <<observed, doorOpened, entries, proven, faults, faulted, told>>

-----------------------------------------------------------------------------
\* recordFault: the process goes on, and keeps the last faults.
Fault ==
    /\ faulted <= MaxFaults
    /\ faulted' = faulted + 1
    /\ faults' = IF faults + 1 > MaxFaults THEN MaxFaults ELSE faults + 1
    /\ UNCHANGED <<inbox, observed, doorOpened, entries, proven, told>>

\* A new process of the same deployment: the tokens are the same, the memory is gone.
Restart ==
    /\ inbox' = [s \in Slots |-> Free]
    /\ observed' = {} /\ doorOpened' = FALSE /\ entries' = 0 /\ proven' = {}
    /\ faults' = 0 /\ faulted' = 0
    /\ UNCHANGED <<told>>

Next ==
    \/ \E route \in {"GET/api/postcard", "GET/posture"} : Look(route)
    \/ \E key \in {"", "wrong"} \cup (told \cap {"postcard"}) : Door(key)
    \/ \E s \in Slots :
          \/ \E route \in {"POST/api/guestbook", "POST/verify"} : Ask(s, route)
          \/ Piece(s)
          \/ \E body \in {"malformed", "incomplete", "signed"} :
                EndOfBody(s, body)
          \/ Failed(s)
          \/ Done(s)
    \/ Fault \/ Restart

Spec == Init /\ [][Next]_frontVars

-----------------------------------------------------------------------------
(* Properties.                                                              *)

TypeOK ==
    /\ observed \subseteq ROUTES /\ entries \in Nat /\ faults \in 0..MaxFaults
    /\ proven \subseteq {"postcard", "door", "receipt"}
    /\ told \subseteq {"postcard", "door", "receipt", "ready"}

\* However its body arrives, breaks off or overflows, a request is answered once
\* (server.mjs:75-98).
AnsweredOnce ==
    \A s \in Slots : Busy(s) => inbox[s].answers = IF inbox[s].settled THEN 1 ELSE 0

\* A process that has had a fault does not call itself well again, whatever the list of
\* faults has forgotten (server.mjs:562-564).
FaultsShow == Healthz = 200 => faulted = 0

\* The token of the round trip is told only to those who have had all three conversations,
\* in this process or in one before it (first-request.mjs:103-104).
LapEarned == "ready" \in told => {"postcard", "door", "receipt"} \subseteq told

\* The exercise answers nothing that its contract does not announce (first-request.mjs:225).
ContractKept ==
    /\ \A key \in told \cup {""} : DoorStatus(key) \in Announced["GET/api/door"]
    /\ \A s \in Slots :
          inbox[s].route \in SCENARIO_ROUTES /\ inbox[s].settled
             => inbox[s].status \in Announced[inbox[s].route]

FrontSafe == SurfaceWhole /\ AnsweredOnce /\ FaultsShow /\ LapEarned /\ ContractKept
================================================================================
