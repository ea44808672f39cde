--------------------------------- MODULE Relay ---------------------------------
(***************************************************************************)
(* The archive relay of the StackStack scenario "observability"              *)
(* (scenarios/observability.mjs) with the board and the log it lives beside  *)
(* (board.mjs, log.mjs): posts are relayed by id out of a board that keeps   *)
(* its last ones, into a log that keeps its first lines and its last ones,   *)
(* under settings that are read again each time and stamp every line with    *)
(* the epoch they began.  Posts the board ships with are never relayed and   *)
(* are left out.                                                             *)
(***************************************************************************)
EXTENDS Integers, Sequences, FiniteSets

CONSTANTS
    Offered,    \* the settings the participant tries, each one that loads
    BoardKeeps, \* MAX_POSTS
    Prologue,   \* PROLOGUE_LINES left when the relay first looks
    LogKeeps,   \* MAX_LINES
    MaxPosts,   \* bound: posts written after a boot
    MaxEpochs   \* bound: settings tried after a boot

Details == {"full", "masked", "minimal", "safe"}
Dependencies == {"config", "archive"}
Settings == [logging : {"on", "off"}, probes : SUBSET Dependencies, detail : Details]
\* Settings that do not load, left by an edit of the mounted file or by a crash
\* between the writing of a rejected change and its rollback (server.mjs:223).
Bad == [logging |-> "off", probes |-> {}, detail |-> "none"]

RelayBounds ==
    /\ Offered \subseteq Settings
    /\ BoardKeeps \in Nat \ {0} /\ Prologue \in Nat /\ LogKeeps \in Nat \ {0}
    /\ MaxPosts \in Nat /\ MaxEpochs \in Nat

VARIABLES
    settings,   \* relay.json with its override: outlives a restart of the process
    seen,       \* epochKey
    epoch,      \* epoch
    served,     \* healthServedEpoch
    posts,      \* the board's posts by a participant, oldest first
    nextId,     \* the id of the next one
    lastRelayed,\* lastRelayedId
    counted,    \* relay_posts_total by result
    logged,     \* the log's prologue followed by its ring
    evicted,    \* history: posts that left the board before the relay looked
    watched     \* history: the settings GET /relay/healthz last answered by

relayVars == <<settings, seen, epoch, served, posts, nextId, lastRelayed, counted, logged,
               evicted, watched>>

Unread == [logging |-> "off", probes |-> {}, detail |-> "unread"]

Fresh ==
    /\ seen' = Unread /\ epoch' = 0 /\ served' = 0 /\ posts' = <<>> /\ nextId' = 1
    /\ lastRelayed' = 0 /\ counted' = [archived |-> 0, dropped |-> 0] /\ logged' = <<>>
    /\ evicted' = 0 /\ watched' = Unread

Init ==
    /\ settings \in Offered /\ seen = Unread /\ epoch = 0 /\ served = 0 /\ posts = <<>>
    /\ nextId = 1 /\ lastRelayed = 0 /\ counted = [archived |-> 0, dropped |-> 0]
    /\ logged = <<>> /\ evicted = 0 /\ watched = Unread

-----------------------------------------------------------------------------
(* The log: what has no part in the checkpoints is one kind of line.       *)

Other == [epoch |-> 0, result |-> "other", detail |-> "none"]

\* The first lines stay for good, the others while they are among the last.
Entered(lines, new) ==
    LET all == lines \o new
    IN  IF Len(all) <= Prologue + LogKeeps THEN all
        ELSE SubSeq(all, 1, Prologue) \o SubSeq(all, Len(all) - LogKeeps + 1, Len(all))

-----------------------------------------------------------------------------
(* The relay.                                                              *)

\* Posts not considered yet, by id: the front of the board moves.  They are in the order
\* of their ids, so these are the last ones.
Unseen(id) ==
    LET later == {i \in DOMAIN posts : posts[i].id > id}
    IN  SubSeq(posts, Len(posts) - Cardinality(later) + 1, Len(posts))

Outcomes(batch, result) == Cardinality({i \in DOMAIN batch : batch[i].result = result})

EpochNow == IF settings = seen THEN epoch ELSE epoch + 1

\* A line per post while the settings load and ask for it; the posts go on
\* whatever the settings say.
RelayLines(batch) ==
    IF settings.logging = "off" THEN <<>>
    ELSE [i \in DOMAIN batch |->
             [epoch |-> EpochNow, result |-> batch[i].result, detail |-> settings.detail]]

MutConsidered(batch) == lastRelayed
Considered(batch) == IF batch = <<>> THEN lastRelayed ELSE batch[Len(batch)].id

\* pump(), which every reader of the relay's state goes through.
Pump ==
    LET batch == Unseen(lastRelayed)
        news == IF settings = seen THEN <<>> ELSE <<Other>>
    IN  /\ seen' = settings /\ epoch' = EpochNow
        /\ lastRelayed' = Considered(batch)
        /\ counted' = [archived |-> counted.archived + Outcomes(batch, "archived"),
                       dropped |-> counted.dropped + Outcomes(batch, "dropped")]
        /\ logged' = Entered(logged, news \o RelayLines(batch))
        /\ UNCHANGED <<settings, posts, nextId, evicted>>

\* The drain of every second, and what looks at the relay.
Drain == Pump /\ UNCHANGED <<served, watched>>

\* GET /relay/healthz records the epoch it answered in.
Health == Pump /\ served' = EpochNow /\ watched' = settings

-----------------------------------------------------------------------------
(* The board and the participant.                                          *)

\* Which shard a title falls to is the participant's doing.
Post(result) ==
    /\ nextId <= MaxPosts
    /\ LET all == Append(posts, [id |-> nextId, result |-> result])
           full == Len(all) > BoardKeeps
       IN  /\ posts' = IF full THEN Tail(all) ELSE all
           /\ evicted' = IF full /\ Head(all).id > lastRelayed THEN evicted + 1 ELSE evicted
    /\ nextId' = nextId + 1 /\ logged' = Entered(logged, <<Other>>)
    /\ UNCHANGED <<settings, seen, epoch, served, lastRelayed, counted, watched>>

Change(new) ==
    /\ epoch < MaxEpochs /\ new # settings
    /\ settings' = new /\ logged' = Entered(logged, <<Other>>)
    /\ UNCHANGED <<seen, epoch, served, posts, nextId, lastRelayed, counted, evicted, watched>>

\* The process dies, and with it all but the settings; one may be half changed.
Restart == settings' \in {settings, Bad} /\ Fresh

Next ==
    \/ Drain \/ Health \/ Restart
    \/ \E result \in {"archived", "dropped"} : Post(result)
    \/ \E new \in Offered \cup {Bad} : Change(new)

Spec == Init /\ [][Next]_relayVars

-----------------------------------------------------------------------------
(* The gates and the checkpoints, each asked after a pump.                 *)

Looked == settings = seen /\ Unseen(lastRelayed) = <<>>

EpochLines(result) == {i \in DOMAIN logged : logged[i].epoch = epoch /\ logged[i].result = result}

\* A condition over dependencies, asked in three worlds.
Healthy(probes, up) == probes # {} /\ probes \subseteq up
Honest(probes) ==
    /\ ~Healthy(probes, {"config"}) /\ ~Healthy(probes, {"archive"})
    /\ Healthy(probes, Dependencies)

HealthHonest == Honest(settings.probes) /\ served = epoch

\* leak-shut: both outcomes are being logged, in lines of use, without the credential.
LeakShut ==
    /\ settings.logging = "on"
    /\ \A result \in {"archived", "dropped"} :
         /\ EpochLines(result) # {}
         /\ \E i \in EpochLines(result) :
              (\A j \in EpochLines(result) : i <= j) /\ logged[i].detail # "minimal"
         /\ \A i \in EpochLines(result) : logged[i].detail \notin {"full", "masked"}

-----------------------------------------------------------------------------
(* Properties.                                                             *)

TypeOK ==
    /\ settings \in Settings \cup {Bad} /\ seen \in Settings \cup {Bad, Unread}
    /\ watched \in Settings \cup {Bad, Unread}
    /\ epoch \in 0..MaxEpochs + 1 /\ served \in 0..epoch
    /\ nextId \in 1..MaxPosts + 1 /\ lastRelayed \in 0..nextId - 1 /\ evicted \in 0..MaxPosts
    /\ Len(posts) <= BoardKeeps /\ Len(logged) <= Prologue + LogKeeps
    /\ counted \in [archived : 0..MaxPosts, dropped : 0..MaxPosts]

\* Every post is relayed once: those counted, those waiting on the board and those
\* that left the board unseen are all there ever were (observability.mjs:255-355).
Conserved ==
    counted.archived + counted.dropped + evicted + Len(Unseen(lastRelayed)) = nextId - 1

\* The lines of an epoch were written under the settings of that epoch, so what they
\* show of the credential is what the settings in force show (observability.mjs:219-250).
LeakShutTrue ==
    /\ \A i \in EpochLines("archived") \cup EpochLines("dropped") : logged[i].detail = seen.detail
    /\ Looked /\ LeakShut => settings.detail = "safe"

\* The receipt for an honest health check is given for a check that was asked, and
\* asked with the condition that is right in the three worlds (observability.mjs:405-430).
HonestServed == Looked /\ HealthHonest => watched.probes = Dependencies

RelaySafe == Conserved /\ LeakShutTrue /\ HonestServed
================================================================================
