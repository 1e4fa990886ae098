----------------------------- MODULE ChangeFeed -----------------------------
(***************************************************************************)
(* The change feed: the daemon's log of recent changes (RootFeed in        *)
(* changes.rs) and the feed thread of each mount (Vfs::start and           *)
(* run_change_feed in vfs.rs) that follows it with a cursor over a long    *)
(* poll (WatchChanges).                                                    *)
(*                                                                         *)
(* The log is in memory and holds the last MAX_EVENTS events: a restart of *)
(* the daemon empties it and changes the epoch, and a client that has      *)
(* fallen behind must be told to drop everything (reset).  Connections     *)
(* break at any point; a poll is then repeated from the old cursor.        *)
(*                                                                         *)
(* The watcher on the server's tree is started by the first poll and needs *)
(* a while; every answer says whether it is up (live), and a mount that    *)
(* hears so trusts its directory listings without a time limit.            *)
(*                                                                         *)
(* A change is its epoch, its number in the log (0: never recorded) and    *)
(* the client it came from (0: an edit on the server).  What a mount knows *)
(* is the set of changes its caches reflect.                               *)
(***************************************************************************)
EXTENDS Integers, Sequences, FiniteSets, FiniteSetsExt

CONSTANTS Clients,               \* ids of the mounts (numbers from 1)
          MAX_EVENTS,            \* events the log keeps
          MAX_EVENTS_PER_REPLY,  \* events one answer carries
          PromptWake,            \* a waiting poll is served before the log
                                 \* drops what it waits for
          MaxSeq,                \* bound: events per epoch
          MaxEpoch,              \* bound: restarts of the daemon, plus one
          MaxDrops               \* bound: broken connections

ASSUME FeedAssumption ==
  /\ Clients \subseteq Nat \ {0} /\ IsFiniteSet(Clients)
  /\ MAX_EVENTS \in Nat \ {0} /\ MAX_EVENTS_PER_REPLY \in Nat \ {0}
  /\ PromptWake \in BOOLEAN
  /\ MaxSeq \in Nat /\ MaxEpoch \in Nat /\ MaxDrops \in Nat

VARIABLES epoch,      \* the daemon's epoch (random in the code: here a count)
          next_seq,   \* FeedState.next_seq
          events,     \* FeedState.events: [seq, origin], oldest first
          watcher,    \* the file watcher: "off", "starting", "live", "partial"
          pc,         \* where each client's feed thread is
          cepoch,     \* the epoch it last heard
          cursor,     \* the cursor it last heard
          reply,      \* the answer on its way to it
          feed_live,  \* Vfs.feed_live
          drops,      \* broken connections so far
          log,        \* history: all changes made on the server
          known       \* history: the changes each mount's caches reflect

daemon == <<epoch, next_seq, events, watcher>>
client == <<pc, cepoch, cursor, reply, feed_live>>
vars == <<daemon, client, drops, log, known>>

Origins == Clients \cup {0}
NoReply == [events |-> {}, cursor |-> 0, epoch |-> 0, reset |-> FALSE, live |-> FALSE]

Record(seq, origin) == [epoch |-> epoch, seq |-> seq, origin |-> origin]

-----------------------------------------------------------------------------
(* RootFeed::wait *)

oldest == IF events = <<>> THEN next_seq ELSE events[1].seq

\* The events the loop visits: those after the first since + 1 - oldest ones.
Visited(since) == {i \in 1..Len(events) : i > since + 1 - oldest}

Foreign(c, since) == {i \in Visited(since) : events[i].origin # c}

\* Visited events that find the answer full when they are reached.
Cut(c, since) ==
  {i \in Visited(since) :
     Cardinality({j \in Foreign(c, since) : j < i}) >= MAX_EVENTS_PER_REPLY}

\* A mutant: a full answer still claims everything up to the end of the log.
AnswerOverclaiming(c, since) ==
  [events |-> {Record(events[i].seq, events[i].origin) :
                 i \in Foreign(c, since) \ Cut(c, since)},
   cursor |-> next_seq - 1, epoch |-> epoch, reset |-> FALSE, live |-> watcher = "live"]

\* A mutant: the cursor of an answer is one short.
AnswerOneBehind(c, since) ==
  [events |-> {Record(events[i].seq, events[i].origin) :
                 i \in Foreign(c, since) \ Cut(c, since)},
   cursor |-> IF Cut(c, since) = {} /\ next_seq > 1 THEN next_seq - 2 ELSE since,
   epoch |-> epoch, reset |-> FALSE, live |-> watcher = "live"]

\* One turn of the loop: the events collected and the cursor that goes with
\* them.  The client's own events are passed over.
Answer(c, since) ==
  [events |-> {Record(events[i].seq, events[i].origin) :
                 i \in Foreign(c, since) \ Cut(c, since)},
   cursor |-> IF Cut(c, since) = {} THEN next_seq - 1
              ELSE events[Min(Cut(c, since))].seq - 1,
   epoch |-> epoch, reset |-> FALSE, live |-> watcher = "live"]

ResetAnswer ==
  [events |-> {}, cursor |-> next_seq - 1, epoch |-> epoch, reset |-> TRUE,
   live |-> watcher = "live"]

\* A mutant: the epoch of the client is not compared.
MustResetSameEpoch(c) == cursor[c] >= next_seq \/ cursor[c] + 1 < oldest

MustReset(c) ==
  \/ cepoch[c] # epoch
  \/ cursor[c] >= next_seq
  \/ cursor[c] + 1 < oldest

-----------------------------------------------------------------------------
(* The daemon. *)

\* What a waiting poll would lose if the oldest event were dropped now.
Needed(c) == pc[c] = "waiting" /\ events[1].seq > cursor[c] /\ events[1].origin # c

\* A mutant: a full log loses its newest event instead of its oldest.
PushDropsNewest(origin) ==
  LET grown == Append(events, [seq |-> next_seq, origin |-> origin])
  IN /\ next_seq < MaxSeq
     /\ origin = 0 => watcher # "off"
     /\ events' = IF Len(grown) > MAX_EVENTS THEN events ELSE grown
     /\ next_seq' = next_seq + 1
     /\ log' = log \cup {Record(next_seq, origin)}
     /\ UNCHANGED <<epoch, watcher, client, drops, known>>

\* RootFeed::push of an event that is not suppressed: a request of a client, or
\* an edit on the server that the watcher sees.
Push(origin) ==
  LET grown == Append(events, [seq |-> next_seq, origin |-> origin])
  IN /\ next_seq < MaxSeq
     /\ origin = 0 => watcher # "off"
     /\ PromptWake /\ Len(grown) > MAX_EVENTS => \A c \in Clients : ~Needed(c)
     /\ events' = IF Len(grown) > MAX_EVENTS THEN Tail(grown) ELSE grown
     /\ next_seq' = next_seq + 1
     /\ log' = log \cup {Record(next_seq, origin)}
     /\ UNCHANGED <<epoch, watcher, client, drops, known>>

\* An edit on the server in a directory that is not (yet) watched.
UnseenEdit ==
  /\ watcher # "live"
  /\ Record(0, 0) \notin log
  /\ log' = log \cup {Record(0, 0)}
  /\ UNCHANGED <<daemon, client, drops, known>>

\* start_watcher has walked the tree, completely or not.
WatcherStarted ==
  /\ watcher = "starting"
  /\ watcher' \in {"live", "partial"}
  /\ UNCHANGED <<epoch, next_seq, events, client, drops, log, known>>

\* A new directory cannot be watched, or the watcher's channel is closed.
WatcherLost ==
  /\ watcher = "live"
  /\ watcher' = "partial"
  /\ UNCHANGED <<epoch, next_seq, events, client, drops, log, known>>

\* RootFeed::ensure_watching, the first thing wait does.
EnsureWatching == watcher' = IF watcher = "off" THEN "starting" ELSE watcher

\* The daemon stops and starts again.  Changes that reached the disk but not
\* the log (a crash in between, edits while it is down) are never recorded.
\* Polls it had not answered break.
Restart ==
  /\ epoch < MaxEpoch
  /\ epoch' = epoch + 1
  /\ next_seq' = 1
  /\ events' = <<>>
  /\ watcher' = "off"
  /\ \E unrecorded \in SUBSET Origins :
       log' = log \cup {Record(0, origin) : origin \in unrecorded}
  /\ LET broken == {c \in Clients : pc[c] \in {"sent", "waiting"}}
     IN /\ pc' = [c \in Clients |-> IF c \in broken THEN "poll" ELSE pc[c]]
        /\ feed_live' = [c \in Clients |-> feed_live[c] /\ c \notin broken]
  /\ UNCHANGED <<cepoch, cursor, reply, drops, known>>

-----------------------------------------------------------------------------
(* The feed thread of a mount. *)

\* Vfs::start asks for the cursor first (since = None) ...
Subscribe(c) ==
  /\ pc[c] = "start"
  /\ EnsureWatching
  /\ cepoch' = [cepoch EXCEPT ![c] = epoch]
  /\ cursor' = [cursor EXCEPT ![c] = next_seq - 1]
  /\ pc' = [pc EXCEPT ![c] = "snapshot"]
  /\ UNCHANGED <<epoch, next_seq, events, reply, feed_live, drops, log, known>>

\* ... and then loads the tree into its caches.
Snapshot(c) ==
  /\ pc[c] = "snapshot"
  /\ known' = [known EXCEPT ![c] = log]
  /\ pc' = [pc EXCEPT ![c] = "poll"]
  /\ UNCHANGED <<daemon, cepoch, cursor, reply, feed_live, drops, log>>

\* run_change_feed sends WatchChanges with its epoch and cursor.
Poll(c) ==
  /\ pc[c] = "poll"
  /\ pc' = [pc EXCEPT ![c] = "sent"]
  /\ UNCHANGED <<daemon, cepoch, cursor, reply, feed_live, drops, log, known>>

Send(c, answer) ==
  /\ reply' = [reply EXCEPT ![c] = answer]
  /\ pc' = [pc EXCEPT ![c] = "reply"]
  /\ UNCHANGED <<epoch, next_seq, events, cepoch, cursor, feed_live, drops, log, known>>

\* The daemon handles the poll: reset, answer at once, or wait.
Arrive(c) ==
  /\ pc[c] = "sent"
  /\ EnsureWatching
  /\ \/ MustReset(c) /\ Send(c, ResetAnswer)
     \/ ~MustReset(c) /\ Foreign(c, cursor[c]) # {} /\ Send(c, Answer(c, cursor[c]))
     \/ /\ ~MustReset(c) /\ Foreign(c, cursor[c]) = {}
        /\ pc' = [pc EXCEPT ![c] = "waiting"]
        /\ UNCHANGED <<epoch, next_seq, events, cepoch, cursor, reply, feed_live, drops,
                       log, known>>

\* The waiting poll wakes up and finds events, or its time is over and it
\* answers with what it has.
Wake(c) ==
  /\ pc[c] = "waiting"
  /\ Send(c, Answer(c, cursor[c]))
  /\ UNCHANGED watcher

\* The answer arrives: every event is applied, or all caches are dropped; then
\* the epoch and the cursor are taken over.
Apply(c) ==
  /\ pc[c] = "reply"
  /\ known' = [known EXCEPT ![c] = IF reply[c].reset THEN log ELSE @ \cup reply[c].events]
  /\ feed_live' = [feed_live EXCEPT ![c] = reply[c].live]
  /\ cepoch' = [cepoch EXCEPT ![c] = reply[c].epoch]
  /\ cursor' = [cursor EXCEPT ![c] = reply[c].cursor]
  /\ reply' = [reply EXCEPT ![c] = NoReply]
  /\ pc' = [pc EXCEPT ![c] = "poll"]
  /\ UNCHANGED <<daemon, drops, log>>

\* The connection breaks with the poll or its answer on it; the thread
\* reconnects and polls again from where it was.
Drop(c) ==
  /\ pc[c] \in {"sent", "waiting", "reply"}
  /\ drops < MaxDrops
  /\ drops' = drops + 1
  /\ reply' = [reply EXCEPT ![c] = NoReply]
  /\ feed_live' = [feed_live EXCEPT ![c] = FALSE]
  /\ pc' = [pc EXCEPT ![c] = "poll"]
  /\ UNCHANGED <<daemon, cepoch, cursor, log, known>>

-----------------------------------------------------------------------------

Init ==
  /\ epoch = 1 /\ next_seq = 1 /\ events = <<>> /\ watcher = "off"
  /\ pc = [c \in Clients |-> "start"]
  /\ cepoch = [c \in Clients |-> 0]
  /\ cursor = [c \in Clients |-> 0]
  /\ reply = [c \in Clients |-> NoReply]
  /\ feed_live = [c \in Clients |-> FALSE]
  /\ drops = 0
  /\ log = {}
  /\ known = [c \in Clients |-> {}]

Runs(c) == Subscribe(c) \/ Snapshot(c) \/ Poll(c) \/ Arrive(c) \/ Wake(c) \/ Apply(c)

Next ==
  \/ \E origin \in Origins : Push(origin)
  \/ UnseenEdit \/ WatcherStarted \/ WatcherLost
  \/ Restart
  \/ \E c \in Clients : Runs(c) \/ Drop(c)

Spec == Init /\ [][Next]_vars

\* The feed thread loops for ever, a poll is answered at the latest at its
\* deadline, and a connection that does not break delivers.
FairSpec == Spec /\ \A c \in Clients : WF_vars(Runs(c))

-----------------------------------------------------------------------------
(* Properties. *)

Change == [epoch : Nat, seq : Nat, origin : Origins]

\* Types; the numbers in the log are consecutive up to next_seq - 1, which the
\* index arithmetic of wait (skip) relies on, and the log is bounded.
TypeOK ==
  /\ epoch \in Nat /\ next_seq \in Nat \ {0} /\ drops \in Nat
  /\ events \in Seq([seq : Nat, origin : Origins])
  /\ Len(events) <= MAX_EVENTS /\ Len(events) < next_seq
  /\ \A i \in 1..Len(events) : events[i].seq = next_seq - 1 - Len(events) + i
  /\ watcher \in {"off", "starting", "live", "partial"}
  /\ pc \in [Clients -> {"start", "snapshot", "poll", "sent", "waiting", "reply"}]
  /\ cepoch \in [Clients -> Nat] /\ cursor \in [Clients -> Nat]
  /\ reply \in [Clients -> [events : SUBSET Change, cursor : Nat, epoch : Nat,
                             reset : BOOLEAN, live : BOOLEAN]]
  /\ feed_live \in [Clients -> BOOLEAN]
  /\ log \subseteq Change /\ known \in [Clients -> SUBSET Change]

\* The recorded changes of the present epoch up to number n that c has to hear of.
Owed(c, n) == {r \in log : r.epoch = epoch /\ r.seq \in 1..n /\ r.origin # c}

\* The cursor never runs ahead of what the mount has applied: a change made by
\* another client or on the server, at or before the cursor, is known to the
\* mount, through overflow of the log, full answers, lost answers and restarts.
\* Otherwise its caches stay stale for good, as no later poll returns it.
CursorHonest ==
  \A c \in Clients :
    pc[c] \notin {"start", "snapshot"} /\ cepoch[c] = epoch => Owed(c, cursor[c]) \subseteq known[c]

\* Within an epoch the cursor only moves forward: no answer makes the mount go
\* over changes it has dealt with.
CursorForward ==
  [][\A c \in Clients :
       cepoch'[c] = cepoch[c] /\ pc[c] # "start" => cursor'[c] >= cursor[c]]_vars

\* Every recorded change of another client or of the server reaches the mount
\* in the end, as an event or through a reset, and so do the unrecorded ones of
\* an earlier life of the daemon: whenever changes stop coming (their number is
\* bounded here), the mount has heard of all of them and stays so.
Delivered ==
  \A c \in Clients :
    []<>(\A r \in log : r.origin # c /\ (r.seq > 0 \/ r.epoch < epoch) => r \in known[c])
=============================================================================
