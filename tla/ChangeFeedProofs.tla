-------------------------- MODULE ChangeFeedProofs --------------------------
(***************************************************************************)
(* The change feed, for any number of mounts, any size of the log and of   *)
(* an answer, and any number of restarts and broken connections: cursors   *)
(* only move forward, and (if a waiting poll is served before the log      *)
(* drops what it waits for) a cursor never claims a change that the mount  *)
(* has not applied.                                                        *)
(***************************************************************************)
EXTENDS ChangeFeed, FeedWatcher, FiniteSetTheorems, WellFoundedInduction, TLAPS

Reply == [events : SUBSET Change, cursor : Nat, epoch : Nat, reset : BOOLEAN, live : BOOLEAN]

\* Nobody has heard of more than the daemon has: cursors stay below next_seq,
\* and a poll that waits comes from a mount that knows the epoch.
CursorsBounded ==
  \A c \in Clients :
    /\ cepoch[c] <= epoch
    /\ cepoch[c] = epoch => cursor[c] < next_seq
    /\ pc[c] = "waiting" => cepoch[c] = epoch

\* The same of an answer on its way, which moreover does not lead backwards.
RepliesBounded ==
  \A c \in Clients : pc[c] = "reply" =>
    /\ reply[c].epoch <= epoch
    /\ reply[c].epoch = epoch => reply[c].cursor < next_seq
    /\ reply[c].epoch = cepoch[c] => reply[c].cursor >= cursor[c]

Bounded == TypeOK /\ CursorsBounded /\ RepliesBounded

\* The log of changes reaches up to next_seq ...
LogBounded ==
  \A r \in log : r.epoch <= epoch /\ (r.epoch = epoch => r.seq < next_seq)

\* ... and what it has from oldest on is in the daemon's queue.
LogQueued ==
  \A r \in log : r.epoch = epoch /\ r.seq >= oldest =>
    \E i \in 1..Len(events) : events[i].seq = r.seq /\ events[i].origin = r.origin

\* While a poll waits, nothing it has to return is dropped from the queue.
WaitsCovered ==
  \A c \in Clients : pc[c] = "waiting" =>
    \A r \in log : r.epoch = epoch /\ r.seq > cursor[c] /\ r.origin # c => r.seq >= oldest

\* An answer brings everything up to its cursor that the mount does not know.
RepliesHonest ==
  \A c \in Clients : pc[c] = "reply" /\ reply[c].epoch = epoch /\ ~reply[c].reset =>
    Owed(c, reply[c].cursor) \subseteq known[c] \cup reply[c].events

Honest == LogBounded /\ LogQueued /\ WaitsCovered /\ RepliesHonest /\ CursorHonest

IInv == Bounded /\ Honest

-----------------------------------------------------------------------------
(* Operators. *)

\* A nonempty set of numbers has a least one: Min (the event the loop of wait
\* stops at) is well defined.
LEMMA MinOfNumbers ==
  ASSUME NEW S \in SUBSET Nat, S # {}
  PROVE  Min(S) \in S /\ \A y \in S : Min(S) <= y
<1> DEFINE less == {ss \in Nat \X Nat : ss[1] < ss[2]}
<1>1. IsWellFoundedOn(less, Nat)
  BY NatLessThanWellFounded, Zenon DEF OpToRel
<1>2. PICK x \in S : \A y \in S : ~(<<y, x>> \in less)
  BY <1>1, WFMin, Zenon
<1>3. \A y \in S : x <= y
  <2> SUFFICES ASSUME NEW y \in S PROVE ~(y < x)
    OBVIOUS
  <2>1. <<y, x>> \in Nat \X Nat
    OBVIOUS
  <2>2. <<y, x>>[1] = y /\ <<y, x>>[2] = x
    OBVIOUS
  <2> QED
    BY <1>2, <2>1, <2>2, Zenon
<1> QED
  BY <1>3, Zenon DEF Min

\* The queue of the daemon: numbered without gaps up to next_seq - 1.
LEMMA EventsTyped ==
  ASSUME TypeOK
  PROVE  /\ events \in Seq([seq : Nat, origin : Origins]) /\ Len(events) \in Nat
         /\ Len(events) < next_seq /\ next_seq \in Nat \ {0}
         /\ \A i \in 1..Len(events) :
              /\ events[i] \in [seq : Nat, origin : Origins]
              /\ events[i].seq = next_seq - 1 - Len(events) + i
<1>1. /\ events \in Seq([seq : Nat, origin : Origins])
      /\ Len(events) < next_seq /\ next_seq \in Nat \ {0}
      /\ \A i \in 1..Len(events) : events[i].seq = next_seq - 1 - Len(events) + i
  BY Zenon DEF TypeOK
<1>2. Len(events) \in Nat /\ \A i \in 1..Len(events) : events[i] \in [seq : Nat, origin : Origins]
  <2> DEFINE E == [seq : Nat, origin : Origins]
  <2>1. events \in Seq(E)
    BY <1>1
  <2> HIDE DEF E
  <2>2. Len(events) \in Nat /\ \A i \in 1..Len(events) : events[i] \in E
    BY <2>1
  <2> QED
    BY <2>2 DEF E
<1> QED
  BY <1>1, <1>2, Zenon

\* oldest is the number after which Len(events) numbers are left.
LEMMA OldestIs ==
  ASSUME TypeOK
  PROVE  oldest = next_seq - Len(events) /\ oldest \in Nat \ {0}
<1>1. CASE events = <<>>
  BY <1>1, EventsTyped DEF oldest
<1>2. CASE events # <<>>
  <2>1. Len(events) \in Nat \ {0}
    BY <1>2, EventsTyped
  <2> QED
    BY <1>2, <2>1, EventsTyped DEF oldest
<1> QED
  BY <1>1, <1>2

\* What one turn of the loop of wait returns: a cursor between since and the
\* end of the log, and every event of another client in between.
LEMMA AnswerOK ==
  ASSUME TypeOK, NEW c \in Clients, NEW since \in Nat, since < next_seq
  PROVE  /\ Answer(c, since) \in Reply
         /\ Answer(c, since).epoch = epoch /\ ~Answer(c, since).reset
         /\ Answer(c, since).cursor \in since..(next_seq - 1)
         /\ \A i \in 1..Len(events) :
              events[i].seq > since /\ events[i].seq <= Answer(c, since).cursor
                /\ events[i].origin # c
              => Record(events[i].seq, events[i].origin) \in Answer(c, since).events
<1> DEFINE cut == Cut(c, since)
<1> DEFINE end == IF cut = {} THEN next_seq - 1 ELSE events[Min(cut)].seq - 1
<1>1. /\ Len(events) \in Nat /\ Len(events) < next_seq /\ next_seq \in Nat
      /\ \A i \in 1..Len(events) :
           /\ events[i] \in [seq : Nat, origin : Origins]
           /\ events[i].seq = next_seq - 1 - Len(events) + i
  BY EventsTyped
<1>2. \A i \in 1..Len(events) : i \in Visited(since) <=> events[i].seq > since
  BY <1>1, OldestIs DEF Visited
<1>3. cut \subseteq Visited(since) /\ Visited(since) \subseteq 1..Len(events)
  BY DEF Cut, Visited
<1>4. cut # {} => Min(cut) \in cut /\ \A y \in cut : Min(cut) <= y
  <2>1. cut \in SUBSET Nat
    BY <1>1, <1>3
  <2> QED
    BY <2>1, MinOfNumbers
<1>5. end \in since..(next_seq - 1)
  <2>1. CASE cut = {}
    BY <1>1, <2>1
  <2>2. CASE cut # {}
    <3>1. Min(cut) \in 1..Len(events) /\ events[Min(cut)].seq > since
      BY <1>2, <1>3, <1>4, <2>2
    <3>2. events[Min(cut)].seq = next_seq - 1 - Len(events) + Min(cut)
      BY <1>1, <3>1
    <3> QED
      BY <1>1, <2>2, <3>1, <3>2
  <2> QED
    BY <2>1, <2>2
<1>6. ASSUME NEW i \in 1..Len(events), events[i].seq > since, events[i].seq <= end,
             events[i].origin # c
      PROVE  i \in Foreign(c, since) \ cut
  <2>1. i \in Foreign(c, since)
    BY <1>2, <1>6 DEF Foreign
  <2>2. ASSUME i \in cut PROVE FALSE
    <3>1. Min(cut) \in 1..Len(events) /\ Min(cut) <= i
      BY <1>3, <1>4, <2>2
    <3>2. events[Min(cut)].seq = next_seq - 1 - Len(events) + Min(cut)
      BY <1>1, <3>1
    <3>3. events[i].seq = next_seq - 1 - Len(events) + i
      BY <1>1
    <3>4. events[i].seq <= events[Min(cut)].seq - 1
      BY <1>6, <2>2
    <3> QED
      BY <1>1, <3>1, <3>2, <3>3, <3>4
  <2> QED
    BY <2>1, <2>2
<1>7. {Record(events[i].seq, events[i].origin) : i \in Foreign(c, since) \ cut} \in SUBSET Change
  <2>1. Foreign(c, since) \subseteq 1..Len(events)
    BY DEF Foreign, Visited
  <2>2. epoch \in Nat
    BY DEF TypeOK
  <2> QED
    BY <1>1, <2>1, <2>2 DEF Record, Change
<1>8. Answer(c, since) =
        [events |-> {Record(events[i].seq, events[i].origin) : i \in Foreign(c, since) \ cut},
         cursor |-> end, epoch |-> epoch, reset |-> FALSE, live |-> watcher = "live"]
  BY DEF Answer
<1> HIDE DEF cut, end
<1>9. Answer(c, since) \in Reply
  <2>1. epoch \in Nat
    BY DEF TypeOK
  <2> QED
    BY <1>1, <1>5, <1>7, <1>8, <2>1 DEF Reply
<1> QED
  BY <1>5, <1>6, <1>8, <1>9

-----------------------------------------------------------------------------
(* Bounded is inductive. *)

\* The daemon starts with an empty log.
LEMMA InitBounded == Init => Bounded
<1> SUFFICES ASSUME Init PROVE Bounded
  OBVIOUS
<1>1. NoReply \in Reply
  BY DEF NoReply, Reply
<1>2. events = <<>> /\ next_seq = 1
  BY DEF Init
<1>3. TypeOK
  BY <1>1, <1>2, FeedAssumption DEF Init, TypeOK, Reply
<1> QED
  BY <1>3 DEF Init, Bounded, CursorsBounded, RepliesBounded

\* push keeps the numbering of the queue and its bound.
LEMMA PushQueue ==
  ASSUME TypeOK, NEW origin \in Origins, Push(origin)
  PROVE  /\ events' \in Seq([seq : Nat, origin : Origins])
         /\ Len(events') <= MAX_EVENTS /\ Len(events') < next_seq'
         /\ \A i \in 1..Len(events') : events'[i].seq = next_seq' - 1 - Len(events') + i
         /\ \/ /\ Len(events') = Len(events) + 1
               /\ \A i \in 1..Len(events) : events'[i] = events[i]
            \/ /\ Len(events') = Len(events) /\ Len(events) > 0
               /\ \A i \in 1..(Len(events) - 1) : events'[i] = events[i + 1]
               /\ PromptWake => \A c \in Clients : ~Needed(c)
         /\ events'[Len(events')] = [seq |-> next_seq, origin |-> origin]
<1> DEFINE E == [seq : Nat, origin : Origins]
<1> DEFINE new == [seq |-> next_seq, origin |-> origin]
<1> DEFINE grown == Append(events, new)
<1>1. /\ events \in Seq(E) /\ Len(events) \in Nat /\ Len(events) < next_seq
      /\ next_seq \in Nat \ {0}
      /\ \A i \in 1..Len(events) : events[i].seq = next_seq - 1 - Len(events) + i
  BY EventsTyped
<1>2. new \in E /\ new.seq = next_seq
  BY <1>1
<1>3. Len(events) <= MAX_EVENTS /\ MAX_EVENTS \in Nat \ {0}
  BY FeedAssumption DEF TypeOK
<1>4. next_seq' = next_seq + 1
  BY DEF Push
<1> HIDE DEF E, new
<1>5. grown \in Seq(E) /\ Len(grown) = Len(events) + 1
      /\ (\A i \in 1..Len(events) : grown[i] = events[i]) /\ grown[Len(events) + 1] = new
  BY <1>1, <1>2
<1> HIDE DEF grown
<1>6. CASE Len(grown) <= MAX_EVENTS
  <2>1. events' = grown
    BY <1>1, <1>3, <1>5, <1>6 DEF Push, new, grown
  <2>2. /\ Len(events') <= MAX_EVENTS /\ Len(events') < next_seq'
        /\ \A i \in 1..Len(events') : events'[i].seq = next_seq' - 1 - Len(events') + i
        /\ Len(events') = Len(events) + 1 /\ events'[Len(events')] = new
        /\ \A i \in 1..Len(events) : events'[i] = events[i]
    <3>1. ASSUME NEW i \in 1..Len(grown)
          PROVE  grown[i].seq = next_seq - 1 - Len(events) + i
      <4>1. CASE i = Len(events) + 1
        BY <1>1, <1>2, <1>5, <4>1
      <4>2. CASE i # Len(events) + 1
        <5>1. i \in 1..Len(events)
          BY <1>1, <1>5, <4>2
        <5> QED
          BY <1>1, <1>5, <5>1
      <4> QED
        BY <4>1, <4>2
    <3>2. /\ Len(events') = Len(events) + 1
          /\ Len(events') <= MAX_EVENTS /\ Len(events') < next_seq'
      BY <1>1, <1>4, <1>5, <1>6, <2>1
    <3>3. ASSUME NEW i \in 1..Len(events')
          PROVE  events'[i].seq = next_seq' - 1 - Len(events') + i
      <4>1. events'[i].seq = next_seq - 1 - Len(events) + i
        BY <2>1, <3>1
      <4> QED
        BY <1>1, <1>4, <3>2, <4>1
    <3>4. /\ events'[Len(events')] = new
          /\ \A i \in 1..Len(events) : events'[i] = events[i]
      BY <1>5, <2>1, <3>2
    <3> QED
      BY <3>2, <3>3, <3>4
  <2> QED
    BY <1>5, <2>1, <2>2, Zenon DEF E, new
<1>7. CASE Len(grown) > MAX_EVENTS
  <2>1. events' = Tail(grown) /\ (PromptWake => \A c \in Clients : ~Needed(c))
    BY <1>7 DEF Push, new, grown
  <2>2. Len(events) = MAX_EVENTS
    BY <1>1, <1>3, <1>5, <1>7
  <2>3. Tail(grown) \in Seq(E) /\ Len(Tail(grown)) = Len(events)
        /\ \A i \in 1..Len(events) : Tail(grown)[i] = grown[i + 1]
    BY <1>1, <1>5, grown # <<>>
  <2>4. events' \in Seq(E) /\ Len(events') = Len(events)
    BY <2>1, <2>3
  <2>5. /\ \A i \in 1..(Len(events) - 1) : events'[i] = events[i + 1]
        /\ events'[Len(events)] = new
    BY <1>1, <1>3, <1>5, <2>1, <2>2, <2>3
  <2>6. \A i \in 1..Len(events') : events'[i].seq = next_seq' - 1 - Len(events') + i
    <3> SUFFICES ASSUME NEW i \in 1..Len(events)
                 PROVE  events'[i].seq = next_seq - Len(events) + i
      BY <1>1, <1>4, <2>4
    <3>1. CASE i = Len(events)
      BY <1>1, <1>2, <2>5, <3>1
    <3>2. CASE i # Len(events)
      <4>1. i \in 1..(Len(events) - 1) /\ i + 1 \in 1..Len(events)
        BY <1>1, <3>2
      <4>2. events'[i] = events[i + 1]
        BY <2>5, <4>1
      <4>3. events[i + 1].seq = next_seq - 1 - Len(events) + (i + 1)
        BY <1>1, <4>1
      <4> QED
        BY <1>1, <4>1, <4>2, <4>3
    <3> QED
      BY <3>1, <3>2
  <2>7. /\ Len(events') <= MAX_EVENTS /\ Len(events') < next_seq' /\ Len(events) > 0
        /\ events'[Len(events')] = new
    BY <1>1, <1>3, <1>4, <2>2, <2>4, <2>5
  <2> QED
    BY <2>1, <2>4, <2>5, <2>6, <2>7, Zenon DEF E, new
<1> QED
  BY <1>3, <1>5, <1>6, <1>7

\* The answer that tells a mount to start over is well formed.
LEMMA ResetAnswerOK ==
  ASSUME TypeOK
  PROVE  /\ ResetAnswer \in Reply /\ ResetAnswer.epoch = epoch /\ ResetAnswer.reset
         /\ ResetAnswer.cursor = next_seq - 1
BY DEF TypeOK, ResetAnswer, Reply

\* The actions of the daemon.
LEMMA DaemonBounded ==
  ASSUME Bounded,
         \/ \E origin \in Origins : Push(origin)
         \/ UnseenEdit \/ WatcherStarted \/ WatcherLost
         \/ Restart
  PROVE  Bounded'
<1> USE DEF Bounded
<1>1. ASSUME NEW origin \in Origins, Push(origin) PROVE Bounded'
  <2>1. Record(next_seq, origin) \in Change
    BY DEF TypeOK, Record, Change
  <2>2. /\ events' \in Seq([seq : Nat, origin : Origins])
        /\ Len(events') <= MAX_EVENTS /\ Len(events') < next_seq'
        /\ \A i \in 1..Len(events') : events'[i].seq = next_seq' - 1 - Len(events') + i
    BY <1>1, PushQueue
  <2>3. /\ next_seq' \in Nat \ {0} /\ log' \subseteq Change
        /\ UNCHANGED <<epoch, watcher, pc, cepoch, cursor, reply, feed_live, drops, known>>
    BY <1>1, <2>1 DEF TypeOK, Push, client
  <2>4. TypeOK'
    BY <2>2, <2>3, Zenon DEF TypeOK
  <2>5. CursorsBounded' /\ RepliesBounded'
    BY <1>1 DEF TypeOK, Push, client, CursorsBounded, RepliesBounded
  <2> QED
    BY <2>4, <2>5
<1>2. ASSUME UnseenEdit \/ WatcherStarted \/ WatcherLost PROVE Bounded'
  <2>1. Record(0, 0) \in Change
    BY DEF TypeOK, Record, Change, Origins
  <2>2. TypeOK'
    BY <1>2, <2>1 DEF TypeOK, UnseenEdit, WatcherStarted, WatcherLost, daemon, client
  <2>3. CursorsBounded' /\ RepliesBounded'
    BY <1>2 DEF UnseenEdit, WatcherStarted, WatcherLost, daemon, client,
                CursorsBounded, RepliesBounded
  <2> QED
    BY <2>2, <2>3
<1>3. ASSUME Restart PROVE Bounded'
  <2>1. log' \subseteq Change
    BY <1>3 DEF TypeOK, Restart, Record, Change
  <2>2. events' = <<>> /\ Len(events') = 0 /\ next_seq' = 1 /\ epoch' = epoch + 1
    BY <1>3 DEF Restart
  <2>3. /\ pc' \in [Clients -> {"start", "snapshot", "poll", "sent", "waiting", "reply"}]
        /\ \A c \in Clients : pc'[c] # "waiting" /\ (pc'[c] = "reply" => pc[c] = "reply")
        /\ feed_live' \in [Clients -> BOOLEAN]
    BY <1>3 DEF TypeOK, Restart
  <2>4. TypeOK'
    BY <1>3, <2>1, <2>2, <2>3, FeedAssumption DEF TypeOK, Restart
  <2>5. CursorsBounded' /\ RepliesBounded'
    BY <1>3, <2>2, <2>3 DEF TypeOK, Restart, CursorsBounded, RepliesBounded
  <2> QED
    BY <2>4, <2>5
<1> QED
  BY <1>1, <1>2, <1>3

\* The actions of a mount's feed thread, and what the daemon answers it.
LEMMA ClientBounded ==
  ASSUME Bounded, NEW c \in Clients, Runs(c) \/ Drop(c)
  PROVE  Bounded'
<1> USE DEF Bounded
<1>1. NoReply \in Reply
  BY DEF NoReply, Reply
<1>2. reply \in [Clients -> Reply] /\ epoch \in Nat /\ next_seq \in Nat \ {0}
      /\ cepoch \in [Clients -> Nat] /\ cursor \in [Clients -> Nat]
  BY DEF TypeOK, Reply
<1>3. ASSUME Subscribe(c) PROVE Bounded'
  <2>1. TypeOK'
    BY <1>2, <1>3 DEF TypeOK, Subscribe, EnsureWatching
  <2>2. CursorsBounded' /\ RepliesBounded'
    BY <1>2, <1>3 DEF TypeOK, Subscribe, CursorsBounded, RepliesBounded
  <2> QED
    BY <2>1, <2>2
<1>4. ASSUME Snapshot(c) \/ Poll(c) PROVE Bounded'
  <2>1. TypeOK'
    BY <1>4 DEF TypeOK, Snapshot, Poll, daemon
  <2>2. CursorsBounded' /\ RepliesBounded'
    BY <1>2, <1>4 DEF TypeOK, Snapshot, Poll, daemon, CursorsBounded, RepliesBounded
  <2> QED
    BY <2>1, <2>2
<1>5. ASSUME NEW answer \in Reply, Send(c, answer), EnsureWatching \/ UNCHANGED watcher,
             answer.epoch = epoch, answer.cursor < next_seq,
             cepoch[c] = epoch => answer.cursor >= cursor[c]
      PROVE  Bounded'
  <2>1. reply' \in [Clients -> Reply]
    BY <1>2, <1>5 DEF Send
  <2>2. TypeOK'
    BY <1>5, <2>1 DEF TypeOK, Send, EnsureWatching, Reply
  <2>3. CursorsBounded' /\ RepliesBounded'
    BY <1>2, <1>5 DEF TypeOK, Send, CursorsBounded, RepliesBounded
  <2> QED
    BY <2>2, <2>3
<1>6. ASSUME cursor[c] < next_seq, Send(c, Answer(c, cursor[c])),
             EnsureWatching \/ UNCHANGED watcher
      PROVE  Bounded'
  <2> DEFINE answer == Answer(c, cursor[c])
  <2>1. cursor[c] \in Nat
    BY <1>2
  <2>2. answer \in Reply /\ answer.epoch = epoch /\ answer.cursor \in cursor[c]..(next_seq - 1)
    BY <1>6, <2>1, AnswerOK
  <2>3. Send(c, answer)
    BY <1>6
  <2> HIDE DEF answer
  <2>4. answer.cursor < next_seq /\ answer.cursor >= cursor[c]
    BY <1>2, <2>1, <2>2
  <2> QED
    BY <1>5, <1>6, <2>2, <2>3, <2>4
<1>7. ASSUME Arrive(c) PROVE Bounded'
  <2>1. CASE MustReset(c) /\ Send(c, ResetAnswer)
    BY <1>2, <1>5, <1>7, <2>1, ResetAnswerOK DEF Arrive, CursorsBounded
  <2>2. CASE ~MustReset(c) /\ Send(c, Answer(c, cursor[c]))
    <3>1. cursor[c] < next_seq
      BY <1>2, <2>2 DEF MustReset
    <3> QED
      BY <1>6, <1>7, <2>2, <3>1 DEF Arrive
  <2>3. CASE /\ ~MustReset(c)
             /\ pc' = [pc EXCEPT ![c] = "waiting"]
             /\ UNCHANGED <<epoch, next_seq, events, cepoch, cursor, reply, feed_live, drops,
                            log, known>>
    <3>1. TypeOK'
      BY <1>7, <2>3 DEF TypeOK, Arrive, EnsureWatching
    <3>2. CursorsBounded' /\ RepliesBounded'
      BY <1>2, <2>3 DEF TypeOK, MustReset, CursorsBounded, RepliesBounded
    <3> QED
      BY <3>1, <3>2
  <2> QED
    BY <1>7, <2>1, <2>2, <2>3 DEF Arrive
<1>8. ASSUME Apply(c) PROVE Bounded'
  <2>1. reply' \in [Clients -> Reply] /\ cepoch' \in [Clients -> Nat]
        /\ cursor' \in [Clients -> Nat] /\ feed_live' \in [Clients -> BOOLEAN]
        /\ known' \in [Clients -> SUBSET Change]
    BY <1>1, <1>2, <1>8 DEF TypeOK, Apply, Reply
  <2>2. TypeOK'
    BY <1>8, <2>1 DEF TypeOK, Apply, daemon, Reply
  <2>3. CursorsBounded' /\ RepliesBounded'
    BY <1>2, <1>8 DEF TypeOK, Apply, daemon, CursorsBounded, RepliesBounded
  <2> QED
    BY <2>2, <2>3
<1>9. ASSUME Drop(c) PROVE Bounded'
  <2>1. reply' \in [Clients -> Reply]
    BY <1>1, <1>2, <1>9 DEF Drop
  <2>2. TypeOK'
    BY <1>9, <2>1 DEF TypeOK, Drop, daemon, Reply
  <2>3. CursorsBounded' /\ RepliesBounded'
    BY <1>2, <1>9 DEF TypeOK, Drop, daemon, CursorsBounded, RepliesBounded
  <2> QED
    BY <2>2, <2>3
<1>10. ASSUME Wake(c) PROVE Bounded'
  BY <1>2, <1>6, <1>10 DEF Wake, CursorsBounded
<1> QED
  BY <1>3, <1>4, <1>7, <1>8, <1>9, <1>10 DEF Runs

\* Every step keeps types and bounds.
LEMMA NextBounded == Bounded /\ [Next]_vars => Bounded'
<1> SUFFICES ASSUME Bounded, [Next]_vars PROVE Bounded'
  OBVIOUS
<1>1. CASE UNCHANGED vars
  BY <1>1 DEF vars, daemon, client, Bounded, TypeOK, CursorsBounded, RepliesBounded
<1>2. CASE Next
  BY <1>2, DaemonBounded, ClientBounded DEF Next
<1> QED
  BY <1>1, <1>2

\* Types, the gapless numbering of the queue and its bound (FeedState, push)
\* hold for every size of the log and of an answer.
THEOREM FeedTypes == Spec => []TypeOK
<1>1. Bounded => TypeOK
  BY DEF Bounded
<1> QED
  BY <1>1, InitBounded, NextBounded, PTL DEF Spec

\* Within an epoch the cursor of run_change_feed never moves backwards, whatever
\* wait answers.
THEOREM CursorMovesForward == Spec => CursorForward
<1>1. ASSUME Bounded, [Next]_vars, NEW c \in Clients,
             cepoch'[c] = cepoch[c], pc[c] # "start"
      PROVE  cursor'[c] >= cursor[c]
  <2>1. cursor \in [Clients -> Nat] /\ cepoch \in [Clients -> Nat]
    BY <1>1 DEF Bounded, TypeOK
  <2>2. CASE cursor' = cursor
    BY <2>1, <2>2
  <2>3. ASSUME NEW d \in Clients, Subscribe(d) PROVE cursor'[c] >= cursor[c]
    BY <1>1, <2>1, <2>3 DEF Subscribe
  <2>4. ASSUME NEW d \in Clients, Apply(d) PROVE cursor'[c] >= cursor[c]
    BY <1>1, <2>1, <2>4 DEF Apply, Bounded, RepliesBounded
  <2>5. Next => \/ cursor' = cursor
                \/ \E d \in Clients : Subscribe(d) \/ Apply(d)
    BY DEF Next, Push, UnseenEdit, WatcherStarted, WatcherLost, Restart, Runs, Snapshot, Poll,
           Arrive, Wake, Send, Drop, client
  <2>6. UNCHANGED vars => cursor' = cursor
    BY DEF vars, client
  <2> QED
    BY <1>1, <2>2, <2>3, <2>4, <2>5, <2>6
<1>2. Bounded /\ [Next]_vars =>
        [\A c \in Clients : cepoch'[c] = cepoch[c] /\ pc[c] # "start" => cursor'[c] >= cursor[c]]_vars
  BY <1>1
<1> QED
  BY <1>2, InitBounded, NextBounded, PTL DEF Spec, CursorForward

-----------------------------------------------------------------------------
(* Honest is inductive, given PromptWake. *)

\* The heart of it: a poll whose cursor is honest, and for which nothing it has
\* to return has left the queue, gets an honest answer.
LEMMA AnswerHonest ==
  ASSUME TypeOK, LogQueued, NEW c \in Clients, NEW since \in Nat, since < next_seq,
         Owed(c, since) \subseteq known[c],
         \A r \in log : r.epoch = epoch /\ r.seq > since /\ r.origin # c => r.seq >= oldest
  PROVE  Owed(c, Answer(c, since).cursor) \subseteq known[c] \cup Answer(c, since).events
<1> DEFINE answer == Answer(c, since)
<1> SUFFICES ASSUME NEW r \in log, r.epoch = epoch, r.seq \in 1..answer.cursor, r.origin # c,
                    r \notin known[c]
             PROVE  r \in answer.events
  BY DEF Owed
<1>1. answer.cursor \in since..(next_seq - 1)
      /\ \A i \in 1..Len(events) :
              events[i].seq > since /\ events[i].seq <= answer.cursor /\ events[i].origin # c
              => Record(events[i].seq, events[i].origin) \in answer.events
  BY AnswerOK
<1> HIDE DEF answer
<1>2. r \in Change
  BY DEF TypeOK
<1>3. r.seq > since
  <2>1. SUFFICES ASSUME r.seq <= since PROVE FALSE
    BY <1>2 DEF Change
  <2> QED
    BY <1>2, <2>1 DEF Owed, Change
<1>4. PICK i \in 1..Len(events) : events[i].seq = r.seq /\ events[i].origin = r.origin
  BY <1>3 DEF LogQueued
<1>5. Record(r.seq, r.origin) \in answer.events
  BY <1>1, <1>2, <1>3, <1>4 DEF Change
<1>6. r = Record(r.seq, r.origin)
  BY <1>2 DEF Change, Record
<1> QED
  BY <1>5, <1>6

\* At first no mount has anything to miss.
LEMMA InitHonest == Init => Honest
BY DEF Init, Honest, LogBounded, LogQueued, WaitsCovered, RepliesHonest, CursorHonest, Owed

\* push: the new event is queued, and what a full queue drops is either behind
\* the cursor of every waiting poll or its own event.
LEMMA PushHonest ==
  ASSUME PromptWake, Bounded, Honest, NEW origin \in Origins, Push(origin)
  PROVE  Honest'
<1> DEFINE new == Record(next_seq, origin)
<1>1. TypeOK /\ TypeOK'
  BY DaemonBounded DEF Bounded
<1>2. /\ next_seq' = next_seq + 1 /\ log' = log \cup {new}
      /\ UNCHANGED <<epoch, pc, cepoch, cursor, reply, known>>
  BY DEF Push, client
<1>3. epoch \in Nat /\ new \in Change /\ new.epoch = epoch /\ new.seq = next_seq /\ new.origin = origin
  BY <1>1 DEF Record, Change, TypeOK
<1> HIDE DEF new
<1>4. /\ Len(events) \in Nat /\ next_seq \in Nat \ {0} /\ Len(events) < next_seq
      /\ \A i \in 1..Len(events) : events[i].seq = next_seq - 1 - Len(events) + i
  BY <1>1, EventsTyped
<1>5. oldest = next_seq - Len(events)
  BY <1>1, OldestIs
<1>6. oldest' = next_seq' - Len(events') /\ Len(events') \in Nat \ {0}
      /\ Len(events') \in {Len(events), Len(events) + 1}
  <2>1. /\ events' \in Seq([seq : Nat, origin : Origins])
        /\ \A i \in 1..Len(events') : events'[i].seq = next_seq' - 1 - Len(events') + i
        /\ \/ Len(events') = Len(events) + 1
           \/ Len(events') = Len(events) /\ Len(events) > 0
    BY <1>1, PushQueue
  <2>2. Len(events') \in Nat \ {0} /\ Len(events') \in {Len(events), Len(events) + 1}
    BY <1>4, <2>1
  <2>3. events' # <<>> /\ events'[1].seq = next_seq' - 1 - Len(events') + 1
    BY <2>1, <2>2
  <2> QED
    BY <1>2, <1>4, <2>2, <2>3 DEF oldest
<1>7. \A r \in log : r \in Change /\ r.epoch \in Nat /\ r.seq \in Nat
  BY <1>1 DEF TypeOK, Change
<1>8. LogBounded'
  BY <1>2, <1>3, <1>4, <1>7 DEF Honest, LogBounded
<1>9. LogQueued'
  <2> SUFFICES ASSUME NEW r \in log', r.epoch = epoch, r.seq >= oldest'
               PROVE  \E i \in 1..Len(events') : events'[i].seq = r.seq /\ events'[i].origin = r.origin
    BY <1>2 DEF LogQueued
  <2>1. CASE r = new
    <3>1. /\ events'[Len(events')] = [seq |-> next_seq, origin |-> origin]
          /\ Len(events') \in 1..Len(events')
      BY <1>1, <1>6, PushQueue
    <3> QED
      BY <1>3, <2>1, <3>1
  <2>2. CASE r \in log
    <3>1. oldest' >= oldest
      BY <1>2, <1>4, <1>5, <1>6
    <3>2. r.seq >= oldest
      BY <1>2, <1>4, <1>5, <1>6, <1>7, <2>2, <3>1
    <3>3. PICK i \in 1..Len(events) : events[i].seq = r.seq /\ events[i].origin = r.origin
      BY <2>2, <3>2 DEF Honest, LogQueued
    <3>4. r.seq = next_seq - 1 - Len(events) + i
      BY <1>4, <3>3
    <3>5. CASE Len(events') = Len(events) + 1 /\ \A j \in 1..Len(events) : events'[j] = events[j]
      <4>1. i \in 1..Len(events') /\ events'[i] = events[i]
        BY <1>4, <3>5
      <4> QED
        BY <3>3, <4>1
    <3>6. CASE /\ Len(events') = Len(events)
               /\ \A j \in 1..(Len(events) - 1) : events'[j] = events[j + 1]
      <4>1. i - 1 \in 1..(Len(events) - 1) /\ (i - 1) + 1 = i
        BY <1>2, <1>4, <1>6, <3>4, <3>6
      <4>2. events'[i - 1] = events[i]
        BY <3>6, <4>1
      <4>3. i - 1 \in 1..Len(events')
        BY <1>4, <3>6, <4>1
      <4> QED
        BY <3>3, <4>2, <4>3
    <3> QED
      BY <1>1, <3>5, <3>6, PushQueue
  <2> QED
    BY <1>2, <2>1, <2>2
<1>10. WaitsCovered'
  <2> SUFFICES ASSUME NEW c \in Clients, pc[c] = "waiting", NEW r \in log', r.epoch = epoch,
                      r.seq > cursor[c], r.origin # c
               PROVE  r.seq >= oldest'
    BY <1>2 DEF WaitsCovered
  <2>1. CASE r = new
    BY <1>2, <1>3, <1>4, <1>6, <2>1
  <2>2. CASE r \in log
    <3>1. r.seq >= oldest
      BY <2>2 DEF Honest, WaitsCovered
    <3>2. CASE Len(events') = Len(events) + 1
      BY <1>2, <1>4, <1>5, <1>6, <3>1, <3>2
    <3>3. CASE /\ Len(events') = Len(events) /\ Len(events) > 0 /\ ~Needed(c)
      <4>1. PICK i \in 1..Len(events) : events[i].seq = r.seq /\ events[i].origin = r.origin
        BY <2>2, <3>1 DEF Honest, LogQueued
      <4>2. i # 1
        BY <4>1, <3>3 DEF Needed
      <4> QED
        BY <1>2, <1>4, <1>6, <3>3, <4>1, <4>2
    <3> QED
      BY <1>1, <3>2, <3>3, PushQueue
  <2> QED
    BY <1>2, <2>1, <2>2
<1>11. RepliesHonest'
  <2> SUFFICES ASSUME NEW c \in Clients, pc[c] = "reply", reply[c].epoch = epoch, ~reply[c].reset
               PROVE  Owed(c, reply[c].cursor)' \subseteq known[c] \cup reply[c].events
    BY <1>2 DEF RepliesHonest, Owed
  <2>1. reply[c].cursor \in Nat /\ reply[c].cursor < next_seq
    BY <1>1 DEF Bounded, RepliesBounded, TypeOK
  <2>2. Owed(c, reply[c].cursor)' = {r \in log' : r.epoch = epoch /\ r.seq \in 1..reply[c].cursor /\ r.origin # c}
    BY <1>2 DEF Owed
  <2>3. new.seq \notin 1..reply[c].cursor
    BY <1>3, <1>4, <2>1
  <2> QED
    BY <1>2, <2>2, <2>3 DEF Honest, RepliesHonest, Owed
<1>12. CursorHonest'
  <2> SUFFICES ASSUME NEW c \in Clients, pc[c] \notin {"start", "snapshot"}, cepoch[c] = epoch
               PROVE  Owed(c, cursor[c])' \subseteq known[c]
    BY <1>2 DEF CursorHonest, Owed
  <2>1. cursor[c] \in Nat /\ cursor[c] < next_seq
    BY <1>1 DEF Bounded, CursorsBounded, TypeOK
  <2>2. Owed(c, cursor[c])' = {r \in log' : r.epoch = epoch /\ r.seq \in 1..cursor[c] /\ r.origin # c}
    BY <1>2 DEF Owed
  <2>3. new.seq \notin 1..cursor[c]
    BY <1>3, <1>4, <2>1
  <2> QED
    BY <1>2, <2>2, <2>3 DEF Honest, CursorHonest, Owed
<1> QED
  BY <1>8, <1>9, <1>10, <1>11, <1>12 DEF Honest

\* The other actions of the daemon: an unseen edit has no number to be owed, and
\* a restart makes every old cursor one of another epoch.
LEMMA DaemonHonest ==
  ASSUME Bounded, Honest, UnseenEdit \/ WatcherStarted \/ WatcherLost \/ Restart
  PROVE  Honest'
<1> USE DEF Honest
<1>1. epoch \in Nat /\ next_seq \in Nat \ {0} /\ oldest \in Nat \ {0}
      /\ \A r \in log : r.epoch \in Nat
  BY OldestIs DEF Bounded, TypeOK, Change
<1>2. ASSUME UnseenEdit PROVE Honest'
  <2> DEFINE new == Record(0, 0)
  <2>1. /\ log' = log \cup {new} /\ oldest' = oldest
        /\ UNCHANGED <<epoch, next_seq, events, pc, cepoch, cursor, reply, known>>
    BY <1>2 DEF UnseenEdit, daemon, client, oldest
  <2>2. new.epoch = epoch /\ new.seq = 0
    BY DEF Record
  <2> HIDE DEF new
  <2>3. LogBounded' /\ LogQueued'
    BY <1>1, <2>1, <2>2 DEF LogBounded, LogQueued
  <2>4. WaitsCovered'
    <3>1. \A c \in Clients : cursor[c] \in Nat
      BY DEF Bounded, TypeOK
    <3> QED
      BY <2>1, <2>2, <3>1 DEF WaitsCovered
  <2>5. \A c \in Clients : \A n \in Nat :
          {r \in log' : r.epoch = epoch /\ r.seq \in 1..n /\ r.origin # c} = Owed(c, n)
    BY <2>1, <2>2 DEF Owed
  <2>6. \A c \in Clients : cursor[c] \in Nat /\ reply[c].cursor \in Nat
    BY DEF Bounded, TypeOK
  <2>7. RepliesHonest'
    BY <2>1, <2>5, <2>6 DEF RepliesHonest, Owed
  <2>8. CursorHonest'
    BY <2>1, <2>5, <2>6 DEF CursorHonest, Owed
  <2> QED
    BY <2>3, <2>4, <2>7, <2>8
<1>3. ASSUME WatcherStarted \/ WatcherLost PROVE Honest'
  BY <1>3 DEF WatcherStarted, WatcherLost, client, LogBounded, LogQueued, WaitsCovered,
              RepliesHonest, CursorHonest, Owed, oldest
<1>4. ASSUME Restart PROVE Honest'
  <2>1. /\ epoch' = epoch + 1 /\ \A r \in log' : r.epoch \in Nat /\ r.epoch <= epoch
        /\ UNCHANGED <<cepoch, reply>>
    BY <1>1, <1>4 DEF Restart, Record, LogBounded
  <2>2. \A c \in Clients : /\ cepoch[c] \in Nat /\ cepoch[c] <= epoch
                           /\ pc'[c] = "reply" => reply[c].epoch \in Nat /\ reply[c].epoch <= epoch
                           /\ pc'[c] # "waiting"
    BY <1>4 DEF Restart, Bounded, TypeOK, CursorsBounded, RepliesBounded
  <2> QED
    BY <1>1, <2>1, <2>2 DEF LogBounded, LogQueued, WaitsCovered, RepliesHonest, CursorHonest
<1> QED
  BY <1>2, <1>3, <1>4

\* The feed thread: answers are honest when they are made, and applying an
\* honest answer makes the new cursor honest.
LEMMA ClientHonest ==
  ASSUME Bounded, Honest, NEW c \in Clients, Runs(c) \/ Drop(c)
  PROVE  Honest'
<1> USE DEF Honest
<1>1. /\ UNCHANGED <<epoch, next_seq, events, log>> /\ oldest' = oldest
      /\ \A d \in Clients : d # c => /\ pc'[d] = pc[d] /\ cepoch'[d] = cepoch[d]
                                     /\ cursor'[d] = cursor[d] /\ reply'[d] = reply[d]
                                     /\ known'[d] = known[d]
  BY DEF Runs, Subscribe, Snapshot, Poll, Arrive, Wake, Apply, Drop, Send, daemon, oldest,
         Bounded, TypeOK
<1>2. LogBounded' /\ LogQueued'
  BY <1>1 DEF LogBounded, LogQueued
<1>3. /\ cursor[c] \in Nat /\ (cepoch[c] = epoch => cursor[c] < next_seq)
      /\ (pc[c] = "waiting" => cepoch[c] = epoch)
      /\ \A n : Owed(c, n)' = Owed(c, n)
  BY <1>1 DEF Bounded, TypeOK, CursorsBounded, Owed
<1>4. ASSUME pc'[c] = "waiting" =>
               \A r \in log : r.epoch = epoch /\ r.seq > cursor'[c] /\ r.origin # c => r.seq >= oldest,
             pc'[c] = "reply" /\ reply'[c].epoch = epoch /\ ~reply'[c].reset =>
               Owed(c, reply'[c].cursor) \subseteq known'[c] \cup reply'[c].events,
             pc'[c] \notin {"start", "snapshot"} /\ cepoch'[c] = epoch =>
               Owed(c, cursor'[c]) \subseteq known'[c]
      PROVE  Honest'
  <2>1. WaitsCovered'
    BY <1>1, <1>4 DEF WaitsCovered
  <2>2. RepliesHonest'
    BY <1>1, <1>4 DEF RepliesHonest, Owed
  <2>3. CursorHonest'
    BY <1>1, <1>4 DEF CursorHonest, Owed
  <2> QED
    BY <1>2, <2>1, <2>2, <2>3
<1>5. ASSUME Subscribe(c) PROVE Honest'
  BY <1>4, <1>5 DEF Subscribe, Bounded, TypeOK
<1>6. ASSUME Snapshot(c) PROVE Honest'
  BY <1>4, <1>6 DEF Snapshot, Bounded, TypeOK, Owed
<1>7. ASSUME Poll(c) \/ Drop(c) PROVE Honest'
  BY <1>4, <1>7 DEF Poll, Drop, Bounded, TypeOK, CursorHonest
<1>8. ASSUME NEW answer \in Reply, Send(c, answer), pc[c] \in {"sent", "waiting"},
             ~answer.reset => Owed(c, answer.cursor) \subseteq known[c] \cup answer.events
      PROVE  Honest'
  BY <1>4, <1>8 DEF Send, Bounded, TypeOK, CursorHonest
<1>9. ASSUME Send(c, Answer(c, cursor[c])), pc[c] \in {"sent", "waiting"}, cepoch[c] = epoch,
             \A r \in log : r.epoch = epoch /\ r.seq > cursor[c] /\ r.origin # c => r.seq >= oldest
      PROVE  Honest'
  <2>1. Owed(c, cursor[c]) \subseteq known[c]
    BY <1>9 DEF CursorHonest
  <2>2. Answer(c, cursor[c]) \in Reply
    BY <1>3, <1>9, AnswerOK DEF Bounded
  <2>3. Owed(c, Answer(c, cursor[c]).cursor) \subseteq known[c] \cup Answer(c, cursor[c]).events
    BY <1>3, <1>9, <2>1, AnswerHonest DEF Bounded
  <2> QED
    BY <1>8, <1>9, <2>2, <2>3
<1>10. ASSUME Arrive(c) PROVE Honest'
  <2>1. ResetAnswer \in Reply /\ ResetAnswer.reset
    BY ResetAnswerOK DEF Bounded
  <2>2. CASE Send(c, ResetAnswer)
    BY <1>8, <1>10, <2>1, <2>2 DEF Arrive
  <2>3. ASSUME ~MustReset(c)
        PROVE  /\ cepoch[c] = epoch
               /\ \A r \in log : r.epoch = epoch /\ r.seq > cursor[c] => r.seq >= oldest
    <3>1. oldest \in Nat /\ \A r \in log : r.seq \in Nat
      BY OldestIs DEF Bounded, TypeOK, Change
    <3> QED
      BY <1>3, <2>3, <3>1 DEF MustReset
  <2>4. CASE ~MustReset(c) /\ Send(c, Answer(c, cursor[c]))
    BY <1>9, <1>10, <2>3, <2>4 DEF Arrive
  <2>5. CASE /\ ~MustReset(c)
             /\ pc' = [pc EXCEPT ![c] = "waiting"]
             /\ UNCHANGED <<epoch, next_seq, events, cepoch, cursor, reply, feed_live, drops,
                            log, known>>
    BY <1>4, <1>10, <2>3, <2>5 DEF Arrive, CursorHonest, Bounded, TypeOK
  <2> QED
    BY <1>10, <2>2, <2>4, <2>5 DEF Arrive
<1>11. ASSUME Wake(c) PROVE Honest'
  BY <1>3, <1>9, <1>11 DEF Wake, WaitsCovered
<1>12. ASSUME Apply(c) PROVE Honest'
  <2>1. /\ cepoch'[c] = reply[c].epoch /\ cursor'[c] = reply[c].cursor /\ pc'[c] = "poll"
        /\ known'[c] = IF reply[c].reset THEN log ELSE known[c] \cup reply[c].events
    BY <1>12 DEF Apply, Bounded, TypeOK
  <2> QED
    BY <1>4, <1>12, <2>1 DEF Apply, RepliesHonest, Owed
<1> QED
  BY <1>5, <1>6, <1>7, <1>10, <1>11, <1>12 DEF Runs

\* Every step keeps the inductive invariant, if polls wake in time.
LEMMA NextIInv == PromptWake /\ IInv /\ [Next]_vars => IInv'
<1> SUFFICES ASSUME PromptWake, Bounded, Honest, [Next]_vars PROVE Honest'
  BY NextBounded DEF IInv
<1>1. CASE UNCHANGED vars
  BY <1>1 DEF vars, daemon, client, Honest, LogBounded, LogQueued, WaitsCovered, RepliesHonest,
              CursorHonest, Owed, oldest
<1>2. CASE Next
  BY <1>2, PushHonest, DaemonHonest, ClientHonest DEF Next
<1> QED
  BY <1>1, <1>2

\* If a waiting poll is always served before the queue drops what it waits for,
\* no cursor of a mount ever passes a change of another client or of the server
\* that the mount has not applied (RootFeed::wait, run_change_feed).
THEOREM CursorIsHonest == ASSUME PromptWake PROVE Spec => []CursorHonest
<1>1. Init => IInv
  BY InitBounded, InitHonest DEF IInv
<1>2. IInv /\ [Next]_vars => IInv'
  BY NextIInv
<1>3. IInv => CursorHonest
  BY DEF IInv, Honest
<1> QED
  BY <1>1, <1>2, <1>3, PTL DEF Spec

-----------------------------------------------------------------------------
(***************************************************************************)
(* How changes get into the log, for any number of ranges, requests,       *)
(* pieces per event and changes: the count of streams under way is right,  *)
(* and the echo filter drops nothing but what Announced allows.            *)
(***************************************************************************)

Request == [pc : {"idle", "piece", "sign", "log"}, stream : BOOLEAN, todo : Seq(Ranges),
            open : SUBSET Ranges, sig : 0..clock]

\* Requests are well formed: a stream that goes on has a piece to write, and
\* a thread without a request holds nothing.
Requests ==
  /\ handler \in [Handlers -> Request]
  /\ \A h \in Handlers : /\ handler[h].pc = "piece" => handler[h].todo # <<>>
                         /\ handler[h].todo # <<>> => handler[h].stream
                         /\ handler[h].pc = "idle" => handler[h] = NoRequest

Streams == {h \in Handlers : handler[h].stream}

\* Everything but requests and their count.
Values ==
  /\ file \in [Ranges -> 0..clock] /\ told \in [Ranges -> 0..clock]
  /\ clock \in 0..MaxChanges /\ recent \in 0..clock
  /\ reports \in BOOLEAN
  /\ watch \in [pc : {"idle", "sign", "log"}, sig : 0..clock]
  /\ mixed \subseteq Ranges /\ torn \subseteq Ranges

Typed == Values /\ busy = Cardinality(Streams) /\ Requests

\* Changes that are neither told nor excused.
Pending == Untold \ (mixed \cup torn)

\* While requests are under way each of them is on the list of one of them.
HandlersCover ==
  Writing => \A r \in Pending : \E h \in Handlers : r \in handler[h].open

\* Otherwise they are edits on the server, younger than what a request last
\* recorded, and the watcher has yet to see them.
WatcherCovers ==
  ~Writing => \A r \in Pending :
    /\ file[r] > recent
    /\ \/ reports \/ watch.pc = "sign"
       \/ watch.pc = "log" /\ watch.sig >= file[r]

WatcherInv == Typed /\ HandlersCover /\ WatcherCovers

-----------------------------------------------------------------------------
(* Types. *)

\* Values that were within the clock's range stay within it.
LEMMA ClockGrows ==
  ASSUME NEW c \in Nat, NEW d \in Nat, c <= d
  PROVE  0..c \subseteq 0..d
OBVIOUS

\* A thread that has no request is a request of its own kind.
LEMMA NoRequestTyped ==
  ASSUME clock \in Nat
  PROVE  NoRequest \in Request /\ NoRequest.pc = "idle" /\ NoRequest.stream = FALSE
         /\ NoRequest.open = {} /\ NoRequest.todo = <<>>
BY DEF NoRequest, Request

\* The streams under way, counted after one thread got a new state.
LEMMA StreamCount ==
  ASSUME Typed, NEW h \in Handlers, NEW t, handler' = [handler EXCEPT ![h] = t],
         t.stream \in BOOLEAN
  PROVE  /\ busy \in Nat
         /\ t.stream = handler[h].stream => Cardinality(Streams') = busy
         /\ t.stream /\ ~handler[h].stream => Cardinality(Streams') = busy + 1
         /\ ~t.stream /\ handler[h].stream => Cardinality(Streams') = busy - 1
<1>1. handler \in [Handlers -> Request] /\ busy = Cardinality(Streams)
  BY DEF Typed, Requests
<1>2. IsFiniteSet(Streams) /\ busy \in Nat
  BY <1>1, FeedWatcherAssumption, FS_Subset, FS_CardinalityType DEF Streams
<1>3. /\ handler'[h] = t
      /\ \A g \in Handlers : g # h => handler'[g] = handler[g]
  BY <1>1
<1>4. CASE t.stream = handler[h].stream
  <2>1. Streams' = Streams
    BY <1>3, <1>4, Zenon DEF Streams
  <2> QED
    BY <1>1, <1>2, <1>4, <2>1, Zenon
<1>5. CASE t.stream /\ ~handler[h].stream
  <2>1. Streams' = Streams \cup {h} /\ h \notin Streams
    BY <1>3, <1>5, Zenon DEF Streams
  <2>2. Cardinality(Streams') = busy + 1
    BY <1>1, <1>2, <2>1, FS_AddElement
  <2> QED
    BY <1>2, <1>5, <2>2, Zenon
<1>6. CASE ~t.stream /\ handler[h].stream
  <2>1. Streams' = Streams \ {h} /\ h \in Streams
    BY <1>3, <1>6, Zenon DEF Streams
  <2>2. Cardinality(Streams') = busy - 1
    BY <1>1, <1>2, <2>1, FS_RemoveElement
  <2> QED
    BY <1>2, <1>6, <2>2, Zenon
<1>7. handler[h].stream \in BOOLEAN
  BY <1>1 DEF Request
<1> QED
  BY <1>4, <1>5, <1>6, <1>7, Zenon

\* A thread gets a well-formed state.
LEMMA RequestsKept ==
  ASSUME Typed, clock' \in Nat, clock <= clock', NEW h \in Handlers, NEW t \in Request',
         handler' = [handler EXCEPT ![h] = t],
         t.pc = "piece" => t.todo # <<>>, t.todo # <<>> => t.stream,
         t.pc = "idle" => t = NoRequest
  PROVE  Requests'
<1>1. handler \in [Handlers -> Request] /\ clock \in Nat
  BY FeedWatcherAssumption DEF Typed, Values, Requests
<1>2. Request \subseteq Request'
  BY <1>1, ClockGrows DEF Request
<1>3. handler' \in [Handlers -> Request']
  BY <1>1, <1>2
<1>4. handler'[h] = t /\ \A g \in Handlers : g # h => handler'[g] = handler[g]
  BY <1>1
<1>5. \A g \in Handlers : /\ handler'[g].pc = "piece" => handler'[g].todo # <<>>
                          /\ handler'[g].todo # <<>> => handler'[g].stream
                          /\ handler'[g].pc = "idle" => handler'[g] = NoRequest
  BY <1>4, Zenon DEF Typed, Requests
<1> QED
  BY <1>3, <1>5 DEF Requests

\* No thread changes its request.
LEMMA RequestsStay ==
  ASSUME Typed, clock' \in Nat, clock <= clock', handler' = handler
  PROVE  Requests'
<1>1. handler \in [Handlers -> Request] /\ clock \in Nat
  BY FeedWatcherAssumption DEF Typed, Values, Requests
<1>2. Request \subseteq Request'
  BY <1>1, ClockGrows DEF Request
<1>3. handler' \in [Handlers -> Request']
  BY <1>1, <1>2
<1> QED
  BY <1>3, Zenon DEF Typed, Requests

\* The type invariant, from its three parts.
LEMMA TypedIsTypeOK == Typed => WatcherTypeOK
BY DEF Values, Streams, Typed, WatcherTypeOK, Requests, Request

\* A change of the file: a new number for the ranges changed.
LEMMA ChangeTyped ==
  ASSUME Typed, NEW S \in SUBSET Ranges, ChangeRanges(S), UNCHANGED <<recent, told, watch>>,
         mixed' \subseteq Ranges, torn' \subseteq Ranges
  PROVE  /\ Values' /\ clock' \in Nat /\ clock' = clock + 1 /\ clock \in Nat
         /\ \A r \in Ranges : file'[r] = IF r \in S THEN clock' ELSE file[r]
<1>1. Values
  BY DEF Typed
<1>2. clock \in Nat /\ clock' = clock + 1 /\ clock' \in 0..MaxChanges /\ clock' \in Nat
  BY <1>1, FeedWatcherAssumption DEF Values, ChangeRanges
<1>3. 0..clock \subseteq 0..clock' /\ clock' \in 0..clock'
  BY <1>2
<1>4. file' \in [Ranges -> 0..clock']
  BY <1>1, <1>3 DEF Values, ChangeRanges
<1>5. told' \in [Ranges -> 0..clock'] /\ recent' \in 0..clock'
  BY <1>1, <1>3 DEF Values
<1>6. watch' \in [pc : {"idle", "sign", "log"}, sig : 0..clock']
  BY <1>1, <1>3 DEF Values
<1> QED
  BY <1>2, <1>4, <1>5, <1>6 DEF Values, ChangeRanges

\* An event for some ranges.
LEMMA LogTyped ==
  ASSUME Typed, NEW S \in SUBSET Ranges, Log(S)
  PROVE  /\ told' \in [Ranges -> 0..clock]
         /\ mixed' \subseteq Ranges /\ torn' \subseteq Ranges
BY DEF Typed, Values, Log

\* The types at the start.
LEMMA InitTyped == WatcherInit => Typed
<1> SUFFICES ASSUME WatcherInit PROVE Typed
  OBVIOUS
<1>1. Values
  <2>1. file \in [Ranges -> 0..clock] /\ told \in [Ranges -> 0..clock]
    BY DEF WatcherInit
  <2>2. watch \in [pc : {"idle", "sign", "log"}, sig : 0..clock]
    BY DEF WatcherInit
  <2>3. clock \in 0..MaxChanges /\ recent \in 0..clock
    BY FeedWatcherAssumption DEF WatcherInit
  <2>4. reports \in BOOLEAN /\ mixed \subseteq Ranges /\ torn \subseteq Ranges
    BY DEF WatcherInit
  <2> QED
    BY <2>1, <2>2, <2>3, <2>4 DEF Values
<1>2. clock \in Nat
  BY DEF WatcherInit
<1>3. Requests
  BY <1>2, NoRequestTyped DEF WatcherInit, Requests
<1>4. Streams = {}
  BY <1>2, NoRequestTyped DEF WatcherInit, Streams
<1>5. busy = Cardinality(Streams)
  BY <1>4, FS_EmptySet DEF WatcherInit
<1> QED
  BY <1>1, <1>3, <1>5 DEF Typed

\* A stream's list of ranges is not empty.
LEMMA PiecesTyped ==
  ASSUME NEW i \in Ranges, NEW j \in Ranges, i <= j
  PROVE  /\ [k \in 1..(j + 1 - i) |-> i + k - 1] \in Seq(Ranges)
         /\ [k \in 1..(j + 1 - i) |-> i + k - 1] # <<>>
<1> DEFINE n == j + 1 - i
           f == [k \in 1..n |-> i + k - 1]
<1>1. i \in 1..N /\ j \in 1..N /\ n \in Nat /\ 1 \in 1..n
  BY FeedWatcherAssumption DEF Ranges
<1>2. \A k \in 1..n : i + k - 1 \in Ranges
  BY <1>1, FeedWatcherAssumption DEF Ranges
<1> HIDE DEF n
<1>3. f \in Seq(Ranges)
  BY <1>1, <1>2
<1>4. 1 \in DOMAIN f
  BY <1>1
<1>5. 1 \notin DOMAIN <<>>
  OBVIOUS
<1> QED
  BY <1>3, <1>4, <1>5 DEF n

\* The types are kept by every step.
LEMMA NextTyped == Typed /\ [WatcherNext]_watcherVars => Typed'
<1> SUFFICES ASSUME Typed, [WatcherNext]_watcherVars PROVE Typed'
  OBVIOUS
<1>0. /\ Values /\ busy = Cardinality(Streams) /\ Requests
      /\ handler \in [Handlers -> Request] /\ clock \in Nat /\ clock <= clock
  BY FeedWatcherAssumption DEF Typed, Values, Requests
<1>1. ASSUME NEW S \in Extents, Edit(S)
      PROVE  Typed'
  <2>1. S \in SUBSET Ranges
    BY DEF Extents
  <2>2. mixed' \subseteq Ranges /\ torn' \subseteq Ranges
    BY <1>0, <1>1, <2>1 DEF Edit, Values
  <2>3. ChangeRanges(S) /\ UNCHANGED <<busy, recent, told, watch, handler>>
    BY <1>1 DEF Edit, feed
  <2>4. Values' /\ clock' \in Nat /\ clock <= clock'
    BY <2>1, <2>2, <2>3, ChangeTyped
  <2>5. Requests'
    BY <2>3, <2>4, RequestsStay
  <2>6. Streams' = Streams
    BY <2>3 DEF Streams
  <2> QED
    BY <1>0, <2>3, <2>4, <2>5, <2>6 DEF Typed
<1>2. ASSUME NEW h \in Handlers, NEW i \in Ranges, NEW j \in Ranges, i <= j, BeginStream(h, i, j)
      PROVE  Typed'
  <2> DEFINE f == [k \in 1..(j + 1 - i) |-> i + k - 1]
             t == [NoRequest EXCEPT !.pc = "piece", !.stream = TRUE, !.todo = f]
  <2>1. f \in Seq(Ranges) /\ f # <<>>
    BY <1>2, PiecesTyped
  <2>2. /\ handler' = [handler EXCEPT ![h] = t] /\ busy' = busy + 1 /\ handler[h].pc = "idle"
        /\ UNCHANGED <<file, clock, recent, told, reports, watch, torn>>
        /\ mixed' = mixed \cup Untold
    BY <1>2 DEF BeginStream, Begin
  <2> HIDE DEF f
  <2>3. t \in Request' /\ t.stream = TRUE /\ t.todo # <<>> /\ t.pc = "piece"
    <3>1. NoRequest \in Request'
      BY <1>0, <2>2, NoRequestTyped DEF Request
    <3> QED
      BY <2>1, <3>1 DEF Request
  <2>4. handler[h].stream = FALSE
    BY <1>0, <2>2, NoRequestTyped DEF Requests
  <2> HIDE DEF t
  <2>5. Requests'
    BY <1>0, <2>2, <2>3, RequestsKept
  <2>6. busy' = Cardinality(Streams')
    BY <2>2, <2>3, <2>4, StreamCount
  <2>7. Values'
    BY <1>0, <2>2 DEF Values, Untold
  <2> QED
    BY <2>5, <2>6, <2>7 DEF Typed
<1>3. ASSUME NEW h \in Handlers, NEW S \in Extents, WriteAtOnce(h, S)
      PROVE  Typed'
  <2> DEFINE t == [NoRequest EXCEPT !.pc = "sign", !.open = S]
  <2>1. S \in SUBSET Ranges
    BY DEF Extents
  <2>2. /\ handler' = [handler EXCEPT ![h] = t] /\ handler[h].pc = "idle"
        /\ ChangeRanges(S) /\ UNCHANGED <<busy, recent, told, watch, torn>>
        /\ mixed' = mixed \cup Untold
    BY <1>3 DEF WriteAtOnce, Begin, feed
  <2>3. Values' /\ clock' \in Nat /\ clock <= clock'
    <3>1. mixed' \subseteq Ranges /\ torn' \subseteq Ranges
      BY <1>0, <2>2 DEF Values, Untold
    <3> QED
      BY <2>1, <2>2, <3>1, ChangeTyped
  <2>4. t \in Request' /\ t.stream = FALSE /\ t.pc = "sign" /\ t.todo = <<>>
    <3>1. NoRequest \in Request' /\ NoRequest.stream = FALSE /\ NoRequest.todo = <<>>
      BY <2>3 DEF Request, NoRequest
    <3> QED
      BY <2>1, <3>1 DEF Request
  <2>5. handler[h].stream = FALSE
    BY <1>0, <2>2, NoRequestTyped DEF Requests
  <2> HIDE DEF t
  <2>6. Requests'
    BY <2>2, <2>3, <2>4, RequestsKept
  <2>7. busy' = Cardinality(Streams')
    BY <2>2, <2>4, <2>5, StreamCount
  <2> QED
    BY <2>3, <2>6, <2>7 DEF Typed
<1>4. ASSUME NEW h \in Handlers, Piece(h)
      PROVE  Typed'
  <2> DEFINE r == Head(handler[h].todo)
             left == Tail(handler[h].todo)
             open == handler[h].open \cup {r}
             stage == IF Cardinality(open) >= Announce \/ left = <<>> THEN "sign" ELSE "piece"
             t == [handler[h] EXCEPT !.todo = left, !.open = open, !.pc = stage]
  <2>1. handler[h] \in Request /\ handler[h].todo # <<>> /\ handler[h].stream
    BY <1>0, <1>4 DEF Requests, Piece
  <2>2. r \in Ranges /\ left \in Seq(Ranges) /\ open \subseteq Ranges
    <3>1. handler[h].todo \in Seq(Ranges) /\ handler[h].open \subseteq Ranges
      BY <2>1 DEF Request
    <3> QED
      BY <2>1, <3>1
  <2>3. /\ handler' = [handler EXCEPT ![h] = t]
        /\ ChangeRanges({r}) /\ UNCHANGED <<busy, recent, told, watch, mixed, torn>>
    BY <1>0, <1>4 DEF Piece, feed
  <2>4. stage \in {"sign", "piece"} /\ (stage = "piece" => left # <<>>)
    OBVIOUS
  <2> HIDE DEF r, left, open, stage
  <2>5. Values' /\ clock' \in Nat /\ clock <= clock'
    <3>1. mixed' \subseteq Ranges /\ torn' \subseteq Ranges
      BY <1>0, <2>3 DEF Values
    <3> QED
      BY <2>2, <2>3, <3>1, ChangeTyped
  <2>6. t \in Request' /\ t.stream = handler[h].stream /\ t.pc = stage /\ t.todo = left
    <3>1. handler[h] \in Request'
      BY <1>0, <2>1, <2>5, ClockGrows DEF Request
    <3> QED
      BY <2>2, <2>4, <3>1 DEF Request
  <2>7. t.stream \in BOOLEAN /\ t.stream
    BY <2>1, <2>6, Zenon DEF Request
  <2> HIDE DEF t
  <2>8. Requests'
    BY <2>3, <2>4, <2>5, <2>6, <2>7, RequestsKept
  <2>9. busy' = Cardinality(Streams')
    BY <2>3, <2>6, <2>7, StreamCount
  <2> QED
    BY <2>5, <2>8, <2>9 DEF Typed
<1>5. ASSUME NEW h \in Handlers, BreakStream(h)
      PROVE  Typed'
  <2>1. /\ handler' = [handler EXCEPT ![h] = NoRequest] /\ busy' = busy - 1
        /\ UNCHANGED <<file, clock, recent, told, reports, watch, mixed>>
        /\ torn' = torn \cup handler[h].open
    BY <1>5 DEF BreakStream
  <2>2. handler[h].stream /\ handler[h].open \subseteq Ranges
    BY <1>0, <1>5 DEF BreakStream, Requests, Request
  <2>3. NoRequest \in Request' /\ NoRequest.pc = "idle" /\ NoRequest.stream = FALSE /\ NoRequest.todo = <<>>
    BY <1>0, <2>1, NoRequestTyped DEF Request
  <2>4. Requests'
    BY <1>0, <2>1, <2>3, RequestsKept
  <2>5. busy' = Cardinality(Streams')
    BY <2>1, <2>2, <2>3, StreamCount
  <2>6. Values'
    BY <1>0, <2>1, <2>2 DEF Values
  <2> QED
    BY <2>4, <2>5, <2>6 DEF Typed
<1>6. ASSUME NEW h \in Handlers, Sign(h)
      PROVE  Typed'
  <2> DEFINE t == [handler[h] EXCEPT !.pc = "log", !.sig = clock]
  <2>1. /\ handler' = [handler EXCEPT ![h] = t] /\ handler[h].pc = "sign"
        /\ UNCHANGED <<file, clock, busy, recent, told, reports, watch, mixed, torn>>
    BY <1>0, <1>6 DEF Sign, feed
  <2>2. t \in Request' /\ t.stream = handler[h].stream /\ t.pc = "log" /\ t.todo = handler[h].todo
    <3>1. handler[h] \in Request /\ clock \in 0..clock
      BY <1>0
    <3> QED
      BY <2>1, <3>1 DEF Request
  <2>3. t.stream \in BOOLEAN
    BY <2>2, Zenon DEF Request
  <2> HIDE DEF t
  <2>4. Requests'
    <3>1. t.todo # <<>> => t.stream
      BY <1>0, <2>2 DEF Requests
    <3> QED
      BY <1>0, <2>1, <2>2, <3>1, RequestsKept
  <2>5. busy' = Cardinality(Streams')
    BY <2>1, <2>2, <2>3, StreamCount
  <2>6. Values'
    BY <1>0, <2>1 DEF Values
  <2> QED
    BY <2>4, <2>5, <2>6 DEF Typed
<1>7. ASSUME NEW h \in Handlers, RecordWrite(h)
      PROVE  Typed'
  <2>1. /\ handler[h] \in Request /\ handler[h].pc = "log" /\ Log(handler[h].open)
        /\ recent' = handler[h].sig /\ UNCHANGED <<file, clock, reports, watch>>
        /\ busy' = IF handler[h].todo = <<>> /\ handler[h].stream THEN busy - 1 ELSE busy
    BY <1>0, <1>7 DEF RecordWrite
  <2>2. Values'
    <3>1. handler[h].sig \in 0..clock /\ handler[h].open \in SUBSET Ranges
      BY <2>1 DEF Request
    <3> QED
      BY <1>0, <2>1, <3>1, LogTyped DEF Values
  <2>3. CASE handler[h].todo = <<>>
    <3>1. handler' = [handler EXCEPT ![h] = NoRequest]
      BY <1>0, <1>7, <2>3 DEF RecordWrite
    <3>2. NoRequest \in Request' /\ NoRequest.pc = "idle" /\ NoRequest.stream = FALSE /\ NoRequest.todo = <<>>
      BY <1>0, <2>1, NoRequestTyped DEF Request
    <3>3. Requests'
      BY <1>0, <2>1, <3>1, <3>2, RequestsKept
    <3>4. busy' = Cardinality(Streams')
      BY <2>1, <2>3, <3>1, <3>2, StreamCount DEF Request
    <3> QED
      BY <2>2, <3>3, <3>4 DEF Typed
  <2>4. CASE handler[h].todo # <<>>
    <3> DEFINE t == [handler[h] EXCEPT !.pc = "piece", !.open = {}, !.sig = 0]
    <3>1. handler' = [handler EXCEPT ![h] = t]
      BY <1>0, <1>7, <2>4 DEF RecordWrite
    <3>2. t \in Request' /\ t.stream = handler[h].stream /\ t.pc = "piece" /\ t.todo = handler[h].todo
      <4>1. 0 \in 0..clock' /\ {} \in SUBSET Ranges /\ handler[h] \in Request'
        BY <1>0, <2>1 DEF Request
      <4> QED
        BY <4>1 DEF Request
    <3>3. t.stream \in BOOLEAN
      BY <3>2, Zenon DEF Request
    <3>6. handler[h].stream
      BY <1>0, <2>4 DEF Requests
    <3> HIDE DEF t
    <3>4. Requests'
      BY <1>0, <2>1, <2>4, <3>1, <3>2, <3>6, RequestsKept
    <3>5. busy' = Cardinality(Streams')
      BY <2>1, <2>4, <3>1, <3>2, <3>3, StreamCount
    <3> QED
      BY <2>2, <3>4, <3>5 DEF Typed
  <2> QED
    BY <2>3, <2>4
<1>8. ASSUME ReadReport \/ WatcherSign \/ WatcherLog \/ Expire \/ UNCHANGED watcherVars
      PROVE  Typed'
  <2>1. UNCHANGED <<file, clock, busy, handler>>
    BY <1>8 DEF ReadReport, WatcherSign, WatcherLog, Expire, watcherVars, feed
  <2>2. Requests' /\ busy' = Cardinality(Streams')
    BY <1>0, <2>1, RequestsStay DEF Streams
  <2>3. Values'
    <3>1. CASE ReadReport
      BY <1>0, <2>1, <3>1 DEF ReadReport, feed, Values
    <3>2. CASE WatcherSign
      BY <1>0, <2>1, <3>2 DEF WatcherSign, feed, Values
    <3>3. CASE WatcherLog
      <4>1. told' \in [Ranges -> 0..clock] /\ mixed' \subseteq Ranges /\ torn' \subseteq Ranges
        BY <1>0, <3>3, LogTyped DEF WatcherLog, Values
      <4> QED
        BY <1>0, <2>1, <3>3, <4>1 DEF WatcherLog, Values
    <3>4. CASE Expire
      BY <1>0, <2>1, <3>4 DEF Expire, Values
    <3>5. CASE UNCHANGED watcherVars
      BY <1>0, <3>5 DEF watcherVars, feed, Values
    <3> QED
      BY <1>8, <3>1, <3>2, <3>3, <3>4, <3>5
  <2> QED
    BY <2>2, <2>3 DEF Typed
<1> QED
  BY <1>1, <1>2, <1>3, <1>4, <1>5, <1>6, <1>7, <1>8 DEF WatcherNext, HandlerStep

\* The types; in particular busy counts the streams under way exactly, however
\* they end: the filter that rests on it is lifted with the last of them.
THEOREM WatcherTypes == WatcherSpec => []WatcherTypeOK
<1> QED
  BY TypedIsTypeOK, InitTyped, NextTyped, PTL DEF WatcherSpec

-----------------------------------------------------------------------------
(* What the filter drops. *)

\* A thread ends a request, or a part of one: what was on its list is told or
\* excused, and the rest is on the list of another.
LEMMA EndsPart ==
  ASSUME Typed, Typed', HandlersCover, NEW h \in Handlers, handler[h].pc # "idle",
         \A g \in Handlers : g # h => handler'[g] = handler[g],
         \A r \in Pending' : r \in Pending /\ r \notin handler[h].open
  PROVE  HandlersCover' /\ WatcherCovers'
<1>1. ASSUME NEW r \in Pending'
      PROVE  \E g \in Handlers : r \in handler'[g].open
  BY <1>1 DEF HandlersCover, Writing
<1>2. Pending' # {} => Writing'
  <2> SUFFICES ASSUME NEW r \in Pending' PROVE Writing'
    OBVIOUS
  <2>1. PICK g \in Handlers : r \in handler'[g].open
    BY <1>1
  <2>2. handler'[g].pc # "idle"
    BY <2>1 DEF Typed, Requests, NoRequest
  <2> QED
    BY <2>2 DEF Writing
<1> QED
  BY <1>1, <1>2 DEF HandlersCover, WatcherCovers

\* Nothing is pending at the start.
LEMMA InitWatcherInv == WatcherInit => WatcherInv
<1> SUFFICES ASSUME WatcherInit PROVE WatcherInv
  OBVIOUS
<1>1. Pending = {}
  BY DEF WatcherInit, Pending, Untold
<1> QED
  BY <1>1, InitTyped DEF WatcherInv, HandlersCover, WatcherCovers

\* Every step keeps what is pending covered, by a request or by the watcher.
LEMMA NextWatcherInv == WatcherInv /\ [WatcherNext]_watcherVars => WatcherInv'
<1> SUFFICES ASSUME WatcherInv, [WatcherNext]_watcherVars PROVE HandlersCover' /\ WatcherCovers'
  BY NextTyped DEF WatcherInv
<1>0. /\ Values /\ Requests /\ handler \in [Handlers -> Request] /\ clock \in Nat
      /\ recent \in Nat /\ file \in [Ranges -> 0..clock]
      /\ Typed /\ HandlersCover /\ WatcherCovers
  BY FeedWatcherAssumption DEF WatcherInv, Typed, Values, Requests
<1>1. Typed'
  BY NextTyped DEF WatcherInv
<1>2. /\ \A r : r \in Pending <=>
           r \in Ranges /\ told[r] # file[r] /\ r \notin mixed /\ r \notin torn
      /\ \A r : r \in Pending' <=>
           r \in Ranges /\ told'[r] # file'[r] /\ r \notin mixed' /\ r \notin torn'
  BY DEF Pending, Untold
<1>3. ~Writing => busy = 0
  <2> SUFFICES ASSUME ~Writing PROVE busy = 0
    OBVIOUS
  <2>1. Streams = {}
    BY <1>0, NoRequestTyped DEF Writing, Streams, Requests
  <2> QED
    BY <1>0, <2>1, FS_EmptySet DEF Typed
<1>4. ASSUME NEW S \in Extents, Edit(S)
      PROVE  HandlersCover' /\ WatcherCovers'
  <2>1. S \in SUBSET Ranges
    BY DEF Extents
  <2>2. /\ ChangeRanges(S) /\ UNCHANGED <<recent, told, watch, handler, torn>>
        /\ mixed' = IF Writing THEN mixed \cup S ELSE mixed
    BY <1>4 DEF Edit, feed
  <2>3. /\ clock' = clock + 1 /\ reports'
        /\ \A r \in Ranges : file'[r] = IF r \in S THEN clock' ELSE file[r]
    BY <1>0, <2>2 DEF ChangeRanges
  <2>4. Writing' <=> Writing
    BY <2>2 DEF Writing
  <2>5. CASE Writing
    <3>1. Pending' \subseteq Pending
      BY <1>2, <2>2, <2>3, <2>5
    <3> QED
      BY <1>0, <2>2, <2>4, <2>5, <3>1 DEF HandlersCover, WatcherCovers
  <2>6. CASE ~Writing
    <3>1. ASSUME NEW r \in Pending'
          PROVE  file'[r] > recent'
      <4>1. CASE r \in S
        BY <1>0, <1>2, <2>2, <2>3, <3>1, <4>1 DEF Values
      <4>2. CASE r \notin S
        <5>1. r \in Pending /\ file'[r] = file[r]
          BY <1>2, <2>2, <2>3, <2>6, <3>1, <4>2
        <5> QED
          BY <1>0, <2>2, <2>6, <5>1 DEF WatcherCovers
      <4> QED
        BY <4>1, <4>2
    <3> QED
      BY <2>3, <2>4, <2>6, <3>1 DEF HandlersCover, WatcherCovers
  <2> QED
    BY <2>5, <2>6
<1>5. ASSUME NEW h \in Handlers, NEW i \in Ranges, NEW j \in Ranges, BeginStream(h, i, j)
      PROVE  HandlersCover' /\ WatcherCovers'
  <2>1. UNCHANGED <<file, told>> /\ mixed' = mixed \cup Untold
    BY <1>5 DEF BeginStream, Begin
  <2>2. Pending' = {}
    BY <2>1 DEF Pending, Untold
  <2> QED
    BY <2>2 DEF HandlersCover, WatcherCovers
<1>6. ASSUME NEW h \in Handlers, NEW S \in Extents, WriteAtOnce(h, S)
      PROVE  HandlersCover' /\ WatcherCovers'
  <2>1. /\ handler' = [handler EXCEPT ![h] = [NoRequest EXCEPT !.pc = "sign", !.open = S]]
        /\ ChangeRanges(S) /\ UNCHANGED <<told, torn>> /\ mixed' = mixed \cup Untold
    BY <1>6 DEF WriteAtOnce, Begin, feed
  <2>2. handler'[h].pc = "sign" /\ handler'[h].open = S
    BY <1>0, <2>1 DEF NoRequest
  <2>3. Pending' \subseteq S
    <3>1. \A r \in Ranges : r \notin S => file'[r] = file[r]
      BY <2>1 DEF ChangeRanges
    <3> QED
      BY <2>1, <3>1 DEF Pending, Untold
  <2> QED
    BY <2>2, <2>3 DEF HandlersCover, WatcherCovers, Writing
<1>7. ASSUME NEW h \in Handlers, Piece(h)
      PROVE  HandlersCover' /\ WatcherCovers'
  <2> DEFINE r0 == Head(handler[h].todo)
             stage == IF Cardinality(handler[h].open \cup {r0}) >= Announce
                      \/ Tail(handler[h].todo) = <<>> THEN "sign" ELSE "piece"
             t == [handler[h] EXCEPT !.todo = Tail(handler[h].todo),
                                     !.open = handler[h].open \cup {r0}, !.pc = stage]
  <2>1. /\ handler' = [handler EXCEPT ![h] = t] /\ handler[h].pc = "piece"
        /\ ChangeRanges({r0}) /\ UNCHANGED <<told, mixed, torn>>
    BY <1>0, <1>7 DEF Piece, feed
  <2>2. stage # "idle"
    OBVIOUS
  <2> HIDE DEF r0, stage
  <2>3. t.pc = stage /\ t.open = handler[h].open \cup {r0}
    BY <1>0 DEF Request
  <2> HIDE DEF t
  <2>4. /\ handler'[h].open = handler[h].open \cup {r0} /\ handler'[h].pc # "idle"
        /\ \A g \in Handlers : g # h => handler'[g] = handler[g]
    BY <1>0, <2>1, <2>2, <2>3
  <2>5. \A r \in Ranges : r # r0 => file'[r] = file[r]
    BY <2>1 DEF ChangeRanges
  <2>6. \A r \in Pending' : r = r0 \/ r \in Pending
    BY <1>2, <2>1, <2>5
  <2>7. Writing /\ Writing'
    BY <2>1, <2>4 DEF Writing
  <2> QED
    BY <1>0, <2>4, <2>6, <2>7 DEF HandlersCover, WatcherCovers
<1>8. ASSUME NEW h \in Handlers, BreakStream(h)
      PROVE  HandlersCover' /\ WatcherCovers'
  <2>1. /\ handler' = [handler EXCEPT ![h] = NoRequest] /\ handler[h].pc = "piece"
        /\ UNCHANGED <<file, told, mixed>> /\ torn' = torn \cup handler[h].open
    BY <1>8 DEF BreakStream
  <2>2. \A g \in Handlers : g # h => handler'[g] = handler[g]
    BY <1>0, <2>1
  <2>3. \A r \in Pending' : r \in Pending /\ r \notin handler[h].open
    BY <1>2, <2>1
  <2> QED
    BY <1>0, <1>1, <2>1, <2>2, <2>3, EndsPart
<1>9. ASSUME NEW h \in Handlers, Sign(h)
      PROVE  HandlersCover' /\ WatcherCovers'
  <2> DEFINE t == [handler[h] EXCEPT !.pc = "log", !.sig = clock]
  <2>1. /\ handler' = [handler EXCEPT ![h] = t] /\ handler[h].pc = "sign"
        /\ UNCHANGED <<file, told, mixed, torn>>
    BY <1>0, <1>9 DEF Sign, feed
  <2>2. t.pc = "log" /\ t.open = handler[h].open
    BY <1>0 DEF Request
  <2> HIDE DEF t
  <2>3. /\ handler'[h].open = handler[h].open /\ handler'[h].pc # "idle"
        /\ \A g \in Handlers : g # h => handler'[g] = handler[g]
    BY <1>0, <2>1, <2>2
  <2>4. Writing /\ Writing' /\ Pending' = Pending
    BY <2>1, <2>3 DEF Writing, Pending, Untold
  <2> QED
    BY <1>0, <2>3, <2>4 DEF HandlersCover, WatcherCovers
<1>10. ASSUME NEW h \in Handlers, RecordWrite(h)
       PROVE  HandlersCover' /\ WatcherCovers'
  <2>1. handler[h].pc = "log" /\ Log(handler[h].open) /\ file' = file
    BY <1>10 DEF RecordWrite
  <2>2. \A g \in Handlers : g # h => handler'[g] = handler[g]
    BY <1>0, <1>10 DEF RecordWrite
  <2>3. \A r \in Pending' : r \in Pending /\ r \notin handler[h].open
    BY <1>2, <2>1 DEF Log
  <2> QED
    BY <1>0, <1>1, <2>1, <2>2, <2>3, EndsPart
<1>11. CASE ReadReport
  <2>1. /\ UNCHANGED <<file, recent, told, handler, mixed, torn>> /\ watch.pc = "idle"
        /\ busy = 0 => watch'.pc = "sign"
    BY <1>0, <1>11 DEF ReadReport, feed, Values
  <2>2. Pending' = Pending /\ (Writing' <=> Writing)
    BY <2>1 DEF Pending, Untold, Writing
  <2> QED
    BY <1>0, <1>3, <2>1, <2>2 DEF HandlersCover, WatcherCovers
<1>12. CASE WatcherSign
  <2>1. /\ UNCHANGED <<file, recent, told, reports, handler, mixed, torn>>
        /\ watch'.pc = "log" /\ watch'.sig = clock
    BY <1>12 DEF WatcherSign, feed
  <2>2. Pending' = Pending /\ (Writing' <=> Writing)
    BY <2>1 DEF Pending, Untold, Writing
  <2>3. \A r \in Pending : clock >= file[r]
    BY <1>0, <1>2
  <2> QED
    BY <1>0, <2>1, <2>2, <2>3 DEF HandlersCover, WatcherCovers
<1>13. CASE WatcherLog
  <2>1. UNCHANGED <<file, recent, reports, handler>> /\ watch.pc = "log"
    BY <1>13 DEF WatcherLog
  <2>2. CASE Echo
    <3>1. UNCHANGED <<told, mixed, torn>>
      BY <1>13, <2>2 DEF WatcherLog
    <3>2. Pending' = Pending /\ (Writing' <=> Writing)
      BY <2>1, <3>1 DEF Pending, Untold, Writing
    <3>3. ~Writing => recent = watch.sig
      BY <1>3, <2>2 DEF Echo
    <3>4. ~Writing => \A r \in Pending : reports
      BY <1>0, <1>2, <2>1, <3>3 DEF WatcherCovers
    <3> QED
      BY <1>0, <2>1, <3>2, <3>4 DEF HandlersCover, WatcherCovers
  <2>3. CASE ~Echo
    <3>1. \A r \in Ranges : told'[r] = file'[r]
      BY <1>13, <2>1, <2>3 DEF WatcherLog, Log
    <3>2. Pending' = {}
      BY <1>2, <3>1
    <3> QED
      BY <3>2 DEF HandlersCover, WatcherCovers
  <2> QED
    BY <2>2, <2>3
<1>14. CASE Expire
  <2>1. UNCHANGED <<file, told, reports, watch, handler, mixed, torn>> /\ recent' = 0
    BY <1>14 DEF Expire
  <2>2. Pending' = Pending /\ (Writing' <=> Writing)
    BY <2>1 DEF Pending, Untold, Writing
  <2>3. \A r \in Pending : file[r] \in Nat
    BY <1>0, <1>2
  <2> QED
    BY <1>0, <2>1, <2>2, <2>3 DEF HandlersCover, WatcherCovers
<1>15. CASE UNCHANGED watcherVars
  <2>1. UNCHANGED <<file, recent, told, reports, watch, handler, mixed, torn>>
    BY <1>15 DEF watcherVars, feed
  <2>2. Pending' = Pending /\ (Writing' <=> Writing)
    BY <2>1 DEF Pending, Untold, Writing
  <2> QED
    BY <1>0, <2>1, <2>2 DEF HandlersCover, WatcherCovers
<1> QED
  BY <1>4, <1>5, <1>6, <1>7, <1>8, <1>9, <1>10, <1>11, <1>12, <1>13, <1>14, <1>15
  DEF WatcherNext, HandlerStep

\* When nothing is under way and all reports are read, every change of the file
\* is in the log, but for edits on the server that a mobfs write overlapped and
\* for what a broken stream wrote.
THEOREM ChangesAnnounced == WatcherSpec => []Announced
<1>1. WatcherInv => Announced
  BY DEF WatcherInv, WatcherCovers, Announced, Settled, Pending
<1> QED
  BY <1>1, InitWatcherInv, NextWatcherInv, PTL DEF WatcherSpec
=============================================================================
