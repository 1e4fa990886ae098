---------------------------- MODULE FeedWatcher -----------------------------
(***************************************************************************)
(* How changes of one file get into the daemon's event log (changes.rs):   *)
(* the requests of mounts record their own changes, the file system        *)
(* watcher reports everything, and a filter drops what it takes for an     *)
(* echo of the former: reports on a path with a streamed write under way,  *)
(* and reports that find the file with the size and time it had when a     *)
(* request last recorded a change.                                         *)
(*                                                                         *)
(* The file consists of ranges, each with the number of its last change;   *)
(* every change gives the file a new signature.  The log (module           *)
(* ChangeFeed) is reduced to what its events cover: the number of the      *)
(* last change of each range that a mount is told of.                      *)
(*                                                                         *)
(* mixed and torn are histories: ranges edited on the server with a mobfs  *)
(* write to the file under way before the edit was reported, and ranges    *)
(* that a broken stream wrote.                                             *)
(***************************************************************************)
EXTENDS Naturals, Sequences, FiniteSets

CONSTANTS N,            \* ranges of the file
          Handlers,     \* request threads of the daemon
          Announce,     \* pieces of a stream per event: STREAM_ANNOUNCE_BYTES
          MaxChanges    \* bound: changes of the file

ASSUME FeedWatcherAssumption ==
  /\ N \in Nat /\ Announce \in Nat \ {0} /\ MaxChanges \in Nat
  /\ IsFiniteSet(Handlers)

Ranges == 1..N

VARIABLES file,         \* last change of each range
          clock,        \* changes so far; the last one is the file's signature
          busy,         \* streamed writes under way
          recent,       \* signature at the last record of a request, 0 when none or expired
          told,         \* what the log covers
          reports,      \* whether the watcher has something to read
          watch,        \* the watcher's thread in push
          handler,      \* requests
          mixed, torn   \* histories

feed == <<busy, recent, told>>
watcherVars == <<file, clock, feed, reports, watch, handler, mixed, torn>>

NoRequest == [pc |-> "idle", stream |-> FALSE, todo |-> <<>>, open |-> {}, sig |-> 0]

WatcherInit ==
  /\ file = [r \in Ranges |-> 0] /\ told = file
  /\ clock = 0 /\ busy = 0 /\ recent = 0
  /\ reports = FALSE
  /\ watch = [pc |-> "idle", sig |-> 0]
  /\ handler = [h \in Handlers |-> NoRequest]
  /\ mixed = {} /\ torn = {}

ChangeRanges(S) ==
  /\ clock < MaxChanges /\ clock' = clock + 1
  /\ file' = [r \in Ranges |-> IF r \in S THEN clock' ELSE file[r]]
  /\ reports' = TRUE

\* Events are appended for the ranges S.
Log(S) ==
  /\ told' = [r \in Ranges |-> IF r \in S THEN file[r] ELSE told[r]]
  /\ mixed' = mixed \ S
  /\ torn' = torn \ S

Untold == {r \in Ranges : told[r] # file[r]}
Writing == \E h \in Handlers : handler[h].pc # "idle"

\* An edit on the server.
Edit(S) ==
  /\ ChangeRanges(S)
  /\ mixed' = IF Writing THEN mixed \cup S ELSE mixed
  /\ UNCHANGED <<feed, watch, handler, torn>>

-----------------------------------------------------------------------------
(* Requests. *)

Begin(h, request) ==
  /\ handler[h].pc = "idle"
  /\ handler' = [handler EXCEPT ![h] = request]
  /\ mixed' = mixed \cup Untold

\* A streamed write of consecutive ranges takes its guard first.
BeginStream(h, first, last) ==
  /\ Begin(h, [NoRequest EXCEPT !.pc = "piece", !.stream = TRUE,
                                !.todo = [i \in 1..(last + 1 - first) |-> first + i - 1]])
  /\ busy' = busy + 1
  /\ UNCHANGED <<file, clock, recent, told, reports, watch, torn>>

\* A request that makes its change in one go and records it as the change of a
\* range (a write) or of the whole path.
WriteAtOnce(h, S) ==
  /\ Begin(h, [NoRequest EXCEPT !.pc = "sign", !.open = S])
  /\ ChangeRanges(S)
  /\ UNCHANGED <<feed, watch, torn>>

\* A piece is written, and an event is due after so many, or at the end.
Piece(h) ==
  LET r == Head(handler[h].todo)
      left == Tail(handler[h].todo)
      open == handler[h].open \cup {r}
  IN /\ handler[h].pc = "piece"
     /\ ChangeRanges({r})
     /\ handler' = [handler EXCEPT ![h].todo = left, ![h].open = open,
                      ![h].pc = IF Cardinality(open) >= Announce \/ left = <<>>
                                THEN "sign" ELSE "piece"]
     /\ UNCHANGED <<feed, watch, mixed, torn>>

\* Mutant: the guard outlives a broken stream.
BreakStreamGuarded(h) ==
  /\ handler[h].pc = "piece"
  /\ handler' = [handler EXCEPT ![h] = NoRequest]
  /\ torn' = torn \cup handler[h].open
  /\ UNCHANGED <<file, clock, feed, reports, watch, mixed>>

\* The connection breaks: the request ends, what it wrote stays.
BreakStream(h) ==
  /\ handler[h].pc = "piece"
  /\ handler' = [handler EXCEPT ![h] = NoRequest]
  /\ busy' = busy - 1
  /\ torn' = torn \cup handler[h].open
  /\ UNCHANGED <<file, clock, recent, told, reports, watch, mixed>>

\* push: the signature is taken before the lock.
Sign(h) ==
  /\ handler[h].pc = "sign"
  /\ handler' = [handler EXCEPT ![h].pc = "log", ![h].sig = clock]
  /\ UNCHANGED <<file, clock, feed, reports, watch, mixed, torn>>

\* The change is logged; the guard goes with the end of a stream.
RecordWrite(h) ==
  LET ends == handler[h].todo = <<>>
  IN /\ handler[h].pc = "log"
     /\ recent' = handler[h].sig
     /\ Log(handler[h].open)
     /\ busy' = IF ends /\ handler[h].stream THEN busy - 1 ELSE busy
     /\ handler' = [handler EXCEPT ![h] = IF ends THEN NoRequest
                                          ELSE [@ EXCEPT !.pc = "piece", !.open = {}, !.sig = 0]]
     /\ UNCHANGED <<file, clock, reports, watch>>

-----------------------------------------------------------------------------
(* The watcher. *)

\* A report is read: nothing comes of it while the path is busy.
ReadReport ==
  /\ reports /\ watch.pc = "idle"
  /\ reports' \in BOOLEAN
  /\ watch' = IF busy > 0 THEN watch ELSE [watch EXCEPT !.pc = "sign"]
  /\ UNCHANGED <<file, clock, feed, handler, mixed, torn>>

WatcherSign ==
  /\ watch.pc = "sign"
  /\ watch' = [pc |-> "log", sig |-> clock]
  /\ UNCHANGED <<file, clock, feed, reports, handler, mixed, torn>>

\* Mutant: every report within the window is taken for an echo.
EchoByTime == busy > 0 \/ recent # 0

\* Under the lock: busy is tested again, then the signature.
Echo == busy > 0 \/ (recent # 0 /\ recent = watch.sig)

WatcherLog ==
  /\ watch.pc = "log"
  /\ IF Echo THEN UNCHANGED <<told, mixed, torn>> ELSE Log(Ranges)
  /\ watch' = [pc |-> "idle", sig |-> 0]
  /\ UNCHANGED <<file, clock, busy, recent, reports, handler>>

\* ECHO_WINDOW has passed since the record.
Expire ==
  /\ recent # 0 /\ recent' = 0
  /\ UNCHANGED <<file, clock, busy, told, reports, watch, handler, mixed, torn>>

-----------------------------------------------------------------------------
\* One range, or the whole file.
Extents == {{r} : r \in Ranges} \cup {Ranges}

HandlerStep(h) ==
  \/ \E i, j \in Ranges : i <= j /\ BeginStream(h, i, j)
  \/ \E S \in Extents : WriteAtOnce(h, S)
  \/ Piece(h) \/ BreakStream(h) \/ Sign(h) \/ RecordWrite(h)

WatcherNext ==
  \/ \E S \in Extents : Edit(S)
  \/ \E h \in Handlers : HandlerStep(h)
  \/ ReadReport \/ WatcherSign \/ WatcherLog \/ Expire

WatcherSpec == WatcherInit /\ [][WatcherNext]_watcherVars

-----------------------------------------------------------------------------
(* Properties. *)

\* The count of busy writes is that of the streams under way: the filter is lifted
\* when the last of them ends, broken or not.
WatcherTypeOK ==
  /\ file \in [Ranges -> 0..clock] /\ told \in [Ranges -> 0..clock]
  /\ clock \in 0..MaxChanges /\ recent \in 0..clock
  /\ busy = Cardinality({h \in Handlers : handler[h].stream})
  /\ reports \in BOOLEAN
  /\ watch \in [pc : {"idle", "sign", "log"}, sig : 0..clock]
  /\ \A h \in Handlers : handler[h].pc \in {"idle", "piece", "sign", "log"}
  /\ mixed \subseteq Ranges /\ torn \subseteq Ranges

Settled == ~reports /\ watch.pc = "idle" /\ ~Writing

\* When nothing is under way and all reports are read, every change is in the
\* log, except for edits on the server that a write through mobfs to the same
\* file overlapped or followed before they were reported, and for the ranges
\* that a broken stream wrote: the filter drops nothing else.
Announced == Settled => Untold \subseteq mixed \cup torn
=============================================================================
