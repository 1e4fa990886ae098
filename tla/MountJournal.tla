---------------------------- MODULE MountJournal ----------------------------
(***************************************************************************)
(* Vfs::mutate and the mount's journal file (vfs.rs): a metadata operation *)
(* is appended to the journal, carried out by the daemon and the journal   *)
(* is cleared; when the connection fails, or the mount died, what is in    *)
(* the journal is replayed.                                                *)
(*                                                                         *)
(* The file holds the records of all mutations of the mount.  An operation *)
(* of the pool (RemoteOp) is one step here: it is carried out, refused, or *)
(* fails in transport.  Whenever a connection broke under a request, its   *)
(* thread in the daemon may still carry it out at any later time: such     *)
(* requests are in stray.  A replay uses new operation ids, so the         *)
(* daemon's markers do not stop a second effect.                           *)
(*                                                                         *)
(* create and mkdir send two requests, of which the record has the first.  *)
(* An append that fails may leave a part of its line in the file, and the  *)
(* next record then ends up on that line; a line that cannot be read is    *)
(* skipped by the replay.  Operations are numbered in the order of calls.  *)
(*                                                                         *)
(* Mutators are the threads that run mutations: the one session thread of  *)
(* a FUSE mount, or several of the NFS server's blocking threads.          *)
(***************************************************************************)
EXTENDS Naturals, Sequences, FiniteSets, Functions

CONSTANTS Mutators,
          Twofold,              \* operations with a request that is not on record
          DEFAULT_OP_RETRIES,   \* replays that recover_journal tries
          MaxOps,               \* bound: operations called
          MaxFaults,            \* bound: failures of the connection or the local disk
          MaxCrashes            \* bound: deaths of the mount

ASSUME MountJournalAssumption ==
  /\ DEFAULT_OP_RETRIES \in Nat \ {0}
  /\ MaxOps \in Nat /\ MaxFaults \in Nat /\ MaxCrashes \in Nat

Ops == 1..MaxOps
Requests == Ops \X {"main", "rest"}
Unreadable == 0

VARIABLES journal,   \* the lines of the file: records, or Unreadable
          unended,   \* the last one has no newline
          mounted,
          th,        \* what each thread is doing
          calls,     \* what the callers see; "cut" when the mount died on it
          stray,     \* requests whose connection broke and that may yet be carried out
          faults, crashes

VARIABLES applied,   \* history: how often the server carried a request out
          refused,   \* history: operations the server refused
          broken,    \* history: operations that failed in transport
          torn       \* history: operations whose record cannot be read

file == <<journal, unended>>
server == <<stray, applied, refused>>
vars == <<file, mounted, th, calls, server, faults, crashes, broken, torn>>

Idle == [pc |-> "idle", op |-> 0, result |-> "ok", attempt |-> 0, queue |-> <<>>]

Init ==
  /\ journal = <<>> /\ unended = FALSE /\ mounted = FALSE
  /\ th = [m \in Mutators |-> Idle]
  /\ calls = [o \in Ops |-> "idle"]
  /\ stray = {} /\ faults = 0 /\ crashes = 0
  /\ applied = [r \in Requests |-> 0] /\ refused = {}
  /\ broken = {} /\ torn = {}

Fault == faults < MaxFaults /\ faults' = faults + 1
Apply(r) == applied' = [applied EXCEPT ![r] = @ + 1]

\* A request of a broken connection.  A request that is answered may have broken
\* before, and been sent again.
LeftBehind(m, r) == stray' = stray \cup {<<r, m, faults + crashes>>}
Retried(m, r) == UNCHANGED <<faults, stray>> \/ (Fault /\ LeftBehind(m, r))

\* The call returns and its thread is free again.
Finish(m, result) ==
  /\ calls' = [calls EXCEPT ![th[m].op] = result]
  /\ th' = [th EXCEPT ![m] = Idle]

-----------------------------------------------------------------------------
(* mutate. *)

NextOp(o) == calls[o] = "idle" /\ \A p \in 1..(o - 1) : calls[p] # "idle"

\* append_journal: a line, unless the last one was not ended.
Written(o, line, ended) ==
  /\ journal' = IF unended THEN [journal EXCEPT ![Len(journal)] = Unreadable]
                ELSE Append(journal, line)
  /\ unended' = ~ended
  /\ torn' = torn \cup (Range(Append(journal, o)) \ Range(journal'))

\* It stops within the line, before the newline, or before the line is synced.
WrittenInPart(o) ==
  Written(o, Unreadable, FALSE) \/ Written(o, o, FALSE) \/ Written(o, o, TRUE)

\* record: the operation is in the file, and synced, before it is sent.
Record(m, o) ==
  /\ mounted /\ th[m].pc = "idle" /\ NextOp(o)
  /\ Written(o, o, TRUE)
  /\ calls' = [calls EXCEPT ![o] = "called"]
  /\ th' = [th EXCEPT ![m] = [Idle EXCEPT !.pc = "act", !.op = o]]
  /\ UNCHANGED <<mounted, server, faults, crashes, broken>>

RecordFails(m, o) ==
  /\ mounted /\ th[m].pc = "idle" /\ NextOp(o)
  /\ Fault
  /\ WrittenInPart(o) \/ UNCHANGED <<file, torn>>
  /\ calls' = [calls EXCEPT ![o] = "error"]
  /\ UNCHANGED <<mounted, th, server, crashes, broken>>

Acting(m) == th[m].pc \in {"act", "rest"}
Request(m) == <<th[m].op, IF th[m].pc = "rest" THEN "rest" ELSE "main">>

\* A request is carried out, or refused by the server.
ActOk(m) ==
  /\ Acting(m)
  /\ Apply(Request(m)) /\ Retried(m, Request(m))
  /\ th' = [th EXCEPT ![m].pc = IF @ = "act" /\ th[m].op \in Twofold THEN "rest" ELSE "clear"]
  /\ UNCHANGED <<file, mounted, calls, crashes, refused, broken, torn>>

ActRefused(m) ==
  /\ Acting(m)
  /\ refused' = refused \cup {th[m].op} /\ Retried(m, Request(m))
  /\ th' = [th EXCEPT ![m].pc = "clear", ![m].result = "error"]
  /\ UNCHANGED <<file, mounted, calls, crashes, applied, broken, torn>>

\* Another failure: no answer.
ActBroken(m) ==
  /\ Acting(m)
  /\ Fault /\ LeftBehind(m, Request(m))
  /\ broken' = broken \cup {th[m].op}
  /\ th' = [th EXCEPT ![m].pc = "recover"]
  /\ UNCHANGED <<file, mounted, calls, crashes, applied, refused, torn>>

\* The thread of a broken connection carries its request out.
StrayEffect(s) ==
  /\ stray' = stray \ {s} /\ Apply(s[1])
  /\ UNCHANGED <<file, mounted, th, calls, refused, faults, crashes, broken, torn>>

\* A mutant: the operation is over for its caller, and the record stays.
ClearNothing(m) ==
  /\ th[m].pc = "clear"
  /\ Finish(m, th[m].result)
  /\ UNCHANGED <<file, mounted, server, faults, crashes, broken, torn>>

\* clear_record empties the file, whatever is in it, and mutate returns.
Emptied == journal' = <<>> /\ unended' = FALSE

Clear(m) ==
  /\ th[m].pc = "clear"
  /\ Emptied
  /\ Finish(m, th[m].result)
  /\ UNCHANGED <<mounted, server, faults, crashes, broken, torn>>

ClearFails(m) ==
  /\ th[m].pc = "clear"
  /\ Fault
  /\ Emptied \/ UNCHANGED file
  /\ Finish(m, "error")
  /\ UNCHANGED <<mounted, server, crashes, broken, torn>>

-----------------------------------------------------------------------------
(* recover_journal and replay_journal. *)

\* A mutant: one attempt too many.
AttemptFailsLate(m) ==
  IF mounted /\ th[m].attempt < DEFAULT_OP_RETRIES
  THEN /\ th' = [th EXCEPT ![m].pc = "recover", ![m].attempt = @ + 1, ![m].queue = <<>>]
       /\ UNCHANGED calls
  ELSE IF mounted THEN Finish(m, "error")
  ELSE th' = [th EXCEPT ![m] = Idle] /\ UNCHANGED calls

\* A mutant: the failure of the last attempt is not reported.
AttemptFailsSilently(m) ==
  IF mounted /\ th[m].attempt + 1 < DEFAULT_OP_RETRIES
  THEN /\ th' = [th EXCEPT ![m].pc = "recover", ![m].attempt = @ + 1, ![m].queue = <<>>]
       /\ UNCHANGED calls
  ELSE IF mounted THEN Finish(m, "ok")
  ELSE th' = [th EXCEPT ![m] = Idle] /\ UNCHANGED calls

\* An attempt fails: mutate gives up after the last one, and so does the start
\* of the mount after its only one.  The journal stays.
AttemptFails(m) ==
  IF mounted /\ th[m].attempt + 1 < DEFAULT_OP_RETRIES
  THEN /\ th' = [th EXCEPT ![m].pc = "recover", ![m].attempt = @ + 1, ![m].queue = <<>>]
       /\ UNCHANGED calls
  ELSE IF mounted THEN Finish(m, "error")
  ELSE th' = [th EXCEPT ![m] = Idle] /\ UNCHANGED calls

\* The client is connected again and the file is read.
Reconnect(m) ==
  /\ th[m].pc = "recover"
  /\ th' = [th EXCEPT ![m].pc = "replay", ![m].queue = journal]
  /\ UNCHANGED <<file, mounted, calls, server, faults, crashes, broken, torn>>

ReconnectFails(m) ==
  /\ th[m].pc = "recover"
  /\ Fault
  /\ AttemptFails(m)
  /\ UNCHANGED <<file, mounted, server, crashes, broken, torn>>

\* apply_journal_op of the next record, if it can be read.
Replaying(m) == th[m].pc = "replay" /\ th[m].queue # <<>> /\ Head(th[m].queue) # Unreadable
Replayed(m) == <<Head(th[m].queue), "main">>

ReplayOk(m) ==
  /\ Replaying(m)
  /\ Apply(Replayed(m)) /\ Retried(m, Replayed(m))
  /\ th' = [th EXCEPT ![m].queue = Tail(@)]
  /\ UNCHANGED <<file, mounted, calls, crashes, refused, broken, torn>>

\* A mutant: a refused record ends the replay and stays.
ReplayRefusedFatal(m) ==
  /\ Replaying(m)
  /\ AttemptFails(m)
  /\ UNCHANGED <<file, mounted, server, faults, crashes, broken, torn>>

\* A record the server refuses is dropped.
ReplayRefused(m) ==
  /\ Replaying(m)
  /\ refused' = refused \cup {Head(th[m].queue)} /\ Retried(m, Replayed(m))
  /\ th' = [th EXCEPT ![m].queue = Tail(@)]
  /\ UNCHANGED <<file, mounted, calls, crashes, applied, broken, torn>>

ReplaySkip(m) ==
  /\ th[m].pc = "replay" /\ th[m].queue # <<>> /\ ~Replaying(m)
  /\ th' = [th EXCEPT ![m].queue = Tail(@)]
  /\ UNCHANGED <<file, mounted, calls, server, faults, crashes, broken, torn>>

ReplayBroken(m) ==
  /\ Replaying(m)
  /\ Fault /\ LeftBehind(m, Replayed(m))
  /\ AttemptFails(m)
  /\ UNCHANGED <<file, mounted, crashes, applied, refused, broken, torn>>

\* All records are replayed: the file is emptied, and mutate, or the mount, goes on.
ReplayDone(m) ==
  /\ th[m].pc = "replay" /\ th[m].queue = <<>>
  /\ Emptied
  /\ mounted' = TRUE
  /\ th' = [th EXCEPT ![m] = IF mounted THEN [@ EXCEPT !.pc = "clear"] ELSE Idle]
  /\ UNCHANGED <<calls, server, faults, crashes, broken, torn>>

ReplayNotCleared(m) ==
  /\ th[m].pc = "replay" /\ th[m].queue = <<>>
  /\ Fault
  /\ Emptied \/ UNCHANGED file
  /\ AttemptFails(m)
  /\ UNCHANGED <<mounted, server, crashes, broken, torn>>

-----------------------------------------------------------------------------
(* The mount. *)

\* A mutant: the journal is left to the first failure.
StartEmpty(m) ==
  /\ ~mounted /\ \A n \in Mutators : th[n].pc = "idle"
  /\ th' = [th EXCEPT ![m].pc = "replay"]
  /\ UNCHANGED <<file, mounted, calls, server, faults, crashes, broken, torn>>

\* Vfs::start connects and replays before anything else.
Start(m) ==
  /\ ~mounted /\ \A n \in Mutators : th[n].pc = "idle"
  /\ th' = [th EXCEPT ![m].pc = "replay", ![m].queue = journal]
  /\ UNCHANGED <<file, mounted, calls, server, faults, crashes, broken, torn>>

\* The mount's process dies; the file stays, and so do the requests it has sent.
Sent ==
  {<<Request(m), m, faults + crashes>> : m \in {n \in Mutators : Acting(n)}}
    \cup {<<Replayed(m), m, faults + crashes>> : m \in {n \in Mutators : Replaying(n)}}

Dies(called) ==
  /\ crashes < MaxCrashes
  /\ crashes' = crashes + 1
  /\ mounted' = FALSE
  /\ th' = [m \in Mutators |-> Idle]
  /\ calls' = [o \in Ops |-> IF o \in called THEN "cut" ELSE calls[o]]
  /\ stray' = stray \cup Sent
  /\ UNCHANGED <<applied, refused, faults, broken>>

Called == {o \in Ops : calls[o] = "called"}

Crash == Dies(Called) /\ UNCHANGED <<file, torn>>

CrashInRecord(m, o) ==
  /\ mounted /\ th[m].pc = "idle" /\ NextOp(o)
  /\ WrittenInPart(o)
  /\ Dies(Called \cup {o})

Runs(m) ==
  \/ ActOk(m) \/ ActRefused(m) \/ ActBroken(m)
  \/ Clear(m) \/ ClearFails(m)
  \/ Reconnect(m) \/ ReconnectFails(m)
  \/ ReplayOk(m) \/ ReplayRefused(m) \/ ReplaySkip(m) \/ ReplayBroken(m)
  \/ ReplayDone(m) \/ ReplayNotCleared(m)

Next ==
  \/ Crash
  \/ \E m \in Mutators : Runs(m) \/ Start(m)
  \/ \E m \in Mutators, o \in Ops : Record(m, o) \/ RecordFails(m, o) \/ CrashInRecord(m, o)
  \/ \E s \in stray : StrayEffect(s)

Spec == Init /\ [][Next]_vars

\* A thread in a mutation, or in a replay, goes on, and a mount that died is
\* mounted again.
FairSpec == Spec /\ \A m \in Mutators : WF_vars(Runs(m)) /\ WF_vars(Start(m))

-----------------------------------------------------------------------------
(* Properties. *)

Lines == Ops \cup {Unreadable}
Thread == [pc : {"idle", "act", "rest", "clear", "recover", "replay"},
           op : 0..MaxOps, result : {"ok", "error"},
           attempt : 0..(DEFAULT_OP_RETRIES - 1), queue : Seq(Lines)]
Call == {"idle", "called", "ok", "error", "cut"}

\* The types; recover_journal never makes more than its attempts.
TypeOK ==
  /\ journal \in Seq(Lines) /\ unended \in BOOLEAN /\ (unended => journal # <<>>)
  /\ mounted \in BOOLEAN
  /\ th \in [Mutators -> Thread]
  /\ calls \in [Ops -> Call]
  /\ stray \subseteq Requests \X Mutators \X Nat
  /\ faults \in 0..MaxFaults /\ crashes \in 0..MaxCrashes
  /\ applied \in [Requests -> Nat]
  /\ refused \subseteq Ops /\ broken \subseteq Ops /\ torn \subseteq Ops

\* All requests of the operation were carried out, ...
Done(o) == applied[<<o, "main">>] > 0 /\ (o \in Twofold => applied[<<o, "rest">>] > 0)

\* ... or what its record has, or that was refused, or the record is lost.
Settled(o) == applied[<<o, "main">>] > 0 \/ o \in refused \/ o \in torn

\* A mutation that returns Ok was carried out in full, unless it failed in
\* transport: then mutate takes a replay that went through for success, and at
\* least what is on record was carried out, or the server refused it in that
\* replay, or the record got onto the rest of a line that could not be written.
OkSettled == \A o \in Ops : calls[o] = "ok" => Done(o) \/ (o \in broken /\ Settled(o))

\* Once the mount is up again, nothing that it was doing when it died is in
\* limbo: the record was on disk before the request was sent, and Vfs::start
\* replays it, unless the record itself was not written as a whole.
CrashRecovered == mounted => \A o \in Ops : calls[o] = "cut" => Settled(o)

\* An operation takes effect only as long as neither it nor an operation called
\* after it has returned Ok: no replay and no crash ever repeats an old operation
\* on a tree that has moved on.  The exception is a request whose connection
\* broke, which the daemon may carry out later, once.
NoLateReplay ==
  [][\A r \in Requests : applied'[r] > applied[r] =>
       \/ \A p \in r[1]..MaxOps : calls[p] # "ok"
       \/ \E s \in stray \ stray' : s[1] = r]_vars

\* Every mutation returns or is cut off by the death of the mount, and the
\* journal of a dead mount is replayed: recovery is bounded by its attempts.
JournalDrains ==
  /\ \A o \in Ops : calls[o] = "called" ~> calls[o] # "called"
  /\ ~mounted ~> mounted

\* What doctor says of a journal that is not empty (sync.rs): its operations
\* will be replayed.  A record leaves the file only when the server has carried
\* its operation out or refused it.
PendingKept == [][\A o \in (Range(journal) \ Range(journal')) \cap Ops : Settled(o)']_vars
=============================================================================
