----------------------------- MODULE WriteBack ------------------------------
(***************************************************************************)
(* The write path of a mount (vfs.rs): one write buffer per file handle,   *)
(* uploads that run in the background, and the operations that promise the *)
(* data is on the server (flush, fsync, the flush before a read).          *)
(*                                                                         *)
(* Two locks: write_buffers and uploads.  An action is what a thread does  *)
(* under one acquisition.  Between taking a buffer out of write_buffers    *)
(* (dispatch_fh, or the displacement in write) and entering it in          *)
(* uploads.inflight, a thread has the data in hand and neither map shows   *)
(* it.                                                                     *)
(*                                                                         *)
(* Data: a file is a row of cells; a write puts its own number into the    *)
(* cells it covers, so that every byte ever written can be told apart.     *)
(***************************************************************************)
EXTENDS Integers, Sequences, FiniteSets, FiniteSetsExt, Functions

CONSTANTS Files,
          Handles,        \* file handles, numbers: BTreeMap iterates in order
          FileOf,         \* the file each handle is open on
          Threads,        \* threads that run requests
          Flusher,        \* the idle flusher thread
          MaxOffset,      \* bound: cells 0..MaxOffset
          MaxLen,         \* bound: longest single write (a kernel request is
                          \* smaller than a buffer)
          MaxWrites,      \* bound: number of write calls
          MaxCalls,       \* bound: number of other calls
          MaxFaults,      \* bound: uploads that fail
          Ops,            \* which of flush, fsync, read run in this instance
          WRITE_BUFFER_LIMIT,        \* cells in one buffer
          MAX_INFLIGHT_UPLOAD_BYTES  \* cells in flight

ASSUME WriteBackAssumption ==
  /\ Handles \subseteq Nat \ {0} /\ IsFiniteSet(Handles)
  /\ FileOf \in [Handles -> Files]
  /\ Flusher \notin Threads
  /\ MaxOffset \in Nat /\ MaxWrites \in Nat /\ MaxCalls \in Nat /\ MaxFaults \in Nat
  /\ Ops \subseteq {"flush", "fsync", "read"}
  /\ WRITE_BUFFER_LIMIT \in Nat \ {0} /\ MaxLen \in 1..WRITE_BUFFER_LIMIT
  /\ MAX_INFLIGHT_UPLOAD_BYTES \in Nat /\ MAX_INFLIGHT_UPLOAD_BYTES >= WRITE_BUFFER_LIMIT

VARIABLES
  server,         \* file -> cell -> number of the write it shows (0: none)
  write_buffers,  \* handle -> pending write
  inflight,       \* uploads.inflight: upload id -> upload
  nextUpload,     \* uploads.next
  bytes,          \* uploads.bytes
  errors,         \* uploads.errors: handles with an error to report
  th,             \* what every thread is doing
  writes, calls, faults,   \* counters for the bounds
  acked,          \* history: cells <<handle, cell, n>> write has returned Ok for
  landed,         \* history: cells that reached the server
  dropped,        \* history: cells whose upload failed
  told            \* history: dropped cells whose error a call returned, and
                  \* whether that call was one on the cell's own handle

counters == <<writes, calls, faults>>
history == <<acked, landed, dropped, told>>
uploads == <<inflight, nextUpload, bytes, errors>>
vars == <<server, write_buffers, uploads, th, counters, history>>

Everyone == Threads \cup {Flusher}
NoBuffer == [offset |-> 0, data |-> <<>>]
Idle == [op |-> "idle"]

\* The cells of a pending write of handle fh.
CellsOf(fh, b) == {<<fh, b.offset + i - 1, b.data[i]>> : i \in 1..Len(b.data)}

-----------------------------------------------------------------------------
(* write_buffers *)

Bytes(n, len) == [i \in 1..len |-> n]

Without(f, x) == Restrict(f, DOMAIN f \ {x})
With(f, x, v) == [y \in DOMAIN f \cup {x} |-> IF y = x THEN v ELSE f[y]]

\* A mutant: the size of the buffer is not tested.
AppendsUnlimited(fh, offset, len) ==
  /\ fh \in DOMAIN write_buffers
  /\ write_buffers[fh].offset + Len(write_buffers[fh].data) = offset

\* The test in write: the new data continues the pending data and fits.
Appends(fh, offset, len) ==
  /\ fh \in DOMAIN write_buffers
  /\ write_buffers[fh].offset + Len(write_buffers[fh].data) = offset
  /\ Len(write_buffers[fh].data) + len <= WRITE_BUFFER_LIMIT

\* take_upload_error, called on behalf of handle own (0: of none): the error is
\* handed over once, and removed.
TakeError(fh, own) ==
  /\ errors' = errors \ {fh}
  /\ told' = told \cup {<<c, own = fh>> : c \in {d \in dropped : d[1] = fh}}

\* A mutant: a full or non-adjacent buffer is overwritten, not displaced.
WriteOverwriting(t, fh, offset, len) ==
  /\ th[t].op = "idle" /\ writes < MaxWrites /\ fh \notin errors
  /\ writes' = writes + 1
  /\ write_buffers' = With(write_buffers, fh,
       IF Appends(fh, offset, len)
       THEN [write_buffers[fh] EXCEPT !.data = @ \o Bytes(writes + 1, len)]
       ELSE [offset |-> offset, data |-> Bytes(writes + 1, len)])
  /\ acked' = acked \cup CellsOf(fh, [offset |-> offset, data |-> Bytes(writes + 1, len)])
  /\ UNCHANGED <<server, uploads, th, calls, faults, landed, dropped, told>>

\* Vfs::write.  An error of an earlier upload on the handle is returned instead.
\* Otherwise the data extends the pending write or displaces it; a displaced one
\* is dispatched by this thread before the call returns.
Write(t, fh, offset, len) ==
  LET new == [offset |-> offset, data |-> Bytes(writes + 1, len)]
      displaces == fh \in DOMAIN write_buffers /\ ~Appends(fh, offset, len)
  IN
  /\ th[t].op = "idle" /\ writes < MaxWrites
  /\ fh \notin errors
  /\ writes' = writes + 1
  /\ IF displaces
     THEN /\ th' = [th EXCEPT ![t] = [op |-> "write", fh |-> fh, todo |-> {}, file |-> FileOf[fh],
                                      handFh |-> fh, hand |-> write_buffers[fh],
                                      all |-> {}, must |-> CellsOf(fh, new)]]
          /\ UNCHANGED acked
     ELSE /\ acked' = acked \cup CellsOf(fh, new)
          /\ UNCHANGED th
  /\ write_buffers' = With(write_buffers, fh,
       IF Appends(fh, offset, len)
       THEN [write_buffers[fh] EXCEPT !.data = @ \o new.data] ELSE new)
  /\ UNCHANGED <<server, uploads, calls, faults, landed, dropped, told>>

WriteReportsError(t, fh) ==
  /\ th[t].op = "idle"
  /\ fh \in errors
  /\ TakeError(fh, fh)
  /\ UNCHANGED <<server, write_buffers, inflight, nextUpload, bytes, th, counters,
                 acked, landed, dropped>>

\* write returns once its displaced buffer has been entered as an upload.
WriteReturn(t) ==
  /\ th[t].op = "write" /\ th[t].hand = NoBuffer
  /\ acked' = acked \cup th[t].must
  /\ th' = [th EXCEPT ![t] = Idle]
  /\ UNCHANGED <<server, write_buffers, uploads, counters, landed, dropped, told>>

-----------------------------------------------------------------------------
(* Dispatching. *)

\* The handles with a pending write on the file.
Buffered(file) == {fh \in DOMAIN write_buffers : FileOf[fh] = file}

Call(t, op, fh, todo, must) ==
  th' = [th EXCEPT ![t] = [op |-> op, fh |-> fh, todo |-> todo, file |-> FileOf[fh],
                           handFh |-> fh, hand |-> NoBuffer,
                           all |-> todo, must |-> must]]

Owed(fhs) == {c \in acked : c[1] \in fhs}
OnFile(file) == {fh \in Handles : FileOf[fh] = file}

Begin(t) ==
  /\ th[t].op = "idle" /\ calls < MaxCalls
  /\ calls' = calls + 1
  /\ UNCHANGED <<server, write_buffers, uploads, writes, faults, history>>

\* flush (close, release).
FlushStart(t, fh) ==
  /\ "flush" \in Ops
  /\ Begin(t) /\ Call(t, "flush", fh, {fh}, Owed({fh}))

\* fsync begins with flush of the handle ...
FsyncStart(t, fh) ==
  /\ "fsync" \in Ops
  /\ Begin(t) /\ Call(t, "fsync", fh, {fh}, Owed({fh}))

\* ... and read with flush_matching of the path; so does setattr.
ReadStart(t, fh) ==
  /\ "read" \in Ops
  /\ Begin(t) /\ Call(t, "read", fh, Buffered(FileOf[fh]), Owed(OnFile(FileOf[fh])))

\* flush_idle: the buffers that have not been touched for WRITE_IDLE_FLUSH.
SweepStart(idle) ==
  /\ th[Flusher].op = "idle"
  /\ idle # {} /\ idle \subseteq DOMAIN write_buffers
  /\ Call(Flusher, "sweep", Min(idle), idle, {})
  /\ UNCHANGED <<server, write_buffers, uploads, counters, history>>

\* dispatch_fh, for one handle after the other in the order of the map: the
\* buffer leaves write_buffers.
Take(t) ==
  /\ th[t].op # "idle" /\ th[t].op # "ok"
  /\ th[t].todo # {} /\ th[t].hand = NoBuffer
  /\ LET fh == Min(th[t].todo)
         has == fh \in DOMAIN write_buffers
     IN /\ th' = [th EXCEPT ![t].todo = @ \ {fh}, ![t].handFh = fh,
                            ![t].hand = IF has THEN write_buffers[fh] ELSE NoBuffer]
        /\ write_buffers' = Without(write_buffers, fh)
  /\ UNCHANGED <<server, uploads, counters, history>>

Overlaps(u, file, b) ==
  /\ u.file = file
  /\ u.offset < b.offset + Len(b.data)
  /\ b.offset < u.offset + Len(u.data)

\* A mutant: an upload may start while one it overlaps is in flight.
MayStartAnyway(file, b) ==
  DOMAIN inflight = {} \/ bytes + Len(b.data) <= MAX_INFLIGHT_UPLOAD_BYTES

\* The condition of the wait loop in dispatch_pending.
MayStart(file, b) ==
  /\ \A id \in DOMAIN inflight : ~Overlaps(inflight[id], file, b)
  /\ DOMAIN inflight = {} \/ bytes + Len(b.data) <= MAX_INFLIGHT_UPLOAD_BYTES

\* dispatch_pending: once it may start, the upload is entered and queued.
Enqueue(t) ==
  /\ th[t].op # "idle" /\ th[t].op # "ok" /\ th[t].hand # NoBuffer
  /\ LET b == th[t].hand
         file == FileOf[th[t].handFh]
     IN /\ MayStart(file, b)
        /\ nextUpload' = nextUpload + 1
        /\ bytes' = bytes + Len(b.data)
        /\ inflight' = With(inflight, nextUpload + 1,
             [fh |-> th[t].handFh, file |-> file, offset |-> b.offset, data |-> b.data,
              sent |-> FALSE])
  /\ th' = [th EXCEPT ![t].hand = NoBuffer]
  /\ UNCHANGED <<server, write_buffers, errors, counters, history>>

-----------------------------------------------------------------------------
(* Uploader jobs. *)

\* write_file_at takes effect on the server.
UploadSend(id) ==
  LET u == inflight[id]
  IN /\ ~u.sent
     /\ server' = [server EXCEPT ![u.file] = [x \in DOMAIN @ |->
          IF x \in u.offset..(u.offset + Len(u.data) - 1)
          THEN u.data[x - u.offset + 1] ELSE @[x]]]
     /\ inflight' = [inflight EXCEPT ![id].sent = TRUE]
     /\ landed' = landed \cup CellsOf(u.fh, u)
     /\ UNCHANGED <<write_buffers, nextUpload, bytes, errors, th, counters, acked, dropped, told>>

\* A mutant: the failure of an upload is not remembered.
UploadDoneSilent(id, failed) ==
  /\ inflight[id].sent \/ failed
  /\ failed => faults < MaxFaults
  /\ faults' = faults + (IF failed THEN 1 ELSE 0)
  /\ inflight' = Without(inflight, id)
  /\ bytes' = bytes - Len(inflight[id].data)
  /\ dropped' = IF failed /\ ~inflight[id].sent
                THEN dropped \cup CellsOf(inflight[id].fh, inflight[id]) ELSE dropped
  /\ UNCHANGED <<server, write_buffers, nextUpload, errors, th, writes, calls, acked, landed, told>>

\* A mutant: bytes is not given back when the upload fails.
UploadDoneLeaking(id, failed) ==
  /\ inflight[id].sent \/ failed
  /\ failed => faults < MaxFaults
  /\ faults' = faults + (IF failed THEN 1 ELSE 0)
  /\ inflight' = Without(inflight, id)
  /\ bytes' = IF failed THEN bytes ELSE bytes - Len(inflight[id].data)
  /\ errors' = IF failed THEN errors \cup {inflight[id].fh} ELSE errors
  /\ dropped' = IF failed /\ ~inflight[id].sent
                THEN dropped \cup CellsOf(inflight[id].fh, inflight[id]) ELSE dropped
  /\ UNCHANGED <<server, write_buffers, nextUpload, th, writes, calls, acked, landed, told>>

\* The job ends: the upload leaves inflight, and a failure is kept for the
\* handle.  An upload can fail although the server applied it (answer lost).
UploadDone(id, failed) ==
  /\ inflight[id].sent \/ failed
  /\ failed => faults < MaxFaults
  /\ faults' = faults + (IF failed THEN 1 ELSE 0)
  /\ inflight' = Without(inflight, id)
  /\ bytes' = bytes - Len(inflight[id].data)
  /\ errors' = IF failed THEN errors \cup {inflight[id].fh} ELSE errors
  /\ dropped' = IF failed /\ ~inflight[id].sent
                THEN dropped \cup CellsOf(inflight[id].fh, inflight[id]) ELSE dropped
  /\ UNCHANGED <<server, write_buffers, nextUpload, th, writes, calls, acked, landed, told>>

-----------------------------------------------------------------------------
(* Waiting for the uploads. *)

Dispatched(t) == th[t].todo = {} /\ th[t].hand = NoBuffer

Ok(t) == th' = [th EXCEPT ![t] = [op |-> "ok", by |-> @.op, fh |-> @.fh, must |-> @.must]]
Fail(t) == th' = [th EXCEPT ![t] = Idle]

\* A mutant: flush does not wait for the uploads of the handle.
FlushDoneEarly(t) ==
  /\ th[t].op \in {"flush", "fsync"} /\ Dispatched(t)
  /\ IF th[t].fh \in errors
     THEN TakeError(th[t].fh, th[t].fh) /\ Fail(t)
     ELSE /\ IF th[t].op = "flush" THEN Ok(t)
             ELSE Call(t, "match", th[t].fh, Buffered(th[t].file), th[t].must)
          /\ UNCHANGED <<errors, told>>
  /\ UNCHANGED <<server, write_buffers, inflight, nextUpload, bytes, counters,
                 acked, landed, dropped>>

\* A mutant: flush also waits for writes that arrived after it dispatched.
FlushDonePendingToo(t) ==
  /\ th[t].op \in {"flush", "fsync"} /\ Dispatched(t)
  /\ th[t].fh \notin DOMAIN write_buffers
  /\ \A id \in DOMAIN inflight : inflight[id].fh # th[t].fh
  /\ IF th[t].fh \in errors
     THEN TakeError(th[t].fh, th[t].fh) /\ Fail(t)
     ELSE /\ IF th[t].op = "flush" THEN Ok(t)
             ELSE Call(t, "match", th[t].fh, Buffered(th[t].file), th[t].must)
          /\ UNCHANGED <<errors, told>>
  /\ UNCHANGED <<server, write_buffers, inflight, nextUpload, bytes, counters,
                 acked, landed, dropped>>

\* flush: no upload of the handle is in flight; its error is returned if there
\* is one.  fsync goes on with flush_matching of the path.
FlushDone(t) ==
  /\ th[t].op \in {"flush", "fsync"} /\ Dispatched(t)
  /\ \A id \in DOMAIN inflight : inflight[id].fh # th[t].fh
  /\ IF th[t].fh \in errors
     THEN TakeError(th[t].fh, th[t].fh) /\ Fail(t)
     ELSE /\ IF th[t].op = "flush" THEN Ok(t)
             ELSE Call(t, "match", th[t].fh, Buffered(th[t].file), th[t].must)
          /\ UNCHANGED <<errors, told>>
  /\ UNCHANGED <<server, write_buffers, inflight, nextUpload, bytes, counters,
                 acked, landed, dropped>>

\* flush_matching: no upload to the path is in flight; of the handles it
\* dispatched, the first that has an error ends it.
MatchDone(t) ==
  /\ th[t].op \in {"match", "read"} /\ Dispatched(t)
  /\ \A id \in DOMAIN inflight : inflight[id].file # th[t].file
  /\ LET bad == th[t].all \cap errors
         own == IF th[t].op = "match" THEN th[t].fh ELSE 0
     IN IF bad # {}
        THEN TakeError(Min(bad), own) /\ Fail(t)
        ELSE Ok(t) /\ UNCHANGED <<errors, told>>
  /\ UNCHANGED <<server, write_buffers, inflight, nextUpload, bytes, counters,
                 acked, landed, dropped>>

SweepDone ==
  /\ th[Flusher].op = "sweep" /\ Dispatched(Flusher)
  /\ th' = [th EXCEPT ![Flusher] = Idle]
  /\ UNCHANGED <<server, write_buffers, uploads, counters, history>>

Return(t) ==
  /\ th[t].op = "ok"
  /\ th' = [th EXCEPT ![t] = Idle]
  /\ UNCHANGED <<server, write_buffers, uploads, counters, history>>

-----------------------------------------------------------------------------

Init ==
  /\ server = [f \in Files |-> [x \in 0..MaxOffset |-> 0]]
  /\ write_buffers = [fh \in {} |-> NoBuffer]
  /\ inflight = [id \in {} |-> NoBuffer] /\ nextUpload = 0 /\ bytes = 0 /\ errors = {}
  /\ th = [t \in Everyone |-> Idle]
  /\ writes = 0 /\ calls = 0 /\ faults = 0
  /\ acked = {} /\ landed = {} /\ dropped = {} /\ told = {}

Starts(t) ==
  \E fh \in Handles :
    \/ \E offset \in 0..MaxOffset : \E len \in 1..Min({MaxLen, MaxOffset + 1 - offset}) :
         Write(t, fh, offset, len)
    \/ WriteReportsError(t, fh)
    \/ FlushStart(t, fh) \/ FsyncStart(t, fh) \/ ReadStart(t, fh)

Goes(t) == Take(t) \/ Enqueue(t) \/ WriteReturn(t) \/ FlushDone(t) \/ MatchDone(t) \/ Return(t)

Uploads(id) == UploadSend(id) \/ (\E failed \in BOOLEAN : UploadDone(id, failed))

Next ==
  \/ \E t \in Threads : Starts(t) \/ Goes(t)
  \/ \E idle \in SUBSET Handles : SweepStart(idle)
  \/ Take(Flusher) \/ Enqueue(Flusher) \/ SweepDone
  \/ \E id \in DOMAIN inflight : Uploads(id)

Spec == Init /\ [][Next]_vars

\* Threads in a call run; uploader jobs run and end (a broken connection ends
\* in an error after the retries).
Fairness ==
  /\ \A t \in Threads : WF_vars(Goes(t))
  /\ WF_vars(Take(Flusher) \/ Enqueue(Flusher) \/ SweepDone)
  /\ WF_vars(\E id \in DOMAIN inflight : Uploads(id))

FairSpec == Spec /\ Fairness

-----------------------------------------------------------------------------
(* Properties. *)

BufferOK(b) ==
  /\ b.offset \in 0..MaxOffset
  /\ Len(b.data) <= WRITE_BUFFER_LIMIT
  /\ \A i \in 1..Len(b.data) : b.data[i] \in 1..MaxWrites

\* Types; a buffer is never longer than the limit.
TypeOK ==
  /\ server \in [Files -> [0..MaxOffset -> 0..MaxWrites]]
  /\ DOMAIN write_buffers \subseteq Handles
  /\ \A fh \in DOMAIN write_buffers : BufferOK(write_buffers[fh]) /\ write_buffers[fh].data # <<>>
  /\ \A id \in DOMAIN inflight :
       id \in 1..nextUpload /\ BufferOK(inflight[id]) /\ inflight[id].fh \in Handles
  /\ errors \subseteq Handles
  /\ bytes \in Nat

BufferedCells == UNION {CellsOf(fh, write_buffers[fh]) : fh \in DOMAIN write_buffers}
InflightCells == UNION {CellsOf(inflight[id].fh, inflight[id]) : id \in DOMAIN inflight}
HandCells ==
  UNION {CellsOf(th[t].handFh, th[t].hand) : t \in {u \in Everyone : th[u].op \notin {"idle", "ok"}}}

\* No byte a write call accepted disappears: it is in its buffer, in the hands
\* of a dispatching thread, in flight, on the server, or its upload failed,
\* whichever threads displace, sweep and flush the same handle.
NothingLost ==
  acked \subseteq BufferedCells \cup HandCells \cup InflightCells \cup landed \cup dropped

\* dispatch_pending's wait loop: uploads in flight to the same file never
\* overlap, so which of them the server applies first does not matter.
NoOverlap ==
  \A i, j \in DOMAIN inflight :
    i # j => ~Overlaps(inflight[i], inflight[j].file, inflight[j])

\* The bytes of the uploads in flight, one by one.
InflightBytes == UNION {{id} \X (1..Len(inflight[id].data)) : id \in DOMAIN inflight}

\* The upload window: bytes is what is in flight and stays within the limit,
\* after failures too, so that dispatch_pending never waits for room that is
\* not coming.
WindowExact ==
  /\ bytes = Cardinality(InflightBytes)
  /\ bytes <= MAX_INFLIGHT_UPLOAD_BYTES

\* A failed upload is kept for its handle until some call has returned it.
FailuresKept ==
  \A c \in dropped : c[1] \in errors \/ <<c, TRUE>> \in told \/ <<c, FALSE>> \in told

\* When flush or fsync returns Ok, none of the bytes the call had to account
\* for is left in a buffer or in flight.
FlushDrains ==
  [][\A t \in Threads :
       th[t].op # "ok" /\ th'[t].op = "ok"
         => th[t].must \cap (BufferedCells \cup InflightCells) = {}]_vars

\* Every flush, fsync and flushing read ends: overlapping uploads, a full
\* window and failures never leave it waiting for good.
CallsEnd == \A t \in Threads : th[t].op \in {"flush", "fsync", "read", "write"} ~> th[t].op = "idle"

\* A flush (flush itself, or the one an fsync ends with) has just returned Ok.
FlushedOk(t) == th[t].op = "ok" /\ th[t].by \in {"flush", "match"}

\* README, "close and fsync still wait until the data is on the server": when
\* flush or fsync returns Ok every byte written through the handle before the
\* call is on the server, or its failure was reported on the handle.
Durable ==
  \A t \in Threads : FlushedOk(t) => \A c \in th[t].must : c \in landed \/ c \in dropped
=============================================================================
