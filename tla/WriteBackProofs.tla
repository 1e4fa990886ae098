-------------------------- MODULE WriteBackProofs ---------------------------
(***************************************************************************)
(* The write path, for any files, handles and threads, any sizes of the    *)
(* buffers and the window, and any number of writes, calls and failures.   *)
(***************************************************************************)
EXTENDS WriteBack, FiniteSetTheorems, SequenceTheorems, WellFoundedInduction, TLAPS

Cell == Handles \X Nat \X Nat
Buffer == [offset : 0..MaxOffset, data : Seq(1..MaxWrites)]
Upload == [fh : Handles, file : Files, offset : 0..MaxOffset, data : Seq(1..MaxWrites),
           sent : BOOLEAN]
Fits(b) == Len(b.data) \in 1..WRITE_BUFFER_LIMIT
Pending == {b \in Buffer : Fits(b)}

\* What a thread may be doing: nothing, a call, or the return of Ok.
Working == [op : {"write", "flush", "fsync", "read", "match", "sweep"}, fh : Handles,
            todo : SUBSET Handles, file : Files, handFh : Handles,
            hand : Pending \cup {NoBuffer}, all : SUBSET Handles, must : SUBSET Cell]
Finished == [op : {"ok"}, by : {"flush", "read", "match"}, fh : Handles, must : SUBSET Cell]
Task == {Idle} \cup Working \cup Finished
Works(t) == th[t].op \notin {"idle", "ok"}

BuffersOK ==
  /\ DOMAIN write_buffers \subseteq Handles
  /\ \A fh \in DOMAIN write_buffers : write_buffers[fh] \in Pending
UploadsOK ==
  /\ nextUpload \in Nat /\ DOMAIN inflight \subseteq 1..nextUpload
  /\ \A id \in DOMAIN inflight :
       inflight[id] \in Upload /\ Fits(inflight[id]) /\ inflight[id].file = FileOf[inflight[id].fh]
Typed ==
  /\ server \in [Files -> [0..MaxOffset -> 0..MaxWrites]]
  /\ BuffersOK /\ UploadsOK
  /\ errors \subseteq Handles
  /\ th \in [Everyone -> Task]
  /\ writes \in 0..MaxWrites /\ acked \subseteq Cell

-----------------------------------------------------------------------------
(* The inductive invariant. *)

InBuffer(c) == \E fh \in DOMAIN write_buffers : c \in CellsOf(fh, write_buffers[fh])
InHand(c) == \E t \in Everyone : Works(t) /\ c \in CellsOf(th[t].handFh, th[t].hand)
InFlight(c) == \E id \in DOMAIN inflight : c \in CellsOf(inflight[id].fh, inflight[id])
Somewhere(c) == InBuffer(c) \/ InHand(c) \/ InFlight(c) \/ c \in landed \/ c \in dropped

\* Nothing that was accepted, or that a write is about to return for, is lost.
Kept ==
  /\ \A c \in acked : Somewhere(c)
  /\ \A t \in Everyone : th[t].op = "write" => \A c \in th[t].must : Somewhere(c)
SentLanded ==
  \A id \in DOMAIN inflight :
    inflight[id].sent => CellsOf(inflight[id].fh, inflight[id]) \subseteq landed

\* Writes are numbered: what a call has to account for was written before.
Numbered ==
  /\ \A c \in acked : c[3] <= writes
  /\ \A t \in Everyone : Works(t) => \A c \in th[t].must : c[3] <= writes

\* What a call accounts for is of its file, of its handle in a flush, and
\* buffered only where the call is still to take the buffer.
DrainedTask(x) ==
  x.op \in {"flush", "fsync", "read", "match"} =>
    \A c \in x.must : /\ FileOf[c[1]] = x.file /\ FileOf[x.fh] = x.file
                      /\ x.op \in {"flush", "fsync"} => c[1] = x.fh
                      /\ InBuffer(c) => c[1] \in x.todo
Drained == \A t \in Everyone : DrainedTask(th[t])

Window == /\ IsFiniteSet(InflightBytes) /\ bytes = Cardinality(InflightBytes)
          /\ bytes <= MAX_INFLIGHT_UPLOAD_BYTES

IInv == /\ Typed /\ Kept /\ SentLanded /\ Numbered /\ Drained
        /\ NoOverlap /\ Window /\ FailuresKept

-----------------------------------------------------------------------------
(* Sets, cells and tasks. *)

\* A set of numbers that is not empty has a least one.
LEMMA MinIs ==
  ASSUME NEW S, S \subseteq Nat, S # {}
  PROVE  Min(S) \in S /\ \A x \in S : Min(S) <= x
<1> DEFINE Less == {p \in Nat \X Nat : p[1] < p[2]}
<1>1. IsWellFoundedOn(Less, Nat)
  BY NatLessThanWellFounded DEF OpToRel
<1>2. \A x, y \in Nat : x < y => <<x, y>> \in Less
  OBVIOUS
<1> HIDE DEF Less
<1>3. PICK m \in S : \A y \in S : ~(<<y, m>> \in Less)
  BY <1>1, WFMin
<1>4. ASSUME NEW y \in S PROVE m <= y
  <2>1. y \in Nat /\ m \in Nat
    OBVIOUS
  <2>2. <<y, m>> \notin Less
    BY <1>3
  <2>3. ~(y < m)
    BY <1>2, <2>1, <2>2
  <2> QED
    BY <2>1, <2>3
<1> QED
  BY <1>4 DEF Min

\* The cells of a pending write belong to its handle.
LEMMA CellsAre ==
  ASSUME NEW fh \in Handles, NEW b, b.offset \in 0..MaxOffset, b.data \in Seq(1..MaxWrites)
  PROVE  \A c \in CellsOf(fh, b) : c \in Cell /\ c[1] = fh
<1> SUFFICES ASSUME NEW c \in CellsOf(fh, b) PROVE c \in Cell /\ c[1] = fh
  OBVIOUS
<1>1. PICK i \in 1..Len(b.data) : c = <<fh, b.offset + i - 1, b.data[i]>>
  BY DEF CellsOf
<1>2. b.offset \in Nat /\ Len(b.data) \in Nat /\ b.data[i] \in Nat
  BY ElementOfSeq, WriteBackAssumption
<1>3. b.offset + i - 1 \in Nat
  BY <1>2
<1> QED
  BY <1>1, <1>2, <1>3 DEF Cell

\* A thread without a buffer in hand holds no cells.
LEMMA NoCells == \A fh : CellsOf(fh, NoBuffer) = {}
BY DEF CellsOf, NoBuffer

\* A pending write is longer than nothing and fits the limit.
LEMMA PendingIs ==
  ASSUME NEW b \in Pending
  PROVE  /\ b.offset \in 0..MaxOffset /\ b.data \in Seq(1..MaxWrites)
         /\ Len(b.data) \in 1..WRITE_BUFFER_LIMIT /\ b # NoBuffer /\ b.data # <<>>
<1>1. b \in Buffer /\ Len(b.data) \in 1..WRITE_BUFFER_LIMIT
  BY DEF Pending, Fits
<1>2. Len(<<>>) = 0
  OBVIOUS
<1>3. b.data # <<>>
  BY <1>1, <1>2
<1> QED
  BY <1>1, <1>3 DEF Buffer, NoBuffer

\* The operation tells what a thread is doing.
LEMMA TaskIs ==
  ASSUME NEW x \in Task
  PROVE  /\ x.op \notin {"idle", "ok"} <=> x \in Working
         /\ x.op = "idle" <=> x = Idle
         /\ x \in Working => /\ x.fh \in Handles /\ x.handFh \in Handles /\ x.file \in Files
                             /\ x.must \subseteq Cell /\ x.todo \subseteq Handles
                             /\ x.all \subseteq Handles /\ x.hand \in Pending \cup {NoBuffer}
<1>1. CASE x = Idle
  BY <1>1 DEF Idle, Working
<1>2. CASE x \in Working
  BY <1>2 DEF Idle, Working
<1>3. CASE x \in Finished
  BY <1>3 DEF Idle, Working, Finished
<1> QED
  BY <1>1, <1>2, <1>3 DEF Task

\* Where cells are, as the properties say it.
LEMMA Places ==
  /\ \A c : c \in BufferedCells <=> InBuffer(c)
  /\ \A c : c \in InflightCells <=> InFlight(c)
  /\ \A c : c \in HandCells <=> InHand(c)
<1>1. \A c : c \in BufferedCells <=> InBuffer(c)
  BY DEF BufferedCells, InBuffer
<1>2. \A c : c \in InflightCells <=> InFlight(c)
  BY DEF InflightCells, InFlight
<1>3. \A c : c \in HandCells <=> InHand(c)
  BY DEF HandCells, InHand, Works
<1> QED
  BY <1>1, <1>2, <1>3

\* The bytes in flight when an upload of n bytes is entered or taken out.
LEMMA BytesOf ==
  ASSUME NEW id, NEW n \in Nat
  PROVE  IsFiniteSet({id} \X (1..n)) /\ Cardinality({id} \X (1..n)) = n
<1>1. IsFiniteSet({id}) /\ Cardinality({id}) = 1
  BY FS_Singleton
<1>2. IsFiniteSet(1..n) /\ Cardinality(1..n) = n
  BY FS_Interval
<1>3. /\ IsFiniteSet({id} \X (1..n))
      /\ Cardinality({id} \X (1..n)) = Cardinality({id}) * Cardinality(1..n)
  BY <1>1, <1>2, FS_Product
<1> QED
  BY <1>1, <1>2, <1>3

-----------------------------------------------------------------------------
(* Steps of one thread that leave buffers and uploads alone. *)

\* The error of a handle goes to the call that takes it.
LEMMA TakeErrorKeeps ==
  ASSUME FailuresKept, NEW fh, NEW own, TakeError(fh, own), UNCHANGED dropped
  PROVE  FailuresKept' /\ errors' \subseteq errors
<1>1. errors' = errors \ {fh} /\ told' = told \cup {<<c, own = fh>> : c \in {d \in dropped : d[1] = fh}}
  BY DEF TakeError
<1>2. ASSUME NEW c \in dropped
      PROVE  c[1] \in errors' \/ <<c, TRUE>> \in told' \/ <<c, FALSE>> \in told'
  <2>1. CASE c[1] = fh
    <3>1. <<c, own = fh>> \in told'
      BY <1>1, <2>1
    <3>2. CASE own = fh
      BY <3>1, <3>2, Zenon
    <3>3. CASE own # fh
      <4>1. (own = fh) = FALSE
        BY <3>3
      <4> QED
        BY <3>1, <4>1, Zenon
    <3> QED
      BY <3>2, <3>3
  <2>2. CASE c[1] # fh
    BY <1>1, <2>2 DEF FailuresKept
  <2> QED
    BY <2>1, <2>2
<1> QED
  BY <1>1, <1>2 DEF FailuresKept

\* A thread without a buffer in hand goes on to x: what it had to account for
\* is accounted for by the time a write returns.
LEMMA ThreadKeeps ==
  ASSUME IInv, NEW t \in Everyone, NEW x \in Task, th' = [th EXCEPT ![t] = x],
         UNCHANGED <<server, write_buffers, inflight, nextUpload, bytes, writes, landed, dropped>>,
         Works(t) => th[t].hand = NoBuffer,
         x.op # "write",
         x \in Working => x.hand = NoBuffer /\ \A c \in x.must : c[3] <= writes,
         DrainedTask(x),
         acked' = acked \/ (th[t].op = "write" /\ acked' = acked \cup th[t].must),
         errors' \subseteq errors, FailuresKept'
  PROVE  IInv'
<1>1. /\ Typed /\ th \in [Everyone -> Task] /\ th[t] \in Task /\ th'[t] = x
      /\ \A u \in Everyone : u # t => th'[u] = th[u]
      /\ acked' = acked \/ (th[t] \in Working /\ th[t].op = "write" /\ acked' = acked \cup th[t].must)
  BY TaskIs DEF IInv, Typed
<1>2. Typed'
  <2>1. acked' \subseteq Cell
    BY <1>1, TaskIs DEF Typed
  <2>2. th' \in [Everyone -> Task]
    BY <1>1
  <2> QED
    BY <1>1, <2>1, <2>2 DEF Typed, BuffersOK, UploadsOK
<1>3. ASSUME NEW c, Somewhere(c) PROVE Somewhere(c)'
  <2>1. InHand(c) => InHand(c)'
    BY <1>1, NoCells DEF InHand, Works
  <2> QED
    BY <1>3, <2>1 DEF Somewhere, InBuffer, InFlight
<1>4. Kept'
  <2>1. \A c \in acked' : Somewhere(c)
    BY <1>1 DEF IInv, Kept
  <2>2. \A u \in Everyone : th'[u].op = "write" => th'[u] = th[u]
    BY <1>1
  <2> QED
    BY <1>3, <2>1, <2>2 DEF IInv, Kept
<1>5. SentLanded' /\ NoOverlap' /\ Window'
  BY DEF IInv, SentLanded, NoOverlap, Overlaps, Window, InflightBytes
<1>6. Numbered'
  <2>1. \A c \in acked' : c[3] <= writes
    BY <1>1, TaskIs DEF IInv, Numbered, Works
  <2>2. x.op \notin {"idle", "ok"} => \A c \in x.must : c[3] <= writes
    BY TaskIs
  <2> QED
    BY <1>1, <2>1, <2>2 DEF IInv, Numbered, Works
<1>7. Drained'
  <2>1. \A c : InBuffer(c)' <=> InBuffer(c)
    BY DEF InBuffer
  <2> QED
    BY <1>1, <2>1 DEF IInv, Drained, DrainedTask
<1> QED
  BY <1>2, <1>4, <1>5, <1>6, <1>7 DEF IInv

\* A cell is in the buffer of its own handle.
LEMMA BufferOfCell ==
  ASSUME Typed, NEW c, InBuffer(c)
  PROVE  c[1] \in DOMAIN write_buffers
<1>1. PICK fh \in DOMAIN write_buffers : c \in CellsOf(fh, write_buffers[fh])
  BY DEF InBuffer
<1> QED
  BY <1>1, PendingIs, CellsAre DEF Typed, BuffersOK

\* A call starts, or an fsync goes on with flush_matching: it has what is to be
\* accounted for in the buffers it is to take, if anywhere.
LEMMA CallKeeps ==
  ASSUME IInv, NEW t \in Everyone, NEW op \in {"flush", "fsync", "read", "match", "sweep"},
         NEW fh \in Handles, NEW todo \in SUBSET Handles, NEW must \in SUBSET Cell,
         Call(t, op, fh, todo, must), Works(t) => th[t].hand = NoBuffer,
         \A c \in must : c[3] <= writes,
         op # "sweep" => \A c \in must : /\ FileOf[c[1]] = FileOf[fh]
                                         /\ op \in {"flush", "fsync"} => c[1] = fh
                                         /\ InBuffer(c) => c[1] \in todo,
         UNCHANGED <<server, write_buffers, uploads, writes, history>>
  PROVE  IInv'
<1> DEFINE x == [op |-> op, fh |-> fh, todo |-> todo, file |-> FileOf[fh],
                 handFh |-> fh, hand |-> NoBuffer, all |-> todo, must |-> must]
<1>1. /\ x \in Working /\ x.hand = NoBuffer /\ x.must = must /\ x.op = op /\ x.fh = fh
      /\ x.file = FileOf[fh] /\ x.todo = todo
  BY WriteBackAssumption DEF Working
<1>2. th' = [th EXCEPT ![t] = x]
  BY DEF Call
<1> HIDE DEF x
<1>3. DrainedTask(x)
  BY <1>1 DEF DrainedTask
<1>4. FailuresKept'
  BY DEF IInv, FailuresKept, uploads, history
<1> QED
  BY <1>1, <1>2, <1>3, <1>4, ThreadKeeps DEF Task, uploads, history

\* A thread that has nothing in hand ends its call.
LEMMA EndKeeps ==
  ASSUME IInv, NEW t \in Everyone, NEW x \in {Idle} \cup Finished, th' = [th EXCEPT ![t] = x],
         Works(t) => th[t].hand = NoBuffer,
         UNCHANGED <<server, write_buffers, inflight, nextUpload, bytes, writes, landed, dropped>>,
         acked' = acked \/ (th[t].op = "write" /\ acked' = acked \cup th[t].must),
         errors' \subseteq errors, FailuresKept'
  PROVE  IInv'
<1>1. x \in Task /\ x.op \in {"idle", "ok"} /\ x \notin Working
  BY DEF Task, Finished, Idle, Working
<1>2. DrainedTask(x)
  BY <1>1 DEF DrainedTask
<1> QED
  BY <1>1, <1>2, ThreadKeeps

\* By flush, fsync and a read that start: what was accepted on the handle, or on
\* the file, is buffered only under the handles they are to take.
LEMMA StartKeeps ==
  ASSUME IInv, NEW t \in Threads, NEW fh \in Handles,
         FlushStart(t, fh) \/ FsyncStart(t, fh) \/ ReadStart(t, fh)
  PROVE  IInv'
<1>1. /\ t \in Everyone /\ th[t].op = "idle"
      /\ UNCHANGED <<server, write_buffers, uploads, writes, history>>
  BY DEF Everyone, FlushStart, FsyncStart, ReadStart, Begin
<1>2. ~Works(t) /\ Typed /\ \A c \in acked : c \in Cell /\ c[3] <= writes
  BY <1>1 DEF Works, IInv, Numbered, Typed
<1>3. CASE FlushStart(t, fh) \/ FsyncStart(t, fh)
  <2>1. PICK op \in {"flush", "fsync"} : Call(t, op, fh, {fh}, Owed({fh}))
    BY <1>3 DEF FlushStart, FsyncStart
  <2>2. Owed({fh}) \in SUBSET Cell /\ \A c \in Owed({fh}) : c[1] = fh /\ c[3] <= writes
    BY <1>2 DEF Owed
  <2> QED
    BY <1>1, <1>2, <2>1, <2>2, CallKeeps
<1>4. CASE ReadStart(t, fh)
  <2> DEFINE must == Owed(OnFile(FileOf[fh]))
             todo == Buffered(FileOf[fh])
  <2>1. Call(t, "read", fh, todo, must)
    BY <1>4 DEF ReadStart
  <2>2. must \in SUBSET Cell /\ \A c \in must : FileOf[c[1]] = FileOf[fh] /\ c[3] <= writes
    BY <1>2 DEF Owed, OnFile
  <2>3. todo \in SUBSET Handles
    BY <1>2 DEF Buffered, Typed, BuffersOK
  <2>4. \A c \in must : InBuffer(c) => c[1] \in todo
    BY <1>2, <2>2, BufferOfCell DEF Buffered
  <2> HIDE DEF must, todo
  <2> QED
    BY <1>1, <1>2, <2>1, <2>2, <2>3, <2>4, CallKeeps
<1> QED
  BY <1>3, <1>4

\* By the idle flusher.
LEMMA SweepKeeps ==
  ASSUME IInv, NEW idle \in SUBSET Handles, SweepStart(idle)
  PROVE  IInv'
<1>1. /\ Flusher \in Everyone /\ ~Works(Flusher) /\ Call(Flusher, "sweep", Min(idle), idle, {})
      /\ UNCHANGED <<server, write_buffers, uploads, writes, history>>
  BY DEF Everyone, SweepStart, Works, counters
<1>2. Min(idle) \in Handles
  BY MinIs, WriteBackAssumption DEF SweepStart
<1> QED
  BY <1>1, <1>2, CallKeeps

\* By a flush or flush_matching that finds nothing in flight any more.
LEMMA DoneKeeps ==
  ASSUME IInv, NEW t \in Everyone, FlushDone(t) \/ MatchDone(t)
  PROVE  IInv'
<1> DEFINE ok == [op |-> "ok", by |-> th[t].op, fh |-> th[t].fh, must |-> th[t].must]
<1>1. /\ th[t].op \in {"flush", "fsync", "match", "read"} /\ th[t].hand = NoBuffer
      /\ UNCHANGED <<server, write_buffers, inflight, nextUpload, bytes, writes, acked, landed, dropped>>
  BY DEF FlushDone, MatchDone, Dispatched, counters
<1>2. /\ Typed /\ FailuresKept /\ th[t] \in Working /\ th[t].fh \in Handles /\ th[t].must \subseteq Cell
      /\ Works(t)
  BY <1>1, TaskIs DEF IInv, Typed, Works
<1>3. CASE Fail(t) /\ \E fh, own : TakeError(fh, own)
  BY <1>1, <1>2, <1>3, TakeErrorKeeps, EndKeeps DEF Fail
<1>4. CASE Ok(t) /\ th[t].op # "fsync" /\ UNCHANGED <<errors, told>>
  <2>1. th' = [th EXCEPT ![t] = ok]
    BY <1>2, <1>4 DEF Ok, Typed
  <2>2. ok \in Finished
    BY <1>1, <1>2, <1>4 DEF Finished
  <2>3. FailuresKept'
    BY <1>1, <1>2, <1>4 DEF FailuresKept
  <2> HIDE DEF ok
  <2> QED
    BY <1>1, <1>4, <2>1, <2>2, <2>3, EndKeeps
<1>5. CASE /\ th[t].op = "fsync" /\ Call(t, "match", th[t].fh, Buffered(th[t].file), th[t].must)
           /\ UNCHANGED <<errors, told>>
  <2>1. \A c \in th[t].must : /\ FileOf[c[1]] = th[t].file /\ FileOf[th[t].fh] = th[t].file
                              /\ c[3] <= writes
    BY <1>2, <1>5 DEF IInv, Drained, DrainedTask, Numbered
  <2>2. Buffered(th[t].file) \in SUBSET Handles
    BY <1>2 DEF Buffered, Typed, BuffersOK
  <2>3. \A c \in th[t].must : InBuffer(c) => c[1] \in Buffered(th[t].file)
    BY <1>2, <2>1, BufferOfCell DEF Buffered
  <2> QED
    BY <1>1, <1>2, <1>5, <2>1, <2>2, <2>3, CallKeeps DEF uploads, history
<1> QED
  BY <1>1, <1>3, <1>4, <1>5 DEF FlushDone, MatchDone

\* By a call that is over.
LEMMA ReturnKeeps ==
  ASSUME IInv, NEW t \in Everyone, Return(t) \/ WriteReturn(t) \/ (t = Flusher /\ SweepDone)
  PROVE  IInv'
<1>1. /\ th' = [th EXCEPT ![t] = Idle] /\ (Works(t) => th[t].hand = NoBuffer)
      /\ UNCHANGED <<server, write_buffers, uploads, writes, landed, dropped, told>>
      /\ acked' = acked \/ (th[t].op = "write" /\ acked' = acked \cup th[t].must)
  BY DEF Return, WriteReturn, SweepDone, Dispatched, Works, counters, history
<1>2. FailuresKept'
  BY <1>1 DEF IInv, FailuresKept, uploads
<1> QED
  BY <1>1, <1>2, EndKeeps DEF uploads

\* By a write that returns the error of an earlier upload.
LEMMA ReportKeeps ==
  ASSUME IInv, NEW t \in Threads, NEW fh \in Handles, WriteReportsError(t, fh)
  PROVE  IInv'
<1>1. /\ UNCHANGED <<server, write_buffers, inflight, nextUpload, bytes, th, writes, acked, landed, dropped>>
      /\ TakeError(fh, fh)
  BY DEF WriteReportsError, counters
<1>2. FailuresKept' /\ errors' \subseteq errors
  BY <1>1, TakeErrorKeeps DEF IInv
<1>3. Typed'
  BY <1>1, <1>2 DEF IInv, Typed, BuffersOK, UploadsOK
<1>4. \A c : (InBuffer(c)' <=> InBuffer(c)) /\ (InHand(c)' <=> InHand(c)) /\ (InFlight(c)' <=> InFlight(c))
  BY <1>1 DEF InBuffer, InHand, InFlight, Works
<1>5. Kept' /\ SentLanded'
  BY <1>1, <1>4 DEF IInv, Kept, Somewhere, SentLanded
<1>6. Numbered' /\ Drained'
  BY <1>1, <1>4 DEF IInv, Numbered, Drained, DrainedTask, Works
<1>7. NoOverlap' /\ Window'
  BY <1>1 DEF IInv, NoOverlap, Overlaps, Window, InflightBytes
<1> QED
  BY <1>2, <1>3, <1>5, <1>6, <1>7 DEF IInv

-----------------------------------------------------------------------------
(* Buffers on their way to the server. *)

\* By dispatch_fh: a buffer goes into the thread's hand.
LEMMA TakeKeeps ==
  ASSUME IInv, NEW t \in Everyone, Take(t)
  PROVE  IInv'
<1> DEFINE fh == Min(th[t].todo)
           b == IF fh \in DOMAIN write_buffers THEN write_buffers[fh] ELSE NoBuffer
           x == [th[t] EXCEPT !.todo = @ \ {fh}, !.handFh = fh, !.hand = b]
<1>1. /\ Works(t) /\ th[t].todo # {} /\ th[t].hand = NoBuffer
      /\ write_buffers' = Without(write_buffers, fh)
      /\ UNCHANGED <<server, inflight, nextUpload, bytes, errors, writes, acked, landed, dropped, told>>
  BY DEF Take, Works, uploads, counters, history
<1>2. /\ Typed /\ th \in [Everyone -> Task] /\ th[t] \in Working /\ th[t].todo \subseteq Handles
  BY <1>1, TaskIs DEF IInv, Typed, Works
<1>3. th' = [th EXCEPT ![t] = x]
  BY <1>2 DEF Take
<1>4. fh \in Handles
  BY <1>1, <1>2, MinIs, WriteBackAssumption
<1>5. b \in Pending \cup {NoBuffer} /\ (fh \in DOMAIN write_buffers => b = write_buffers[fh])
  BY <1>2 DEF Typed, BuffersOK
<1> HIDE DEF fh, b
<1>6. /\ x \in Working /\ x.op = th[t].op /\ x.fh = th[t].fh /\ x.file = th[t].file
      /\ x.must = th[t].must /\ x.todo = th[t].todo \ {fh} /\ x.handFh = fh /\ x.hand = b
  <2>1. x \in Working
    BY <1>2, <1>4, <1>5 DEF Working
  <2> QED
    BY <1>2, <2>1 DEF Working
<1> HIDE DEF x
<1>7. th'[t] = x /\ \A u \in Everyone : u # t => th'[u] = th[u]
  BY <1>2, <1>3
<1>8. /\ DOMAIN write_buffers' = DOMAIN write_buffers \ {fh}
      /\ \A g \in DOMAIN write_buffers \ {fh} : write_buffers'[g] = write_buffers[g]
  BY <1>1 DEF Without, Restrict
<1>9. Typed'
  <2>1. th' \in [Everyone -> Task]
    BY <1>2, <1>3, <1>6 DEF Task
  <2>2. BuffersOK'
    BY <1>2, <1>8 DEF Typed, BuffersOK
  <2> QED
    BY <1>1, <1>2, <2>1, <2>2 DEF Typed, UploadsOK
<1>10. \A c : InBuffer(c)' => InBuffer(c) /\ c[1] # fh
  <2>1. \A g \in DOMAIN write_buffers : \A c \in CellsOf(g, write_buffers[g]) : c[1] = g
    BY <1>2, PendingIs, CellsAre DEF Typed, BuffersOK
  <2> QED
    BY <1>8, <2>1 DEF InBuffer
<1>11. ASSUME NEW c, Somewhere(c) PROVE Somewhere(c)'
  <2>1. Works(t)'
    BY <1>1, <1>6, <1>7 DEF Works
  <2>2. InBuffer(c) => InBuffer(c)' \/ InHand(c)'
    <3> SUFFICES ASSUME NEW g \in DOMAIN write_buffers, c \in CellsOf(g, write_buffers[g])
                 PROVE  InBuffer(c)' \/ InHand(c)'
      BY DEF InBuffer
    <3>1. CASE g = fh
      BY <1>5, <1>6, <1>7, <2>1, <3>1 DEF InHand
    <3>2. CASE g # fh
      BY <1>8, <3>2 DEF InBuffer
    <3> QED
      BY <3>1, <3>2
  <2>3. InHand(c) => InHand(c)'
    <3> SUFFICES ASSUME NEW u \in Everyone, Works(u), c \in CellsOf(th[u].handFh, th[u].hand)
                 PROVE  InHand(c)'
      BY DEF InHand
    <3>1. u # t
      BY <1>1, NoCells
    <3> QED
      BY <1>7, <3>1 DEF InHand, Works
  <2>4. InFlight(c) => InFlight(c)'
    BY <1>1 DEF InFlight
  <2> QED
    BY <1>1, <1>11, <2>2, <2>3, <2>4 DEF Somewhere
<1>12. Kept'
  <2>1. \A u \in Everyone : th'[u].op = th[u].op /\ th'[u].must = th[u].must
    BY <1>6, <1>7
  <2> QED
    BY <1>1, <1>11, <2>1 DEF IInv, Kept
<1>13. Numbered'
  BY <1>1, <1>6, <1>7 DEF IInv, Numbered, Works
<1>14. Drained'
  <2>1. ASSUME NEW u \in Everyone PROVE DrainedTask(th[u])'
    <3>1. CASE u = t
      BY <1>6, <1>7, <1>10, <3>1 DEF IInv, Drained, DrainedTask
    <3>2. CASE u # t
      BY <1>7, <1>10, <3>2 DEF IInv, Drained, DrainedTask
    <3> QED
      BY <3>1, <3>2
  <2> QED
    BY <2>1 DEF Drained
<1>15. SentLanded' /\ NoOverlap' /\ Window' /\ FailuresKept'
  BY <1>1 DEF IInv, SentLanded, NoOverlap, Overlaps, Window, InflightBytes, FailuresKept
<1> QED
  BY <1>9, <1>12, <1>13, <1>14, <1>15 DEF IInv

\* The window, when an upload is entered.
LEMMA WindowGrows ==
  ASSUME UploadsOK, Window, NEW id, id \notin DOMAIN inflight, NEW u, inflight' = With(inflight, id, u),
         u.data \in Seq(1..MaxWrites), bytes' = bytes + Len(u.data),
         DOMAIN inflight = {} \/ bytes + Len(u.data) <= MAX_INFLIGHT_UPLOAD_BYTES,
         Len(u.data) <= WRITE_BUFFER_LIMIT
  PROVE  Window'
<1> DEFINE new == {id} \X (1..Len(u.data))
<1>1. /\ DOMAIN inflight' = DOMAIN inflight \cup {id} /\ inflight'[id] = u
      /\ \A i \in DOMAIN inflight : inflight'[i] = inflight[i]
  BY DEF With
<1>2. InflightBytes' = InflightBytes \cup new
  <2>1. \A i \in DOMAIN inflight : {i} \X (1..Len(inflight'[i].data)) = {i} \X (1..Len(inflight[i].data))
    BY <1>1
  <2>2. {id} \X (1..Len(inflight'[id].data)) = new
    BY <1>1
  <2>3. InflightBytes' = UNION {{i} \X (1..Len(inflight'[i].data)) : i \in DOMAIN inflight \cup {id}}
    BY <1>1 DEF InflightBytes
  <2> HIDE DEF new
  <2> QED
    BY <2>1, <2>2, <2>3 DEF InflightBytes
<1>3. InflightBytes \cap new = {}
  <2>1. \A p \in InflightBytes : p[1] \in DOMAIN inflight
    BY DEF InflightBytes
  <2>2. \A p \in new : p[1] = id
    OBVIOUS
  <2> QED
    BY <2>1, <2>2
<1>4. Len(u.data) \in Nat /\ IsFiniteSet(new) /\ Cardinality(new) = Len(u.data)
  <2>1. Len(u.data) \in Nat
    OBVIOUS
  <2> QED
    BY <2>1, BytesOf
<1> HIDE DEF new
<1>5. /\ IsFiniteSet(InflightBytes \cup new)
      /\ Cardinality(InflightBytes \cup new)
           = Cardinality(InflightBytes) + Cardinality(new) - Cardinality(InflightBytes \cap new)
  BY <1>4, FS_Union DEF Window
<1>6. Cardinality(InflightBytes) \in Nat /\ Cardinality({}) = 0
  BY FS_CardinalityType, FS_EmptySet DEF Window
<1>7. DOMAIN inflight = {} => bytes = 0
  <2>1. DOMAIN inflight = {} => InflightBytes = {}
    BY DEF InflightBytes
  <2> QED
    BY <1>6, <2>1 DEF Window
<1>8. bytes' <= MAX_INFLIGHT_UPLOAD_BYTES
  BY <1>4, <1>7, WriteBackAssumption
<1>9. IsFiniteSet(InflightBytes') /\ Cardinality(InflightBytes') = Cardinality(InflightBytes) + Len(u.data)
  <2>1. IsFiniteSet(InflightBytes') /\ Cardinality(InflightBytes') = Cardinality(InflightBytes) + Cardinality(new) - 0
    BY <1>2, <1>3, <1>5, <1>6
  <2> QED
    BY <1>4, <1>6, <2>1
<1> QED
  BY <1>8, <1>9 DEF Window

\* The window, when an upload leaves.
LEMMA WindowShrinks ==
  ASSUME UploadsOK, Window, NEW id \in DOMAIN inflight, inflight' = Without(inflight, id),
         bytes' = bytes - Len(inflight[id].data)
  PROVE  Window'
<1> DEFINE old == {id} \X (1..Len(inflight[id].data))
<1>1. /\ DOMAIN inflight' = DOMAIN inflight \ {id}
      /\ \A i \in DOMAIN inflight \ {id} : inflight'[i] = inflight[i]
  BY DEF Without, Restrict
<1>2. Len(inflight[id].data) \in Nat
  BY DEF UploadsOK, Upload
<1>3. IsFiniteSet(old) /\ Cardinality(old) = Len(inflight[id].data)
  BY <1>2, BytesOf
<1>4. InflightBytes \cap old = old
  BY DEF InflightBytes
<1>5. InflightBytes' = InflightBytes \ old
  <2>1. \A i \in DOMAIN inflight \ {id} :
          {i} \X (1..Len(inflight'[i].data)) = {i} \X (1..Len(inflight[i].data))
    BY <1>1
  <2>2. InflightBytes' = UNION {{i} \X (1..Len(inflight'[i].data)) : i \in DOMAIN inflight \ {id}}
    BY <1>1 DEF InflightBytes
  <2>3. InflightBytes' = UNION {{i} \X (1..Len(inflight[i].data)) : i \in DOMAIN inflight \ {id}}
    BY <2>1, <2>2
  <2>4. \A i \in DOMAIN inflight \ {id} : ({i} \X (1..Len(inflight[i].data))) \cap old = {}
    OBVIOUS
  <2> HIDE DEF old
  <2>5. InflightBytes = (UNION {{i} \X (1..Len(inflight[i].data)) : i \in DOMAIN inflight \ {id}}) \cup old
    BY DEF InflightBytes, old
  <2> QED
    BY <2>3, <2>4, <2>5
<1> HIDE DEF old
<1>6. /\ IsFiniteSet(InflightBytes \ old)
      /\ Cardinality(InflightBytes \ old) = Cardinality(InflightBytes) - Cardinality(InflightBytes \cap old)
  BY FS_Difference DEF Window
<1>7. Cardinality(InflightBytes) \in Nat
  BY FS_CardinalityType DEF Window
<1>8. IsFiniteSet(InflightBytes') /\ Cardinality(InflightBytes') = Cardinality(InflightBytes) - Len(inflight[id].data)
  BY <1>3, <1>4, <1>5, <1>6
<1>9. bytes' <= MAX_INFLIGHT_UPLOAD_BYTES
  BY <1>2, <1>7, WriteBackAssumption DEF Window
<1> QED
  BY <1>8, <1>9 DEF Window

\* By dispatch_pending: the buffer in hand becomes an upload that overlaps none
\* in flight and has room in the window.
LEMMA EnqueueKeeps ==
  ASSUME IInv, NEW t \in Everyone, Enqueue(t)
  PROVE  IInv'
<1> DEFINE b == th[t].hand
           id == nextUpload + 1
           u == [fh |-> th[t].handFh, file |-> FileOf[th[t].handFh], offset |-> b.offset,
                 data |-> b.data, sent |-> FALSE]
           x == [th[t] EXCEPT !.hand = NoBuffer]
<1>1. /\ Works(t) /\ b # NoBuffer /\ MayStart(FileOf[th[t].handFh], b)
      /\ nextUpload' = id /\ bytes' = bytes + Len(b.data) /\ inflight' = With(inflight, id, u)
      /\ UNCHANGED <<server, write_buffers, errors, writes, acked, landed, dropped, told>>
  BY DEF Enqueue, Works, counters, history
<1>2. /\ Typed /\ th \in [Everyone -> Task] /\ th[t] \in Working /\ th[t].handFh \in Handles
      /\ b \in Pending \cup {NoBuffer}
  BY <1>1, TaskIs DEF IInv, Typed, Works
<1>3. th' = [th EXCEPT ![t] = x]
  BY <1>2 DEF Enqueue
<1>4. /\ x \in Working /\ x.op = th[t].op /\ x.fh = th[t].fh /\ x.file = th[t].file
      /\ x.must = th[t].must /\ x.todo = th[t].todo /\ x.hand = NoBuffer
  <2>1. x \in Working
    BY <1>2 DEF Working
  <2> QED
    BY <1>2, <2>1 DEF Working
<1> HIDE DEF x
<1>5. th'[t] = x /\ \A v \in Everyone : v # t => th'[v] = th[v]
  BY <1>2, <1>3
<1>6. b \in Pending /\ b.offset \in 0..MaxOffset /\ b.data \in Seq(1..MaxWrites)
      /\ Len(b.data) \in 1..WRITE_BUFFER_LIMIT
  BY <1>1, <1>2, PendingIs
<1> HIDE DEF b
<1>7. /\ u \in Upload /\ u.fh = th[t].handFh /\ u.file = FileOf[u.fh] /\ u.offset = b.offset
      /\ u.data = b.data /\ ~u.sent
  BY <1>2, <1>6, WriteBackAssumption DEF Upload
<1> HIDE DEF u
<1>8. id \notin DOMAIN inflight /\ nextUpload \in Nat
  BY <1>2 DEF Typed, UploadsOK
<1>9. /\ DOMAIN inflight' = DOMAIN inflight \cup {id} /\ inflight'[id] = u
      /\ \A i \in DOMAIN inflight : inflight'[i] = inflight[i]
  BY <1>1, <1>8 DEF With
<1>10. Typed'
  <2>1. th' \in [Everyone -> Task]
    BY <1>2, <1>3, <1>4 DEF Task
  <2>2. UploadsOK'
    <3>1. \A i \in DOMAIN inflight' : i \in DOMAIN inflight \/ i = id
      BY <1>9
    <3>2. \A i \in DOMAIN inflight' : inflight'[i] \in Upload /\ Fits(inflight'[i])
                                      /\ inflight'[i].file = FileOf[inflight'[i].fh]
      BY <1>2, <1>6, <1>7, <1>9, <3>1 DEF Typed, UploadsOK, Fits
    <3>3. DOMAIN inflight' \subseteq 1..nextUpload' /\ nextUpload' \in Nat
      BY <1>1, <1>2, <1>8, <1>9 DEF Typed, UploadsOK
    <3> QED
      BY <3>2, <3>3 DEF UploadsOK
  <2> QED
    BY <1>1, <1>2, <2>1, <2>2 DEF Typed, BuffersOK
<1>11. ASSUME NEW c, Somewhere(c) PROVE Somewhere(c)'
  <2>1. InHand(c) => InHand(c)' \/ InFlight(c)'
    <3> SUFFICES ASSUME NEW v \in Everyone, Works(v), c \in CellsOf(th[v].handFh, th[v].hand)
                 PROVE  InHand(c)' \/ InFlight(c)'
      BY DEF InHand
    <3>1. CASE v = t
      <4>1. CellsOf(u.fh, u) = CellsOf(th[t].handFh, b)
        BY <1>7 DEF CellsOf
      <4> QED
        BY <1>9, <3>1, <4>1 DEF InFlight, b
    <3>2. CASE v # t
      BY <1>5, <3>2 DEF InHand, Works
    <3> QED
      BY <3>1, <3>2
  <2>2. InFlight(c) => InFlight(c)'
    BY <1>9 DEF InFlight
  <2>3. InBuffer(c) => InBuffer(c)'
    BY <1>1 DEF InBuffer
  <2> QED
    BY <1>1, <1>11, <2>1, <2>2, <2>3 DEF Somewhere
<1>12. \A v \in Everyone : /\ th'[v].op = th[v].op /\ th'[v].must = th[v].must /\ th'[v].fh = th[v].fh
                           /\ th'[v].file = th[v].file /\ th'[v].todo = th[v].todo
  BY <1>4, <1>5
<1>13. Kept' /\ Numbered'
  BY <1>1, <1>11, <1>12 DEF IInv, Kept, Numbered, Works
<1>14. Drained'
  <2>1. \A c : InBuffer(c)' <=> InBuffer(c)
    BY <1>1 DEF InBuffer
  <2> QED
    BY <1>12, <2>1 DEF IInv, Drained, DrainedTask
<1>15. SentLanded'
  BY <1>1, <1>7, <1>9 DEF IInv, SentLanded
<1>16. NoOverlap'
  <2> SUFFICES ASSUME NEW i \in DOMAIN inflight', NEW j \in DOMAIN inflight', i # j
               PROVE  ~Overlaps(inflight'[i], inflight'[j].file, inflight'[j])
    BY DEF NoOverlap, Overlaps
  <2>1. \A k \in DOMAIN inflight : ~Overlaps(inflight[k], u.file, u) /\ ~Overlaps(u, inflight[k].file, inflight[k])
    BY <1>1, <1>7 DEF MayStart, Overlaps
  <2>2. CASE i \in DOMAIN inflight /\ j \in DOMAIN inflight
    BY <1>9, <2>2 DEF IInv, NoOverlap
  <2>3. CASE i = id \/ j = id
    BY <1>9, <2>1, <2>3
  <2> QED
    BY <1>9, <2>2, <2>3
<1>17. Window'
  <2>1. DOMAIN inflight = {} \/ bytes + Len(u.data) <= MAX_INFLIGHT_UPLOAD_BYTES
    BY <1>1, <1>7 DEF MayStart
  <2>2. UploadsOK /\ Window /\ bytes' = bytes + Len(u.data) /\ u.data \in Seq(1..MaxWrites)
        /\ Len(u.data) <= WRITE_BUFFER_LIMIT
    BY <1>1, <1>2, <1>6, <1>7 DEF IInv, Typed
  <2> HIDE DEF id
  <2> QED
    BY <1>1, <1>8, <2>1, <2>2, WindowGrows
<1>18. FailuresKept'
  BY <1>1 DEF IInv, FailuresKept
<1> QED
  BY <1>10, <1>13, <1>14, <1>15, <1>16, <1>17, <1>18 DEF IInv

\* By an upload that the server applies.
LEMMA SendKeeps ==
  ASSUME IInv, NEW id \in DOMAIN inflight, UploadSend(id)
  PROVE  IInv'
<1> DEFINE u == inflight[id]
<1>1. /\ inflight' = [inflight EXCEPT ![id].sent = TRUE] /\ landed' = landed \cup CellsOf(u.fh, u)
      /\ UNCHANGED <<write_buffers, nextUpload, bytes, errors, th, writes, acked, dropped, told>>
  BY DEF UploadSend, counters
<1>2. /\ Typed /\ u \in Upload /\ u.file \in Files /\ u.offset \in 0..MaxOffset
      /\ u.data \in Seq(1..MaxWrites)
  BY DEF IInv, Typed, UploadsOK, Upload
<1>3. /\ DOMAIN inflight' = DOMAIN inflight
      /\ \A i \in DOMAIN inflight : i # id => inflight'[i] = inflight[i]
      /\ inflight'[id] = [u EXCEPT !.sent = TRUE]
  BY <1>1
<1>4. \A i \in DOMAIN inflight :
        /\ inflight'[i].fh = inflight[i].fh /\ inflight'[i].file = inflight[i].file
        /\ inflight'[i].offset = inflight[i].offset /\ inflight'[i].data = inflight[i].data
        /\ inflight'[i] \in Upload
        /\ CellsOf(inflight'[i].fh, inflight'[i]) = CellsOf(inflight[i].fh, inflight[i])
  <2>1. /\ inflight'[id].fh = u.fh /\ inflight'[id].file = u.file /\ inflight'[id].offset = u.offset
        /\ inflight'[id].data = u.data /\ inflight'[id] \in Upload
    BY <1>2, <1>3 DEF Upload
  <2> HIDE DEF u
  <2>2. \A i \in DOMAIN inflight :
          /\ inflight'[i].fh = inflight[i].fh /\ inflight'[i].file = inflight[i].file
          /\ inflight'[i].offset = inflight[i].offset /\ inflight'[i].data = inflight[i].data
          /\ inflight'[i] \in Upload
    BY <1>2, <1>3, <2>1 DEF u, Typed, UploadsOK
  <2> QED
    BY <2>2 DEF CellsOf
<1>5. server' \in [Files -> [0..MaxOffset -> 0..MaxWrites]]
  <2> DEFINE row == [y \in DOMAIN server[u.file] |->
                       IF y \in u.offset..(u.offset + Len(u.data) - 1)
                       THEN u.data[y - u.offset + 1] ELSE server[u.file][y]]
  <2>1. server[u.file] \in [0..MaxOffset -> 0..MaxWrites] /\ Len(u.data) \in Nat
    BY <1>2 DEF Typed
  <2>2. \A i \in 1..Len(u.data) : u.data[i] \in 0..MaxWrites
    <3>1. \A i \in 1..Len(u.data) : u.data[i] \in 1..MaxWrites
      BY <1>2, ElementOfSeq
    <3> QED
      BY <3>1, WriteBackAssumption
  <2>3. ASSUME NEW y \in 0..MaxOffset, y \in u.offset..(u.offset + Len(u.data) - 1)
        PROVE  y - u.offset + 1 \in 1..Len(u.data)
    BY <1>2, <2>1, <2>3
  <2>4. row \in [0..MaxOffset -> 0..MaxWrites]
    BY <2>1, <2>2, <2>3
  <2>5. server' = [server EXCEPT ![u.file] = row]
    BY DEF UploadSend
  <2> HIDE DEF row, u
  <2> QED
    BY <1>2, <2>4, <2>5 DEF Typed
<1>6. Typed'
  <2>1. UploadsOK'
    <3>1. \A i \in DOMAIN inflight : Fits(inflight'[i]) /\ inflight'[i].file = FileOf[inflight'[i].fh]
      BY <1>2, <1>4 DEF Typed, UploadsOK, Fits
    <3> QED
      BY <1>1, <1>2, <1>3, <1>4, <3>1 DEF Typed, UploadsOK
  <2> QED
    BY <1>1, <1>2, <1>5, <2>1 DEF Typed, BuffersOK
<1>7. \A c : /\ InBuffer(c)' <=> InBuffer(c)
             /\ InHand(c)' <=> InHand(c)
             /\ InFlight(c)' <=> InFlight(c)
  BY <1>1, <1>3, <1>4 DEF InBuffer, InHand, InFlight, Works
<1>8. Kept'
  BY <1>1, <1>7 DEF IInv, Kept, Somewhere
<1>9. SentLanded'
  <2>1. ASSUME NEW i \in DOMAIN inflight, inflight'[i].sent
        PROVE  CellsOf(inflight'[i].fh, inflight'[i]) \subseteq landed'
    <3>1. CASE i = id
      BY <1>1, <1>4, <3>1
    <3>2. CASE i # id
      BY <1>1, <1>3, <2>1, <3>2 DEF IInv, SentLanded
    <3> QED
      BY <3>1, <3>2
  <2> QED
    BY <1>3, <2>1 DEF SentLanded
<1>10. Numbered' /\ Drained' /\ FailuresKept'
  BY <1>1, <1>7 DEF IInv, Numbered, Drained, DrainedTask, Works, FailuresKept
<1>11. NoOverlap'
  BY <1>3, <1>4 DEF IInv, NoOverlap, Overlaps
<1>12. Window'
  <2>1. InflightBytes' = InflightBytes
    <3>1. \A i \in DOMAIN inflight : {i} \X (1..Len(inflight'[i].data)) = {i} \X (1..Len(inflight[i].data))
      BY <1>4
    <3>2. InflightBytes' = UNION {{i} \X (1..Len(inflight'[i].data)) : i \in DOMAIN inflight}
      BY <1>3 DEF InflightBytes
    <3> QED
      BY <3>1, <3>2 DEF InflightBytes
  <2> QED
    BY <1>1, <2>1 DEF IInv, Window
<1> QED
  BY <1>6, <1>8, <1>9, <1>10, <1>11, <1>12 DEF IInv

\* By an upload that ends: what the server has not got is remembered as failed.
LEMMA UploadDoneKeeps ==
  ASSUME IInv, NEW id \in DOMAIN inflight, NEW failed \in BOOLEAN, UploadDone(id, failed)
  PROVE  IInv'
<1> DEFINE u == inflight[id]
<1>1. /\ inflight' = Without(inflight, id) /\ bytes' = bytes - Len(u.data)
      /\ errors' = IF failed THEN errors \cup {u.fh} ELSE errors
      /\ dropped' = IF failed /\ ~u.sent THEN dropped \cup CellsOf(u.fh, u) ELSE dropped
      /\ u.sent \/ failed
      /\ UNCHANGED <<server, write_buffers, nextUpload, th, writes, acked, landed, told>>
  BY DEF UploadDone
<1>2. /\ Typed /\ u \in Upload /\ u.fh \in Handles /\ u.offset \in 0..MaxOffset
      /\ u.data \in Seq(1..MaxWrites)
  BY DEF IInv, Typed, UploadsOK, Upload
<1>3. /\ DOMAIN inflight' = DOMAIN inflight \ {id}
      /\ \A i \in DOMAIN inflight \ {id} : inflight'[i] = inflight[i]
  BY <1>1 DEF Without, Restrict
<1>4. Typed'
  <2>1. UploadsOK'
    BY <1>1, <1>2, <1>3 DEF Typed, UploadsOK
  <2> QED
    BY <1>1, <1>2, <2>1 DEF Typed, BuffersOK
<1>5. ASSUME NEW c, Somewhere(c) PROVE Somewhere(c)'
  <2>1. InFlight(c) => InFlight(c)' \/ c \in landed' \/ c \in dropped'
    <3> SUFFICES ASSUME NEW i \in DOMAIN inflight, c \in CellsOf(inflight[i].fh, inflight[i])
                 PROVE  InFlight(c)' \/ c \in landed' \/ c \in dropped'
      BY DEF InFlight
    <3>1. CASE i = id
      BY <1>1, <3>1 DEF IInv, SentLanded
    <3>2. CASE i # id
      BY <1>3, <3>2 DEF InFlight
    <3> QED
      BY <3>1, <3>2
  <2>2. (InBuffer(c)' <=> InBuffer(c)) /\ (InHand(c)' <=> InHand(c))
    BY <1>1 DEF InBuffer, InHand, Works
  <2> QED
    BY <1>1, <1>5, <2>1, <2>2 DEF Somewhere
<1>6. Kept'
  BY <1>1, <1>5 DEF IInv, Kept
<1>7. SentLanded' /\ NoOverlap'
  BY <1>1, <1>3 DEF IInv, SentLanded, NoOverlap, Overlaps
<1>8. Numbered' /\ Drained'
  <2>1. \A c : InBuffer(c)' <=> InBuffer(c)
    BY <1>1 DEF InBuffer
  <2> QED
    BY <1>1, <2>1 DEF IInv, Numbered, Drained, DrainedTask, Works
<1>9. FailuresKept'
  <2> SUFFICES ASSUME NEW c \in dropped'
               PROVE  c[1] \in errors' \/ <<c, TRUE>> \in told' \/ <<c, FALSE>> \in told'
    BY DEF FailuresKept
  <2>1. CASE c \in dropped
    BY <1>1, <2>1 DEF IInv, FailuresKept
  <2>2. CASE c \notin dropped
    <3>1. failed /\ c \in CellsOf(u.fh, u)
      BY <1>1, <2>2
    <3>2. c[1] = u.fh
      BY <1>2, <3>1, CellsAre
    <3> QED
      BY <1>1, <3>1, <3>2
  <2> QED
    BY <2>1, <2>2
<1>10. Window'
  BY <1>1, <1>2, WindowShrinks DEF IInv, Typed
<1> QED
  BY <1>4, <1>6, <1>7, <1>8, <1>9, <1>10 DEF IInv

\* The data of one write.
LEMMA NewIs ==
  ASSUME Typed, NEW fh \in Handles, NEW offset \in 0..MaxOffset,
         NEW len \in 1..Min({MaxLen, MaxOffset + 1 - offset}), writes < MaxWrites
  PROVE  LET new == [offset |-> offset, data |-> Bytes(writes + 1, len)]
         IN /\ new \in Pending /\ Len(new.data) = len
            /\ \A c \in CellsOf(fh, new) : c \in Cell /\ c[1] = fh /\ c[3] = writes + 1
<1> DEFINE new == [offset |-> offset, data |-> Bytes(writes + 1, len)]
<1>1. writes \in Nat /\ MaxWrites \in Nat /\ MaxOffset \in Nat /\ writes + 1 \in 1..MaxWrites
      /\ MaxLen \in Nat /\ MaxLen <= WRITE_BUFFER_LIMIT /\ WRITE_BUFFER_LIMIT \in Nat
  BY WriteBackAssumption DEF Typed
<1>2. Min({MaxLen, MaxOffset + 1 - offset}) <= MaxLen /\ Min({MaxLen, MaxOffset + 1 - offset}) \in Nat
  <2>1. MaxLen \in Nat /\ MaxOffset + 1 - offset \in Nat
    BY <1>1
  <2> QED
    BY <2>1, MinIs
<1>3. len \in 1..WRITE_BUFFER_LIMIT /\ len \in Nat
  BY <1>1, <1>2
<1>4. Bytes(writes + 1, len) \in [1..len -> 1..MaxWrites]
  BY <1>1 DEF Bytes
<1>5. Bytes(writes + 1, len) \in Seq(1..MaxWrites) /\ Len(Bytes(writes + 1, len)) = len
  <2> DEFINE d == Bytes(writes + 1, len)
  <2>1. d \in [1..len -> 1..MaxWrites]
    BY <1>4
  <2> HIDE DEF d
  <2>2. d \in Seq(1..MaxWrites)
    <3>1. d \in UNION {[1..n -> 1..MaxWrites] : n \in Nat}
      BY <1>3, <2>1
    <3> QED
      BY <3>1, SeqDef
  <2>3. Len(d) = len
    BY <1>3, <2>1, <2>2, LenProperties
  <2> QED
    BY <2>2, <2>3 DEF d
<1>6. new \in Pending /\ Len(new.data) = len /\ new.offset = offset /\ new.data = Bytes(writes + 1, len)
  BY <1>3, <1>5 DEF Pending, Buffer, Fits
<1>7. \A i \in 1..len : new.data[i] = writes + 1
  BY DEF Bytes
<1> HIDE DEF new
<1>8. ASSUME NEW c \in CellsOf(fh, new) PROVE c \in Cell /\ c[1] = fh /\ c[3] = writes + 1
  <2>1. PICK i \in 1..Len(new.data) : c = <<fh, new.offset + i - 1, new.data[i]>>
    BY DEF CellsOf
  <2>2. c \in Cell /\ c[1] = fh
    BY <1>6, PendingIs, CellsAre
  <2> QED
    BY <1>6, <1>7, <2>1, <2>2
<1> QED
  BY <1>6, <1>8 DEF new

\* Data that continues a pending write: the cells of both.
LEMMA AppendedIs ==
  ASSUME NEW fh, NEW b \in Pending, NEW new \in Pending, b.offset + Len(b.data) = new.offset,
         Len(b.data) + Len(new.data) <= WRITE_BUFFER_LIMIT
  PROVE  LET e == [b EXCEPT !.data = @ \o new.data]
         IN e \in Pending /\ CellsOf(fh, e) = CellsOf(fh, b) \cup CellsOf(fh, new)
<1> DEFINE e == [b EXCEPT !.data = @ \o new.data]
           d == b.data \o new.data
<1>1. /\ b \in Buffer /\ b.offset \in 0..MaxOffset /\ b.data \in Seq(1..MaxWrites)
      /\ new.data \in Seq(1..MaxWrites)
      /\ Len(b.data) \in 1..WRITE_BUFFER_LIMIT /\ Len(new.data) \in 1..WRITE_BUFFER_LIMIT
  BY PendingIs DEF Pending
<1>2. /\ d \in Seq(1..MaxWrites) /\ Len(d) = Len(b.data) + Len(new.data)
      /\ \A i \in 1..Len(b.data) + Len(new.data) :
           d[i] = IF i <= Len(b.data) THEN b.data[i] ELSE new.data[i - Len(b.data)]
  BY <1>1, ConcatProperties
<1> HIDE DEF d
<1>3. e \in Buffer /\ e.offset = b.offset /\ e.data = d
  BY <1>1, <1>2 DEF Buffer, d
<1> HIDE DEF e
<1>4. WRITE_BUFFER_LIMIT \in Nat /\ MaxOffset \in Nat
  BY WriteBackAssumption
<1>m. PICK m \in Nat : m = Len(b.data) /\ m >= 1
  BY <1>1, <1>4
<1>n. PICK n \in Nat : n = Len(new.data) /\ n >= 1
  BY <1>1, <1>4
<1>o. PICK o \in Nat : o = b.offset
  BY <1>1, <1>4
<1>5. Len(d) = m + n /\ new.offset = o + m /\ m + n <= WRITE_BUFFER_LIMIT
  BY <1>2, <1>m, <1>n, <1>o
<1>6. /\ \A i \in 1..m : d[i] = b.data[i]
      /\ \A i \in 1..n : d[m + i] = new.data[i]
  <2>1. \A i \in 1..m + n : d[i] = IF i <= m THEN b.data[i] ELSE new.data[i - m]
    BY <1>2, <1>m, <1>n
  <2>2. \A i \in 1..m : i \in 1..m + n /\ i <= m
    OBVIOUS
  <2>3. \A i \in 1..n : m + i \in 1..m + n /\ ~(m + i <= m) /\ (m + i) - m = i
    OBVIOUS
  <2> QED
    BY <2>1, <2>2, <2>3
<1>7. /\ CellsOf(fh, b) = {<<fh, o + i - 1, b.data[i]>> : i \in 1..m}
      /\ CellsOf(fh, new) = {<<fh, (o + m) + i - 1, new.data[i]>> : i \in 1..n}
      /\ CellsOf(fh, e) = {<<fh, o + i - 1, d[i]>> : i \in 1..m + n}
  BY <1>3, <1>5, <1>m, <1>n, <1>o DEF CellsOf
<1>8. e \in Pending
  <2>1. m + n \in 1..WRITE_BUFFER_LIMIT
    BY <1>4, <1>5, <1>m
  <2> QED
    BY <1>3, <1>5, <2>1 DEF Pending, Fits
<1>9. \A i \in 1..m : <<fh, o + i - 1, b.data[i]>> \in CellsOf(fh, e)
  <2> SUFFICES ASSUME NEW i \in 1..m PROVE <<fh, o + i - 1, b.data[i]>> \in CellsOf(fh, e)
    OBVIOUS
  <2>1. i \in 1..m + n /\ b.data[i] = d[i]
    BY <1>6
  <2> QED
    BY <1>7, <2>1
<1>10. \A i \in 1..n : <<fh, (o + m) + i - 1, new.data[i]>> \in CellsOf(fh, e)
  <2> SUFFICES ASSUME NEW i \in 1..n PROVE <<fh, (o + m) + i - 1, new.data[i]>> \in CellsOf(fh, e)
    OBVIOUS
  <2>1. m + i \in 1..m + n /\ (o + m) + i - 1 = o + (m + i) - 1
    OBVIOUS
  <2>2. new.data[i] = d[m + i]
    BY <1>6
  <2> QED
    BY <1>7, <2>1, <2>2
<1>11. \A j \in 1..m + n : <<fh, o + j - 1, d[j]>> \in CellsOf(fh, b) \cup CellsOf(fh, new)
  <2> SUFFICES ASSUME NEW j \in 1..m + n
               PROVE  <<fh, o + j - 1, d[j]>> \in CellsOf(fh, b) \cup CellsOf(fh, new)
    OBVIOUS
  <2>1. CASE j \in 1..m
    BY <1>6, <1>7, <2>1
  <2>2. CASE j \notin 1..m
    <3>1. PICK i \in 1..n : j = m + i
      <4>1. j - m \in 1..n /\ j = m + (j - m)
        BY <2>2
      <4> QED
        BY <4>1
    <3>2. o + j - 1 = (o + m) + i - 1 /\ d[j] = new.data[i]
      BY <1>6, <3>1
    <3> QED
      BY <1>7, <3>2
  <2> QED
    BY <2>1, <2>2
<1>12. CellsOf(fh, e) = CellsOf(fh, b) \cup CellsOf(fh, new)
  BY <1>7, <1>9, <1>10, <1>11
<1> QED
  BY <1>8, <1>12 DEF e

\* The cells of the next write, and whether it displaces the pending one.
Fresh(fh, offset, len) == CellsOf(fh, [offset |-> offset, data |-> Bytes(writes + 1, len)])
Displaces(fh, offset, len) == fh \in DOMAIN write_buffers /\ ~Appends(fh, offset, len)

\* What is in the buffer of the handle after a write: the data written, and what
\* was there unless the write displaced it.
LEMMA WriteBuffers ==
  ASSUME IInv, NEW t \in Threads, NEW fh \in Handles, NEW offset \in 0..MaxOffset,
         NEW len \in 1..Min({MaxLen, MaxOffset + 1 - offset}), Write(t, fh, offset, len)
  PROVE  /\ \A c \in Fresh(fh, offset, len) : c \in Cell /\ c[1] = fh /\ c[3] = writes + 1
         /\ DOMAIN write_buffers' = DOMAIN write_buffers \cup {fh}
         /\ \A g \in DOMAIN write_buffers : g # fh => write_buffers'[g] = write_buffers[g]
         /\ write_buffers'[fh] \in Pending
         /\ Fresh(fh, offset, len) \subseteq CellsOf(fh, write_buffers'[fh])
         /\ fh \in DOMAIN write_buffers /\ ~Displaces(fh, offset, len) =>
              CellsOf(fh, write_buffers[fh]) \subseteq CellsOf(fh, write_buffers'[fh])
         /\ \A c \in CellsOf(fh, write_buffers'[fh]) : InBuffer(c) \/ c[3] = writes + 1
<1> DEFINE new == [offset |-> offset, data |-> Bytes(writes + 1, len)]
           b == write_buffers[fh]
           longer == [b EXCEPT !.data = @ \o new.data]
           e == IF Appends(fh, offset, len) THEN longer ELSE new
<1>1. Typed /\ writes < MaxWrites /\ write_buffers' = With(write_buffers, fh, e)
  BY DEF IInv, Write
<1>2. /\ new \in Pending /\ Len(new.data) = len
      /\ \A c \in CellsOf(fh, new) : c \in Cell /\ c[1] = fh /\ c[3] = writes + 1
  BY <1>1, NewIs
<1>3. new.offset = offset /\ Fresh(fh, offset, len) = CellsOf(fh, new)
  BY DEF Fresh
<1> HIDE DEF new
<1>4. /\ DOMAIN write_buffers' = DOMAIN write_buffers \cup {fh} /\ write_buffers'[fh] = e
      /\ \A g \in DOMAIN write_buffers : g # fh => write_buffers'[g] = write_buffers[g]
  BY <1>1 DEF With
<1>5. CASE Appends(fh, offset, len)
  <2>1. fh \in DOMAIN write_buffers /\ b \in Pending
    BY <1>1, <1>5 DEF Appends, Typed, BuffersOK
  <2>2. b.offset + Len(b.data) = new.offset /\ Len(b.data) + Len(new.data) <= WRITE_BUFFER_LIMIT
    BY <1>2, <1>3, <1>5 DEF Appends
  <2>3. longer \in Pending /\ CellsOf(fh, longer) = CellsOf(fh, b) \cup CellsOf(fh, new)
    <3> HIDE DEF b
    <3> QED
      BY <1>2, <2>1, <2>2, AppendedIs
  <2>4. \A c \in CellsOf(fh, b) : InBuffer(c)
    BY <2>1 DEF InBuffer
  <2>5. write_buffers'[fh] = longer
    BY <1>4, <1>5
  <2> HIDE DEF longer, e
  <2> QED
    BY <1>2, <1>3, <1>4, <2>3, <2>4, <2>5
<1>6. CASE ~Appends(fh, offset, len)
  <2>1. write_buffers'[fh] = new
    BY <1>4, <1>6
  <2> HIDE DEF longer, e
  <2> QED
    BY <1>2, <1>3, <1>4, <1>6, <2>1 DEF Displaces
<1> QED
  BY <1>5, <1>6

\* By a write: what it displaces is in the hand of the thread, and nothing that
\* a call has to account for comes into a buffer.
LEMMA WriteKeeps ==
  ASSUME IInv, NEW t \in Threads, NEW fh \in Handles, NEW offset \in 0..MaxOffset,
         NEW len \in 1..Min({MaxLen, MaxOffset + 1 - offset}), Write(t, fh, offset, len)
  PROVE  IInv'
<1> DEFINE fresh == Fresh(fh, offset, len)
           displaces == Displaces(fh, offset, len)
           x == [op |-> "write", fh |-> fh, todo |-> {}, file |-> FileOf[fh],
                 handFh |-> fh, hand |-> write_buffers[fh], all |-> {}, must |-> fresh]
<1>1. /\ th[t].op = "idle" /\ writes < MaxWrites /\ writes' = writes + 1 /\ t \in Everyone
      /\ IF displaces THEN th' = [th EXCEPT ![t] = x] /\ acked' = acked
                      ELSE acked' = acked \cup fresh /\ th' = th
      /\ UNCHANGED <<server, inflight, nextUpload, bytes, errors, landed, dropped, told>>
  BY DEF Write, Fresh, Displaces, uploads, Everyone
<1>2. /\ \A c \in fresh : c \in Cell /\ c[1] = fh /\ c[3] = writes + 1
      /\ DOMAIN write_buffers' = DOMAIN write_buffers \cup {fh}
      /\ \A g \in DOMAIN write_buffers : g # fh => write_buffers'[g] = write_buffers[g]
      /\ write_buffers'[fh] \in Pending
      /\ fresh \subseteq CellsOf(fh, write_buffers'[fh])
      /\ fh \in DOMAIN write_buffers /\ ~displaces =>
           CellsOf(fh, write_buffers[fh]) \subseteq CellsOf(fh, write_buffers'[fh])
      /\ \A c \in CellsOf(fh, write_buffers'[fh]) : InBuffer(c) \/ c[3] = writes + 1
  BY WriteBuffers
<1>d. displaces => fh \in DOMAIN write_buffers
  BY DEF Displaces
<1> HIDE DEF fresh, displaces
<1>3. /\ Typed /\ th \in [Everyone -> Task] /\ writes \in Nat /\ ~Works(t)
      /\ writes + 1 \in 0..MaxWrites /\ acked \subseteq Cell
  BY <1>1, WriteBackAssumption DEF IInv, Typed, Works
<1>4. displaces =>
        /\ x \in Working /\ x.op = "write" /\ x.handFh = fh /\ x.hand = write_buffers[fh]
        /\ x.must = fresh
  BY <1>2, <1>3, <1>d, WriteBackAssumption DEF Working, Typed, BuffersOK
<1> HIDE DEF x
<1>5. /\ displaces => th'[t] = x
      /\ \A u \in Everyone : u # t => th'[u] = th[u]
      /\ \A u \in Everyone : ~displaces => th'[u] = th[u]
  BY <1>1, <1>3
<1>6. ~displaces => th'[t] = Idle /\ th[t] = Idle
  BY <1>1, <1>3, <1>5, TaskIs
<1>7. Typed'
  <2>1. th' \in [Everyone -> Task]
    BY <1>1, <1>3, <1>4 DEF Task
  <2>2. BuffersOK'
    BY <1>2, <1>3 DEF Typed, BuffersOK
  <2>3. acked' \subseteq Cell /\ writes' \in 0..MaxWrites
    BY <1>1, <1>2, <1>3
  <2> QED
    BY <1>1, <1>3, <2>1, <2>2, <2>3 DEF Typed, UploadsOK
<1>8. \A c : InBuffer(c)' => InBuffer(c) \/ c[3] = writes + 1
  <2> SUFFICES ASSUME NEW c, NEW g \in DOMAIN write_buffers', c \in CellsOf(g, write_buffers'[g])
               PROVE  InBuffer(c) \/ c[3] = writes + 1
    BY DEF InBuffer
  <2>1. CASE g = fh
    BY <1>2, <2>1
  <2>2. CASE g # fh
    BY <1>2, <2>2 DEF InBuffer
  <2> QED
    BY <2>1, <2>2
<1>9. ASSUME NEW c, Somewhere(c) PROVE Somewhere(c)'
  <2>1. InBuffer(c) => InBuffer(c)' \/ InHand(c)'
    <3> SUFFICES ASSUME NEW g \in DOMAIN write_buffers, c \in CellsOf(g, write_buffers[g])
                 PROVE  InBuffer(c)' \/ InHand(c)'
      BY DEF InBuffer
    <3>1. CASE g # fh
      BY <1>2, <3>1 DEF InBuffer
    <3>2. CASE g = fh /\ displaces
      <4>1. Works(t)' /\ c \in CellsOf(th'[t].handFh, th'[t].hand)
        BY <1>4, <1>5, <3>2 DEF Works
      <4> QED
        BY <1>1, <4>1 DEF InHand
    <3>3. CASE g = fh /\ ~displaces
      BY <1>2, <3>3 DEF InBuffer
    <3> QED
      BY <3>1, <3>2, <3>3
  <2>2. InHand(c) => InHand(c)'
    <3> SUFFICES ASSUME NEW u \in Everyone, Works(u), c \in CellsOf(th[u].handFh, th[u].hand)
                 PROVE  InHand(c)'
      BY DEF InHand
    <3>1. u # t
      BY <1>3
    <3> QED
      BY <1>5, <3>1 DEF InHand, Works
  <2>3. InFlight(c) => InFlight(c)'
    BY <1>1 DEF InFlight
  <2> QED
    BY <1>1, <1>9, <2>1, <2>2, <2>3 DEF Somewhere
<1>10. \A c \in fresh : Somewhere(c)'
  BY <1>2 DEF Somewhere, InBuffer
<1>11. Kept'
  <2>1. \A c \in acked' : Somewhere(c)'
    BY <1>1, <1>9, <1>10 DEF IInv, Kept
  <2>2. ASSUME NEW u \in Everyone, th'[u].op = "write", NEW c \in th'[u].must PROVE Somewhere(c)'
    <3>1. CASE u = t /\ displaces
      BY <1>4, <1>5, <1>10, <2>2, <3>1
    <3>2. CASE ~(u = t /\ displaces)
      <4>1. th'[u] = th[u]
        BY <1>5, <3>2
      <4> QED
        BY <1>9, <2>2, <4>1 DEF IInv, Kept
    <3> QED
      BY <3>1, <3>2
  <2> QED
    BY <2>1, <2>2 DEF Kept
<1>12. Numbered'
  <2>1. ASSUME NEW c \in Cell, c[3] <= writes PROVE c[3] <= writes'
    <3>1. c[3] \in Nat
      BY DEF Cell
    <3> QED
      BY <1>1, <1>3, <2>1, <3>1
  <2>2. \A c \in fresh : c[3] <= writes'
    BY <1>1, <1>2, <1>3
  <2>3. \A c \in acked' : c[3] <= writes'
    BY <1>1, <1>3, <2>1, <2>2 DEF IInv, Numbered
  <2>4. ASSUME NEW u \in Everyone, Works(u)', NEW c \in th'[u].must PROVE c[3] <= writes'
    <3>1. CASE u = t /\ displaces
      BY <1>4, <1>5, <2>2, <2>4, <3>1
    <3>2. CASE ~(u = t /\ displaces)
      <4>1. th'[u] = th[u] /\ Works(u)
        BY <1>5, <2>4, <3>2 DEF Works
      <4>2. c \in Cell
        BY <1>3, <2>4, <4>1, TaskIs DEF Works
      <4> QED
        BY <2>1, <2>4, <4>1, <4>2 DEF IInv, Numbered
    <3> QED
      BY <3>1, <3>2
  <2> QED
    BY <2>3, <2>4 DEF Numbered
<1>13. Drained'
  <2>1. ASSUME NEW u \in Everyone PROVE DrainedTask(th[u])'
    <3>1. CASE u = t /\ displaces
      BY <1>4, <1>5, <3>1 DEF DrainedTask
    <3>2. CASE ~(u = t /\ displaces)
      <4>1. th'[u] = th[u]
        BY <1>5, <3>2
      <4>2. Works(u) => \A c \in th[u].must : c[3] # writes + 1
        <5> SUFFICES ASSUME Works(u), NEW c \in th[u].must PROVE c[3] # writes + 1
          OBVIOUS
        <5>1. c \in Cell /\ c[3] <= writes
          BY <1>3, TaskIs DEF IInv, Numbered, Works
        <5>2. c[3] \in Nat
          BY <5>1 DEF Cell
        <5> QED
          BY <1>3, <5>1, <5>2
      <4>3. th[u].op \in {"flush", "fsync", "read", "match"} => Works(u)
        BY DEF Works
      <4> QED
        BY <1>8, <4>1, <4>2, <4>3 DEF IInv, Drained, DrainedTask
    <3> QED
      BY <3>1, <3>2
  <2> QED
    BY <2>1 DEF Drained
<1>14. SentLanded' /\ NoOverlap' /\ Window' /\ FailuresKept'
  BY <1>1 DEF IInv, SentLanded, NoOverlap, Overlaps, Window, InflightBytes, FailuresKept
<1> QED
  BY <1>7, <1>11, <1>12, <1>13, <1>14 DEF IInv

-----------------------------------------------------------------------------
(* The theorems. *)

\* The invariant holds at first.
LEMMA InitIInv == Init => IInv
<1> SUFFICES ASSUME Init PROVE IInv
  OBVIOUS
<1>1. /\ DOMAIN write_buffers = {} /\ DOMAIN inflight = {} /\ acked = {} /\ dropped = {}
      /\ errors = {} /\ nextUpload = 0 /\ bytes = 0 /\ writes = 0
      /\ \A t \in Everyone : th[t] = Idle /\ th[t].op = "idle"
  BY DEF Init, Idle
<1>2. server \in [Files -> [0..MaxOffset -> 0..MaxWrites]]
  BY WriteBackAssumption DEF Init
<1>3. th \in [Everyone -> Task]
  BY DEF Init, Task
<1>4. Typed
  BY <1>1, <1>2, <1>3, WriteBackAssumption DEF Typed, BuffersOK, UploadsOK
<1>5. Kept /\ Numbered /\ Drained /\ SentLanded /\ NoOverlap /\ FailuresKept
  BY <1>1 DEF Kept, Numbered, Drained, DrainedTask, Works, SentLanded, NoOverlap, FailuresKept
<1>6. Window
  <2>1. InflightBytes = {}
    BY <1>1 DEF InflightBytes
  <2> QED
    BY <1>1, <2>1, FS_EmptySet, WriteBackAssumption DEF Window
<1> QED
  BY <1>4, <1>5, <1>6 DEF IInv

\* Every step keeps the invariant.
LEMMA NextIInv == IInv /\ [Next]_vars => IInv'
<1> SUFFICES ASSUME IInv, [Next]_vars PROVE IInv'
  OBVIOUS
<1>1. ASSUME NEW t \in Threads, Starts(t) PROVE IInv'
  BY <1>1, WriteKeeps, ReportKeeps, StartKeeps DEF Starts
<1>2. ASSUME NEW t \in Threads, Goes(t) PROVE IInv'
  BY <1>2, TakeKeeps, EnqueueKeeps, ReturnKeeps, DoneKeeps DEF Goes, Everyone
<1>3. ASSUME NEW idle \in SUBSET Handles, SweepStart(idle) PROVE IInv'
  BY <1>3, SweepKeeps
<1>4. CASE Take(Flusher) \/ Enqueue(Flusher) \/ SweepDone
  BY <1>4, TakeKeeps, EnqueueKeeps, ReturnKeeps DEF Everyone
<1>5. ASSUME NEW id \in DOMAIN inflight, Uploads(id) PROVE IInv'
  BY <1>5, SendKeeps, UploadDoneKeeps DEF Uploads
<1>6. CASE UNCHANGED vars
  <2>1. UNCHANGED <<server, write_buffers, inflight, nextUpload, bytes, errors, th, writes,
                    acked, landed, dropped, told>>
    BY <1>6 DEF vars, uploads, counters, history
  <2>2. Typed'
    BY <2>1 DEF IInv, Typed, BuffersOK, UploadsOK
  <2>3. \A c : (InBuffer(c)' <=> InBuffer(c)) /\ (InHand(c)' <=> InHand(c)) /\ (InFlight(c)' <=> InFlight(c))
    BY <2>1 DEF InBuffer, InHand, InFlight, Works
  <2>4. Kept' /\ SentLanded'
    BY <2>1, <2>3 DEF IInv, Kept, Somewhere, SentLanded
  <2>5. Numbered' /\ Drained' /\ FailuresKept'
    BY <2>1, <2>3 DEF IInv, Numbered, Drained, DrainedTask, Works, FailuresKept
  <2>6. NoOverlap' /\ Window'
    BY <2>1 DEF IInv, NoOverlap, Overlaps, Window, InflightBytes
  <2> QED
    BY <2>2, <2>4, <2>5, <2>6 DEF IInv
<1> QED
  BY <1>1, <1>2, <1>3, <1>4, <1>5, <1>6 DEF Next

\* The invariant holds in every state of every behaviour.
LEMMA Always == Spec => []IInv
BY InitIInv, NextIInv, PTL DEF Spec

\* A buffer is never longer than WRITE_BUFFER_LIMIT and never empty, an upload
\* is the data of one buffer under an id given out before.
THEOREM WriteTypes == Spec => []TypeOK
<1>1. IInv => TypeOK
  <2> SUFFICES ASSUME IInv PROVE TypeOK
    OBVIOUS
  <2>1. \A b : b.offset \in 0..MaxOffset /\ b.data \in Seq(1..MaxWrites) /\ Fits(b) => BufferOK(b)
    <3> SUFFICES ASSUME NEW b, b.offset \in 0..MaxOffset, b.data \in Seq(1..MaxWrites), Fits(b)
                 PROVE  BufferOK(b)
      OBVIOUS
    <3>1. \A i \in 1..Len(b.data) : b.data[i] \in 1..MaxWrites
      BY ElementOfSeq
    <3> QED
      BY <3>1, WriteBackAssumption DEF BufferOK, Fits
  <2>2. \A fh \in DOMAIN write_buffers : BufferOK(write_buffers[fh]) /\ write_buffers[fh].data # <<>>
    BY <2>1, PendingIs DEF IInv, Typed, BuffersOK, Fits
  <2>3. \A id \in DOMAIN inflight :
          id \in 1..nextUpload /\ BufferOK(inflight[id]) /\ inflight[id].fh \in Handles
    <3> SUFFICES ASSUME NEW id \in DOMAIN inflight
                 PROVE  id \in 1..nextUpload /\ BufferOK(inflight[id]) /\ inflight[id].fh \in Handles
      OBVIOUS
    <3>1. id \in 1..nextUpload /\ inflight[id] \in Upload /\ Fits(inflight[id])
      BY DEF IInv, Typed, UploadsOK
    <3>2. /\ inflight[id].offset \in 0..MaxOffset /\ inflight[id].data \in Seq(1..MaxWrites)
          /\ inflight[id].fh \in Handles
      BY <3>1 DEF Upload
    <3> QED
      BY <2>1, <3>1, <3>2
  <2>4. bytes \in Nat
    BY FS_CardinalityType DEF IInv, Window
  <2> QED
    BY <2>2, <2>3, <2>4 DEF IInv, Typed, BuffersOK, TypeOK
<1> QED
  BY <1>1, Always, PTL

\* No byte that Vfs::write accepted disappears between write_buffers, the
\* threads of dispatch_fh, uploads.inflight and the server, unless its upload
\* failed.
THEOREM NoByteLost == Spec => []NothingLost
<1>1. IInv => NothingLost
  BY Places DEF IInv, Kept, Somewhere, NothingLost
<1> QED
  BY <1>1, Always, PTL

\* The wait loop of dispatch_pending keeps overlapping uploads apart.
THEOREM UploadsApart == Spec => []NoOverlap
<1>1. IInv => NoOverlap
  BY DEF IInv
<1> QED
  BY <1>1, Always, PTL

\* uploads.bytes is the bytes in flight, within MAX_INFLIGHT_UPLOAD_BYTES.
THEOREM WindowKept == Spec => []WindowExact
<1>1. IInv => WindowExact
  BY DEF IInv, Window, WindowExact
<1> QED
  BY <1>1, Always, PTL

\* The error of a failed upload waits in uploads.errors until a call returns it.
THEOREM FailuresReported == Spec => []FailuresKept
<1>1. IInv => FailuresKept
  BY DEF IInv
<1> QED
  BY <1>1, Always, PTL

\* flush, fsync and the flush of a read return Ok only when nothing that was
\* written through the handle (to the file) before the call is left in a buffer
\* or in flight.
THEOREM FlushLeavesNothing == Spec => FlushDrains
<1> DEFINE Drains == \A t \in Threads :
             th[t].op # "ok" /\ th'[t].op = "ok"
               => th[t].must \cap (BufferedCells \cup InflightCells) = {}
<1>1. IInv /\ [Next]_vars => [Drains]_vars
  <2> SUFFICES ASSUME IInv, Next, NEW t \in Threads, th[t].op # "ok", th'[t].op = "ok",
                      NEW c \in th[t].must
               PROVE  ~InBuffer(c) /\ ~InFlight(c)
    BY Places
  <2>1. /\ Typed /\ th \in [Everyone -> Task] /\ t \in Everyone
    BY DEF IInv, Typed, Everyone
  <2>2. FlushDone(t) \/ MatchDone(t)
    <3>1. ASSUME NEW u \in Everyone, NEW x, th' = [th EXCEPT ![u] = x], x.op # "ok" PROVE FALSE
      BY <2>1, <3>1
    <3>2. ASSUME th' = th PROVE FALSE
      BY <3>2
    <3>3. ASSUME NEW u \in Threads, Starts(u) PROVE FALSE
      <4>1. u \in Everyone
        BY DEF Everyone
      <4>2. ASSUME NEW fh, NEW offset, NEW len, Write(u, fh, offset, len) PROVE FALSE
        BY <3>1, <3>2, <4>1, <4>2 DEF Write
      <4>3. ASSUME NEW fh, NEW op \in {"flush", "fsync", "read"}, NEW todo, NEW must,
                   Call(u, op, fh, todo, must)
            PROVE  FALSE
        BY <3>1, <4>1, <4>3 DEF Call
      <4> QED
        BY <3>2, <3>3, <4>2, <4>3 DEF Starts, WriteReportsError, FlushStart, FsyncStart, ReadStart
    <3>4. ASSUME NEW u \in Everyone, Take(u) \/ Enqueue(u) \/ WriteReturn(u) \/ Return(u) PROVE FALSE
      <4>1. CASE WriteReturn(u) \/ Return(u)
        BY <3>1, <4>1 DEF WriteReturn, Return, Idle
      <4>2. CASE Take(u) \/ Enqueue(u)
        <5>1. th[u].op \notin {"idle", "ok"} /\ th[u] \in Working
          BY <2>1, <4>2, TaskIs DEF Take, Enqueue
        <5>2. th'[u].op = th[u].op /\ \A v \in Everyone : v # u => th'[v] = th[v]
          BY <2>1, <4>2, <5>1 DEF Take, Enqueue, Working
        <5> QED
          BY <2>1, <5>1, <5>2
      <4> QED
        BY <3>4, <4>1, <4>2
    <3>5. ASSUME NEW idle \in SUBSET Handles, SweepStart(idle) PROVE FALSE
      BY <3>1, <3>5 DEF SweepStart, Call, Everyone
    <3>6. ASSUME SweepDone PROVE FALSE
      BY <3>1, <3>6 DEF SweepDone, Idle, Everyone
    <3>7. ASSUME NEW id \in DOMAIN inflight, Uploads(id) PROVE FALSE
      BY <3>2, <3>7 DEF Uploads, UploadSend, UploadDone
    <3>8. PICK u \in Threads : FlushDone(u) \/ MatchDone(u)
      BY <3>3, <3>4, <3>5, <3>6, <3>7 DEF Next, Goes, Everyone
    <3>9. u = t
      <4>1. \E x : th' = [th EXCEPT ![u] = x]
        BY <3>8 DEF FlushDone, MatchDone, Ok, Fail, Call
      <4> QED
        BY <2>1, <4>1
    <3> QED
      BY <3>8, <3>9
  <2>3. /\ th[t].op \in {"flush", "fsync", "match", "read"} /\ th[t].todo = {}
        /\ FileOf[c[1]] = th[t].file
        /\ th[t].op \in {"flush", "fsync"} => c[1] = th[t].fh
        /\ InBuffer(c) => c[1] \in th[t].todo
    BY <2>1, <2>2 DEF FlushDone, MatchDone, Dispatched, IInv, Drained, DrainedTask
  <2>4. ASSUME NEW id \in DOMAIN inflight, c \in CellsOf(inflight[id].fh, inflight[id]) PROVE FALSE
    <3>1. /\ inflight[id] \in Upload /\ inflight[id].file = FileOf[inflight[id].fh]
      BY <2>1 DEF Typed, UploadsOK
    <3>2. c[1] = inflight[id].fh
      BY <2>4, <3>1, CellsAre DEF Upload
    <3> QED
      BY <2>2, <2>3, <3>1, <3>2 DEF FlushDone, MatchDone
  <2> QED
    BY <2>3, <2>4 DEF InFlight
<1>2. Spec => [][Drains]_vars
  BY <1>1, Always, PTL DEF Spec
<1> QED
  BY <1>2 DEF FlushDrains
=============================================================================
