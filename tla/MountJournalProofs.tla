------------------------- MODULE MountJournalProofs -------------------------
(***************************************************************************)
(* The mount's journal, for any number of operations, faults, crashes and  *)
(* attempts.  Types hold for any number of mutating threads; the safety    *)
(* properties for one, as under FUSE: two share the file, and one's clear  *)
(* removes the other's record.                                             *)
(***************************************************************************)
EXTENDS MountJournal, TLAPS

\* The session thread of a FUSE mount runs all mutations.
OneMutator == \A m, n \in Mutators : m = n

Busy(m) == mounted /\ th[m].pc # "idle"

\* A thread that is to send an operation has one.
ActsOnOp == \A m \in Mutators : Acting(m) => th[m].op \in Ops

Typed == TypeOK /\ ActsOnOp

\* Calls and threads agree: the operation of a busy thread is the one that is
\* called, and a mount that is down only replays.
ThreadsCall ==
  \A m \in Mutators :
    /\ Busy(m) => th[m].op \in Ops /\ calls[th[m].op] = "called"
    /\ ~mounted => th[m].pc \in {"idle", "replay"}

CallsHaveThread ==
  \A o \in Ops : calls[o] = "called" => mounted /\ \E m \in Mutators : Busy(m) /\ th[m].op = o

\* Operations are called in order.
CallsInOrder == \A o, p \in Ops : p < o /\ calls[o] # "idle" => calls[p] # "idle"
BusyIsLast == \A m \in Mutators : Busy(m) => \A p \in Ops : p > th[m].op => calls[p] = "idle"

\* What is to be sent, or is to be replayed, is on record or settled ...
OnRecord ==
  \A m \in Mutators :
    Busy(m) /\ th[m].pc \in {"act", "rest", "recover", "replay"} =>
      th[m].op \in Range(journal) \/ Settled(th[m].op)

\* ... a replay goes through the records it has not settled ...
ReplayCovers ==
  \A m \in Mutators : th[m].pc = "replay" =>
    /\ Range(th[m].queue) \subseteq Range(journal)
    /\ \A o \in Range(journal) \cap Ops : Settled(o) \/ o \in Range(th[m].queue)

\* ... of an operation that failed in transport ...
RecoverBroken ==
  \A m \in Mutators : Busy(m) /\ th[m].pc \in {"recover", "replay"} => th[m].op \in broken

\* ... the second request of an operation comes after the first ...
MainFirst == \A m \in Mutators : th[m].pc = "rest" => applied[<<th[m].op, "main">>] > 0

\* ... and when the record is to be cleared the operation is settled, and done if
\* it never failed in transport.
Kept(o) == Done(o) \/ (o \in broken /\ Settled(o))
ClearIsSettled ==
  \A m \in Mutators : th[m].pc = "clear" =>
    Settled(th[m].op) /\ (th[m].result = "ok" => Kept(th[m].op))

\* What the mount was doing when it died is settled or on record.
CutOnRecord == \A o \in Ops : calls[o] = "cut" => Settled(o) \/ (~mounted /\ o \in Range(journal))

\* No record is older than an operation that returned Ok.
RecordsYoung == \A o \in Range(journal) \cap Ops : \A p \in o..MaxOps : calls[p] # "ok"

Calls == ThreadsCall /\ CallsHaveThread /\ CallsInOrder /\ BusyIsLast
Records == OnRecord /\ ReplayCovers /\ RecordsYoung
Progress == RecoverBroken /\ MainFirst
Outcomes == ClearIsSettled /\ CutOnRecord /\ OkSettled

IInv == Typed /\ Calls /\ Records /\ Progress /\ Outcomes

-----------------------------------------------------------------------------
(* Sequences of records. *)

\* The elements of a sequence, of its tail and of a longer one.
LEMMA RangeOfSeq ==
  ASSUME NEW S, NEW s \in Seq(S)
  PROVE  /\ Range(s) \subseteq S
         /\ Range(<<>>) = {}
         /\ \A x \in S : Range(Append(s, x)) = Range(s) \cup {x}
         /\ s # <<>> => /\ Head(s) \in S /\ Tail(s) \in Seq(S)
                        /\ Range(s) = {Head(s)} \cup Range(Tail(s))
<1>1. Range(s) \subseteq S /\ Range(<<>>) = {}
  BY DEF Range
<1>2. ASSUME NEW x \in S
      PROVE  Range(Append(s, x)) = Range(s) \cup {x}
  <2>1. /\ DOMAIN s = 1..Len(s) /\ Len(s) \in Nat
        /\ DOMAIN Append(s, x) = 1..(Len(s) + 1)
        /\ Append(s, x)[Len(s) + 1] = x
        /\ \A i \in 1..Len(s) : Append(s, x)[i] = s[i]
    OBVIOUS
  <2>2. \A i \in 1..(Len(s) + 1) : i \in 1..Len(s) \/ i = Len(s) + 1
    BY <2>1
  <2>3. 1..Len(s) \subseteq 1..(Len(s) + 1) /\ Len(s) + 1 \in 1..(Len(s) + 1)
    BY <2>1
  <2> QED
    BY <2>1, <2>2, <2>3, Zenon DEF Range
<1>3. ASSUME s # <<>>
      PROVE  Range(s) = {Head(s)} \cup Range(Tail(s))
  <2>1. Len(s) > 0 /\ Head(s) = s[1]
    BY <1>3
  <2>2. \A i \in 1..Len(Tail(s)) : Tail(s)[i] = s[i + 1] /\ i + 1 \in 1..Len(s)
    BY <1>3
  <2>3. \A i \in 1..Len(s) : i = 1 \/ (i - 1 \in 1..Len(Tail(s)) /\ s[i] = Tail(s)[i - 1])
    BY <1>3
  <2>4. DOMAIN s = 1..Len(s) /\ DOMAIN Tail(s) = 1..Len(Tail(s)) /\ Len(Tail(s)) = Len(s) - 1
    BY <1>3
  <2> QED
    <3>1. 1 \in 1..Len(s)
      BY <2>1
    <3>2. Range(s) \subseteq {Head(s)} \cup Range(Tail(s))
      BY <2>1, <2>3, <2>4, Zenon DEF Range
    <3>3. Head(s) \in Range(s)
      BY <2>1, <2>4, <3>1, Zenon DEF Range
    <3>4. Range(Tail(s)) \subseteq Range(s)
      BY <2>2, <2>4, Zenon DEF Range
    <3> QED
      BY <3>2, <3>3, <3>4
<1> QED
  BY <1>1, <1>2, <1>3

-----------------------------------------------------------------------------
(* Types. *)

\* A thread without a call.
LEMMA IdleTyped == Idle \in Thread /\ Idle.pc = "idle" /\ <<>> \in Seq(Lines)
BY MountJournalAssumption DEF Idle, Thread, Ops, Lines

\* A line that cannot be read is no operation.
LEMMA UnreadableIs == Unreadable \notin Ops /\ Ops \subseteq Lines /\ Unreadable \in Lines
BY DEF Unreadable, Ops, Lines

\* A mount starts well typed: with an empty journal and no call.
LEMMA InitTyped == Init => Typed
<1> SUFFICES ASSUME Init PROVE Typed
  OBVIOUS
<1>1. TypeOK
  <2>1. th \in [Mutators -> Thread] /\ journal \in Seq(Lines)
    BY IdleTyped DEF Init
  <2>2. calls \in [Ops -> Call] /\ applied \in [Requests -> Nat]
    BY DEF Init, Call
  <2>3. mounted \in BOOLEAN /\ unended \in BOOLEAN /\ ~unended
    BY DEF Init
  <2>4. /\ faults \in 0..MaxFaults /\ crashes \in 0..MaxCrashes
        /\ refused \subseteq Ops /\ broken \subseteq Ops /\ torn \subseteq Ops
        /\ stray \subseteq Requests \X Mutators \X Nat
    BY MountJournalAssumption DEF Init
  <2> QED
    BY <2>1, <2>2, <2>3, <2>4 DEF TypeOK
<1>2. ActsOnOp
  BY IdleTyped DEF Init, ActsOnOp, Acting
<1> QED
  BY <1>1, <1>2 DEF Typed

\* A failed attempt leaves a thread that recovers again, or that has given up.
LEMMA AttemptFailsTyped ==
  ASSUME Typed, NEW m \in Mutators, AttemptFails(m)
  PROVE  th' \in [Mutators -> Thread] /\ calls' \in [Ops -> Call] /\ ActsOnOp'
<1>1. th \in [Mutators -> Thread] /\ calls \in [Ops -> Call] /\ ActsOnOp
  BY DEF Typed, TypeOK
<1>2. CASE mounted /\ th[m].attempt + 1 < DEFAULT_OP_RETRIES
  <2> DEFINE t == [th[m] EXCEPT !.pc = "recover", !.attempt = th[m].attempt + 1, !.queue = <<>>]
  <2>1. th' = [th EXCEPT ![m] = t] /\ calls' = calls
    BY <1>1, <1>2 DEF AttemptFails
  <2>2. t \in Thread /\ t.pc = "recover"
    <3>1. th[m] \in Thread /\ th[m].attempt + 1 \in 0..(DEFAULT_OP_RETRIES - 1)
      BY <1>1, <1>2, MountJournalAssumption DEF Thread
    <3> QED
      BY <3>1, IdleTyped DEF Thread
  <2> HIDE DEF t
  <2> QED
    BY <1>1, <2>1, <2>2 DEF ActsOnOp, Acting
<1>3. CASE ~(mounted /\ th[m].attempt + 1 < DEFAULT_OP_RETRIES)
  <2>1. th' = [th EXCEPT ![m] = Idle]
    BY <1>3 DEF AttemptFails, Finish
  <2>2. calls' = calls \/ calls' = [calls EXCEPT ![th[m].op] = "error"]
    BY <1>3 DEF AttemptFails, Finish
  <2> QED
    BY <1>1, <2>1, <2>2, IdleTyped DEF Call, ActsOnOp, Acting
<1> QED
  BY <1>2, <1>3

\* A step that gives one thread a new state keeps the types of threads.
LEMMA ThreadTyped ==
  ASSUME Typed, NEW m \in Mutators, NEW t \in Thread, th' = [th EXCEPT ![m] = t],
         t.pc \in {"act", "rest"} => t.op \in Ops
  PROVE  th' \in [Mutators -> Thread] /\ ActsOnOp'
BY DEF Typed, TypeOK, ActsOnOp, Acting

\* A request that takes effect is counted.
LEMMA ApplyTyped ==
  ASSUME Typed, NEW r \in Requests, Apply(r)
  PROVE  applied' \in [Requests -> Nat]
BY DEF Typed, TypeOK, Apply

\* A call returns and its thread is free.
LEMMA FinishTyped ==
  ASSUME Typed, NEW m \in Mutators, NEW result \in Call, Finish(m, result)
  PROVE  th' \in [Mutators -> Thread] /\ ActsOnOp' /\ calls' \in [Ops -> Call]
<1>1. th' = [th EXCEPT ![m] = Idle]
  BY DEF Finish
<1>2. calls' \in [Ops -> Call]
  BY DEF Finish, Typed, TypeOK
<1> QED
  BY <1>1, <1>2, IdleTyped, ThreadTyped

\* Faults are counted up to their bound.
LEMMA FaultTyped == Typed /\ Fault => faults' \in 0..MaxFaults
BY MountJournalAssumption DEF Typed, TypeOK, Fault

\* Broken connections leave requests behind.
LEMMA RetriedTyped ==
  ASSUME Typed, NEW m \in Mutators, NEW r \in Requests, Retried(m, r) \/ (Fault /\ LeftBehind(m, r))
  PROVE  faults' \in 0..MaxFaults /\ stray' \subseteq Requests \X Mutators \X Nat
<1>1. faults \in 0..MaxFaults /\ faults + crashes \in Nat /\ stray \subseteq Requests \X Mutators \X Nat
  BY MountJournalAssumption DEF Typed, TypeOK
<1>2. <<r, m, faults + crashes>> \in Requests \X Mutators \X Nat
  BY <1>1
<1> QED
  BY <1>1, <1>2, FaultTyped DEF Retried, LeftBehind

\* The next request of a thread in an operation, or in a replay.
LEMMA RequestTyped ==
  ASSUME Typed, NEW m \in Mutators
  PROVE  /\ Acting(m) => Request(m) \in Requests /\ th[m].op \in Ops
         /\ th[m].pc = "replay" /\ th[m].queue # <<>> =>
              Head(th[m].queue) \in Lines /\ Tail(th[m].queue) \in Seq(Lines)
         /\ Replaying(m) => Replayed(m) \in Requests /\ Head(th[m].queue) \in Ops
<1>1. th[m] \in Thread /\ th[m].queue \in Seq(Lines)
  BY DEF Typed, TypeOK, Thread
<1>2. Acting(m) => Request(m) \in Requests /\ th[m].op \in Ops
  BY DEF Typed, ActsOnOp, Request, Requests
<1>3. th[m].queue # <<>> => Head(th[m].queue) \in Lines /\ Tail(th[m].queue) \in Seq(Lines)
  BY <1>1, RangeOfSeq
<1> QED
  BY <1>2, <1>3 DEF Replaying, Replayed, Requests, Lines

\* What an append does to the file: every record is still in it or is torn.
LEMMA WrittenIs ==
  ASSUME Typed, NEW o \in Ops, NEW line \in {o, Unreadable}, NEW ended \in BOOLEAN,
         Written(o, line, ended)
  PROVE  /\ journal' \in Seq(Lines) /\ journal' # <<>> /\ unended' \in BOOLEAN
         /\ torn \subseteq torn' /\ torn' \subseteq Ops
         /\ \A q \in Ops : q \in Range(journal) \cup {o} => q \in Range(journal') \/ q \in torn'
         /\ Range(journal') \cap Ops \subseteq Range(journal) \cup {o}
<1>1. /\ journal \in Seq(Lines) /\ (unended => journal # <<>>) /\ torn \subseteq Ops
      /\ Len(journal) \in Nat
  BY DEF Typed, TypeOK
<1>2. line \in Lines /\ o \in Lines /\ Unreadable \notin Ops
  BY UnreadableIs
<1>3. Range(Append(journal, o)) = Range(journal) \cup {o}
  BY <1>1, <1>2, RangeOfSeq
<1>4. /\ unended' \in BOOLEAN
      /\ torn' = torn \cup ((Range(journal) \cup {o}) \ Range(journal'))
  BY <1>3 DEF Written
<1>5. /\ journal' \in Seq(Lines) /\ journal' # <<>>
      /\ (Range(journal) \cup {o}) \ Range(journal') \subseteq Ops
      /\ Range(journal') \cap Ops \subseteq Range(journal) \cup {o}
  <2>1. CASE ~unended
    <3>1. journal' = Append(journal, line)
      BY <2>1 DEF Written
    <3>2. journal' \in Seq(Lines) /\ journal' # <<>> /\ Range(journal') = Range(journal) \cup {line}
      BY <1>1, <1>2, <3>1, RangeOfSeq
    <3> QED
      BY <1>2, <3>2
  <2>2. CASE unended
    <3> DEFINE n == Len(journal)
    <3>1. n \in 1..n /\ n \in Nat
      BY <1>1, <2>2
    <3>2. journal' = [journal EXCEPT ![n] = Unreadable]
      BY <2>2 DEF Written
    <3>3. /\ DOMAIN journal = 1..n /\ DOMAIN journal' = 1..n /\ journal'[n] = Unreadable
          /\ \A i \in 1..n : i # n => journal'[i] = journal[i]
          /\ journal' \in Seq(Lines) /\ journal' # <<>>
      BY <1>1, <3>1, <3>2, UnreadableIs
    <3>4. Unreadable \in Range(journal')
      BY <3>1, <3>3, Zenon DEF Range
    <3>5. Range(journal') \subseteq Range(journal) \cup {Unreadable}
      BY <3>3 DEF Range
    <3>6. Range(journal) \subseteq Lines
      BY <1>1, RangeOfSeq
    <3> QED
      BY <1>2, <3>3, <3>4, <3>5, <3>6 DEF Lines
  <2> QED
    BY <2>1, <2>2
<1> QED
  BY <1>1, <1>4, <1>5

\* An append that stops on the way is one of these.
LEMMA PartIsWritten ==
  ASSUME NEW o, WrittenInPart(o)
  PROVE  \E line \in {o, Unreadable}, ended \in BOOLEAN : Written(o, line, ended)
BY DEF WrittenInPart

\* Every step keeps the types, with any number of mutating threads.
LEMMA NextTyped == Typed /\ [Next]_vars => Typed'
<1> SUFFICES ASSUME Typed, [Next]_vars PROVE Typed'
  OBVIOUS
<1>0. /\ journal \in Seq(Lines) /\ unended \in BOOLEAN /\ (unended => journal # <<>>)
      /\ mounted \in BOOLEAN
      /\ th \in [Mutators -> Thread] /\ calls \in [Ops -> Call]
      /\ stray \subseteq Requests \X Mutators \X Nat
      /\ faults \in 0..MaxFaults /\ crashes \in 0..MaxCrashes
      /\ applied \in [Requests -> Nat] /\ refused \subseteq Ops
      /\ broken \subseteq Ops /\ torn \subseteq Ops /\ ActsOnOp
  BY DEF Typed, TypeOK
<1>f. Emptied \/ UNCHANGED file =>
        journal' \in Seq(Lines) /\ unended' \in BOOLEAN /\ (unended' => journal' # <<>>)
  <2>1. ASSUME Emptied
        PROVE  journal' \in Seq(Lines) /\ unended' \in BOOLEAN /\ (unended' => journal' # <<>>)
    <3>1. journal' = <<>> /\ unended' = FALSE
      BY <2>1 DEF Emptied
    <3>2. <<>> \in Seq(Lines)
      OBVIOUS
    <3> QED
      BY <3>1, <3>2, Zenon
  <2>2. ASSUME UNCHANGED file
        PROVE  journal' \in Seq(Lines) /\ unended' \in BOOLEAN /\ (unended' => journal' # <<>>)
    BY <1>0, <2>2 DEF file
  <2> QED
    BY <2>1, <2>2
<1> USE DEF TypeOK, Typed
<1>1. ASSUME NEW called \in SUBSET Ops, Dies(called)
      PROVE  /\ th' \in [Mutators -> Thread] /\ ActsOnOp' /\ calls' \in [Ops -> Call]
             /\ mounted' \in BOOLEAN /\ crashes' \in 0..MaxCrashes
             /\ stray' \subseteq Requests \X Mutators \X Nat
             /\ UNCHANGED <<applied, refused, faults, broken>>
  <2>1. th' \in [Mutators -> Thread] /\ ActsOnOp'
    BY <1>1, IdleTyped DEF Dies, ActsOnOp, Acting
  <2>2. calls' \in [Ops -> Call] /\ crashes' \in 0..MaxCrashes
    BY <1>0, <1>1, MountJournalAssumption DEF Dies, Call
  <2>3. Sent \subseteq Requests \X Mutators \X Nat
    <3>1. faults + crashes \in Nat
      BY <1>0, MountJournalAssumption
    <3> QED
      BY <3>1, RequestTyped DEF Sent
  <2> QED
    BY <1>0, <1>1, <2>1, <2>2, <2>3 DEF Dies
<1>2. CASE Crash
  <2>1. Called \in SUBSET Ops
    BY DEF Called
  <2> QED
    BY <1>0, <1>1, <1>2, <2>1 DEF Crash, file
<1>3. ASSUME NEW m \in Mutators, NEW o \in Ops, CrashInRecord(m, o)
      PROVE  Typed'
  <2>1. Called \cup {o} \in SUBSET Ops
    BY DEF Called
  <2>2. PICK line \in {o, Unreadable}, ended \in BOOLEAN : Written(o, line, ended)
    BY <1>3, PartIsWritten DEF CrashInRecord
  <2>3. journal' \in Seq(Lines) /\ unended' \in BOOLEAN /\ journal' # <<>> /\ torn' \subseteq Ops
    BY <2>2, WrittenIs
  <2> QED
    BY <1>0, <1>1, <1>3, <2>1, <2>3 DEF CrashInRecord
<1>4. ASSUME NEW m \in Mutators, NEW o \in Ops, Record(m, o)
      PROVE  Typed'
  <2> DEFINE t == [Idle EXCEPT !.pc = "act", !.op = o]
  <2>1. t \in Thread /\ t.op = o
    <3>1. o \in 0..MaxOps
      BY DEF Ops
    <3> QED
      BY <3>1, IdleTyped DEF Thread, Idle
  <2>2. th' = [th EXCEPT ![m] = t]
    BY <1>4 DEF Record
  <2>3. th' \in [Mutators -> Thread] /\ ActsOnOp'
    <3> HIDE DEF t
    <3> QED BY <2>1, <2>2, ThreadTyped
  <2>4. calls' \in [Ops -> Call]
    BY <1>0, <1>4 DEF Record, Call
  <2>5. journal' \in Seq(Lines) /\ unended' \in BOOLEAN /\ journal' # <<>> /\ torn' \subseteq Ops
    BY <1>4, WrittenIs DEF Record
  <2> QED
    BY <1>0, <1>4, <2>3, <2>4, <2>5 DEF Record, server
<1>5. ASSUME NEW m \in Mutators, NEW o \in Ops, RecordFails(m, o)
      PROVE  Typed'
  <2>1. /\ journal' \in Seq(Lines) /\ unended' \in BOOLEAN /\ (unended' => journal' # <<>>)
        /\ torn' \subseteq Ops
    <3>1. CASE UNCHANGED <<file, torn>>
      BY <1>0, <3>1 DEF file
    <3>2. CASE WrittenInPart(o)
      BY <3>2, PartIsWritten, WrittenIs
    <3> QED
      BY <1>5, <3>1, <3>2 DEF RecordFails
  <2>2. faults' \in 0..MaxFaults /\ calls' \in [Ops -> Call] /\ ActsOnOp'
    BY <1>0, <1>5, FaultTyped DEF RecordFails, Call, ActsOnOp, Acting
  <2> QED
    BY <1>0, <1>5, <2>1, <2>2 DEF RecordFails, server
<1>6. ASSUME NEW m \in Mutators, ActOk(m) \/ ActRefused(m) \/ ActBroken(m)
      PROVE  Typed'
  <2>1. Acting(m) /\ Request(m) \in Requests /\ th[m].op \in Ops
    BY <1>6, RequestTyped DEF ActOk, ActRefused, ActBroken
  <2>2. PICK t \in Thread : th' = [th EXCEPT ![m] = t] /\ t.op = th[m].op
    <3> DEFINE t1 == [th[m] EXCEPT !.pc = IF th[m].pc = "act" /\ th[m].op \in Twofold THEN "rest" ELSE "clear"]
               t2 == [th[m] EXCEPT !.pc = "clear", !.result = "error"]
               t3 == [th[m] EXCEPT !.pc = "recover"]
    <3>1. th[m] \in Thread
      BY <1>0
    <3>2. t1 \in Thread /\ t2 \in Thread /\ t3 \in Thread
      BY <3>1 DEF Thread
    <3>3. t1.op = th[m].op /\ t2.op = th[m].op /\ t3.op = th[m].op
      BY <3>1 DEF Thread
    <3>4. ActOk(m) => th' = [th EXCEPT ![m] = t1]
      BY <1>0 DEF ActOk
    <3>5. ActRefused(m) => th' = [th EXCEPT ![m] = t2]
      BY <1>0 DEF ActRefused
    <3>6. ActBroken(m) => th' = [th EXCEPT ![m] = t3]
      BY <1>0 DEF ActBroken
    <3> HIDE DEF t1, t2, t3
    <3> QED
      BY <1>6, <3>2, <3>3, <3>4, <3>5, <3>6
  <2>3. th' \in [Mutators -> Thread] /\ ActsOnOp'
    BY <2>1, <2>2, ThreadTyped
  <2>4. applied' \in [Requests -> Nat] /\ refused' \subseteq Ops /\ broken' \subseteq Ops
    BY <1>0, <1>6, <2>1, ApplyTyped DEF ActOk, ActRefused, ActBroken
  <2>5. faults' \in 0..MaxFaults /\ stray' \subseteq Requests \X Mutators \X Nat
    BY <1>6, <2>1, RetriedTyped DEF ActOk, ActRefused, ActBroken
  <2> QED
    BY <1>0, <1>6, <2>3, <2>4, <2>5 DEF ActOk, ActRefused, ActBroken, file
<1>7. ASSUME NEW m \in Mutators, Clear(m) \/ ClearFails(m)
      PROVE  Typed'
  <2>1. th[m].result \in Call
    BY <1>0 DEF Thread, Call
  <2>2. th' \in [Mutators -> Thread] /\ ActsOnOp' /\ calls' \in [Ops -> Call]
    BY <1>7, <2>1, FinishTyped DEF Clear, ClearFails, Call
  <2>3. faults' \in 0..MaxFaults
    BY <1>0, <1>7, FaultTyped DEF Clear, ClearFails
  <2> QED
    BY <1>0, <1>7, <1>f, <2>2, <2>3 DEF Clear, ClearFails, server
<1>8. ASSUME NEW m \in Mutators, Reconnect(m) \/ Start(m)
      PROVE  Typed'
  <2> DEFINE t == [th[m] EXCEPT !.pc = "replay", !.queue = journal]
  <2>1. t \in Thread /\ t.pc = "replay"
    BY <1>0 DEF Thread
  <2>2. th' = [th EXCEPT ![m] = t]
    BY <1>0, <1>8 DEF Reconnect, Start
  <2>3. th' \in [Mutators -> Thread] /\ ActsOnOp'
    <3> HIDE DEF t
    <3> QED BY <2>1, <2>2, ThreadTyped
  <2> QED
    BY <1>0, <1>8, <2>3 DEF Reconnect, Start, file, server
<1>9. ASSUME NEW m \in Mutators, ReconnectFails(m) \/ ReplayBroken(m) \/ ReplayNotCleared(m)
      PROVE  Typed'
  <2>1. AttemptFails(m) /\ Fault
    BY <1>9 DEF ReconnectFails, ReplayBroken, ReplayNotCleared
  <2>2. th' \in [Mutators -> Thread] /\ calls' \in [Ops -> Call] /\ ActsOnOp' /\ faults' \in 0..MaxFaults
    BY <2>1, AttemptFailsTyped, FaultTyped
  <2>3. stray' \subseteq Requests \X Mutators \X Nat
    BY <1>0, <1>9, RequestTyped, RetriedTyped DEF ReconnectFails, ReplayBroken, ReplayNotCleared, server
  <2> QED
    BY <1>0, <1>9, <1>f, <2>2, <2>3 DEF ReconnectFails, ReplayBroken, ReplayNotCleared, server
<1>10. ASSUME NEW m \in Mutators, ReplayOk(m) \/ ReplayRefused(m) \/ ReplaySkip(m)
       PROVE  Typed'
  <2> DEFINE t == [th[m] EXCEPT !.queue = Tail(th[m].queue)]
  <2>1. th[m].pc = "replay" /\ Tail(th[m].queue) \in Seq(Lines)
    BY <1>10, RequestTyped DEF ReplayOk, ReplayRefused, ReplaySkip, Replaying
  <2>2. t \in Thread /\ t.pc = "replay"
    BY <1>0, <2>1 DEF Thread
  <2>3. th' = [th EXCEPT ![m] = t]
    BY <1>0, <1>10 DEF ReplayOk, ReplayRefused, ReplaySkip
  <2>4. th' \in [Mutators -> Thread] /\ ActsOnOp'
    <3> HIDE DEF t
    <3> QED BY <2>2, <2>3, ThreadTyped
  <2>5. /\ applied' \in [Requests -> Nat] /\ refused' \subseteq Ops
        /\ faults' \in 0..MaxFaults /\ stray' \subseteq Requests \X Mutators \X Nat
    <3>1. CASE ReplaySkip(m)
      BY <1>0, <3>1 DEF ReplaySkip, server
    <3>2. CASE ReplayOk(m) \/ ReplayRefused(m)
      <4>1. Replayed(m) \in Requests /\ Head(th[m].queue) \in Ops
        BY <3>2, RequestTyped DEF ReplayOk, ReplayRefused
      <4>2. applied' \in [Requests -> Nat] /\ refused' \subseteq Ops
        BY <1>0, <3>2, <4>1, ApplyTyped DEF ReplayOk, ReplayRefused
      <4>3. faults' \in 0..MaxFaults /\ stray' \subseteq Requests \X Mutators \X Nat
        BY <3>2, <4>1, RetriedTyped DEF ReplayOk, ReplayRefused
      <4> QED
        BY <4>2, <4>3
    <3> QED
      BY <1>10, <3>1, <3>2
  <2> QED
    BY <1>0, <1>10, <2>4, <2>5 DEF ReplayOk, ReplayRefused, ReplaySkip, file
<1>11. ASSUME NEW m \in Mutators, ReplayDone(m)
       PROVE  Typed'
  <2> DEFINE t == IF mounted THEN [th[m] EXCEPT !.pc = "clear"] ELSE Idle
  <2>1. t \in Thread /\ t.pc \in {"clear", "idle"}
    BY <1>0, IdleTyped DEF Thread
  <2>2. th' = [th EXCEPT ![m] = t]
    BY <1>0, <1>11 DEF ReplayDone
  <2>3. th' \in [Mutators -> Thread] /\ ActsOnOp'
    <3> HIDE DEF t
    <3> QED BY <2>1, <2>2, ThreadTyped
  <2> QED
    BY <1>0, <1>11, <1>f, <2>3 DEF ReplayDone, server
<1>12. ASSUME NEW s \in stray, StrayEffect(s)
       PROVE  Typed'
  <2>1. s[1] \in Requests /\ stray' \subseteq stray
    BY <1>0, <1>12 DEF StrayEffect
  <2>2. applied' \in [Requests -> Nat]
    BY <1>12, <2>1, ApplyTyped DEF StrayEffect
  <2> QED
    BY <1>0, <1>12, <2>1, <2>2 DEF StrayEffect, file, ActsOnOp, Acting
<1>13. CASE UNCHANGED vars
  BY <1>0, <1>13 DEF vars, file, server, ActsOnOp, Acting
<1> QED
  BY <1>2, <1>3, <1>4, <1>5, <1>6, <1>7, <1>8, <1>9, <1>10, <1>11, <1>12, <1>13 DEF Next, Runs

\* The types hold for any number of mutating threads; in particular
\* recover_journal never counts past its attempts.
THEOREM JournalTypes == Spec => []TypeOK
<1>1. Typed => TypeOK
  BY DEF Typed
<1> QED
  BY <1>1, InitTyped, NextTyped, PTL DEF Spec

-----------------------------------------------------------------------------
(* Safety, with one mutating thread. *)

\* At first nothing is called and nothing is on record.
LEMMA InitIInv == Init => IInv
<1> SUFFICES ASSUME Init PROVE IInv
  OBVIOUS
<1>1. Calls
  BY IdleTyped DEF Init, Calls, ThreadsCall, CallsHaveThread, CallsInOrder, BusyIsLast, Busy
<1>2. Records
  BY IdleTyped, RangeOfSeq DEF Init, Records, OnRecord, ReplayCovers, RecordsYoung, Busy
<1>3. Progress
  BY IdleTyped DEF Init, Progress, RecoverBroken, MainFirst, Busy
<1>4. Outcomes
  BY IdleTyped DEF Init, Outcomes, ClearIsSettled, CutOnRecord, OkSettled
<1> QED
  BY <1>1, <1>2, <1>3, <1>4, InitTyped DEF IInv

\* What is settled, or kept, stays so.
Grows ==
  /\ (\E r \in Requests : Apply(r)) \/ UNCHANGED applied
  /\ refused \subseteq refused' /\ torn \subseteq torn' /\ broken \subseteq broken'

\* No effect is undone.
LEMMA SettledGrows ==
  ASSUME Typed, Grows
  PROVE  /\ \A r \in Requests : applied[r] > 0 => applied'[r] > 0
         /\ \A p \in Ops : Settled(p) => Settled(p)'
         /\ \A p \in Ops : Done(p) => Done(p)'
         /\ \A p \in Ops : Kept(p) => Kept(p)'
<1>1. applied \in [Requests -> Nat]
  BY DEF Typed, TypeOK
<1>2. \A r \in Requests : applied[r] > 0 => applied'[r] > 0
  <2>1. CASE UNCHANGED applied
    BY <2>1
  <2>2. ASSUME NEW q \in Requests, Apply(q)
        PROVE  \A r \in Requests : applied[r] > 0 => applied'[r] > 0
    BY <1>1, <2>2 DEF Apply
  <2> QED
    BY <2>1, <2>2 DEF Grows
<1>3. \A p \in Ops : <<p, "main">> \in Requests /\ <<p, "rest">> \in Requests
  BY DEF Requests
<1>4. \A p \in Ops : Settled(p) => Settled(p)'
  BY <1>2, <1>3 DEF Settled, Grows
<1>5. \A p \in Ops : Done(p) => Done(p)'
  BY <1>2, <1>3 DEF Done
<1> QED
  BY <1>2, <1>4, <1>5 DEF Kept, Grows

\* The thread goes on with the operation it has.
LEMMA GoesOn ==
  ASSUME OneMutator, IInv, NEW m \in Mutators, th[m].pc # "idle", th'[m].pc # "idle",
         th'[m].op = th[m].op, ~mounted => th'[m].pc = "replay",
         calls' = calls, mounted' = mounted
  PROVE  Calls'
<1>1. ThreadsCall /\ CallsHaveThread /\ CallsInOrder /\ BusyIsLast
  BY DEF IInv, Calls
<1>2. \A n \in Mutators : n = m
  BY DEF OneMutator
<1>3. ThreadsCall' /\ CallsInOrder' /\ BusyIsLast'
  BY <1>1, <1>2, Zenon DEF ThreadsCall, CallsInOrder, BusyIsLast, Busy
<1>4. CallsHaveThread'
  BY <1>1, <1>2 DEF CallsHaveThread, Busy
<1> QED
  BY <1>3, <1>4 DEF Calls

\* The call of the thread returns.
LEMMA Returns ==
  ASSUME OneMutator, IInv, NEW m \in Mutators, mounted, th[m].pc # "idle", mounted',
         NEW result \in {"ok", "error"}, Finish(m, result)
  PROVE  /\ Calls' /\ th[m].op \in Ops /\ th'[m] = Idle
         /\ \A p \in Ops : p # th[m].op => calls'[p] = calls[p]
         /\ calls'[th[m].op] = result
         /\ \A p \in Ops : p > th[m].op => calls[p] = "idle"
<1>1. /\ ThreadsCall /\ CallsHaveThread /\ CallsInOrder /\ BusyIsLast
      /\ th \in [Mutators -> Thread] /\ calls \in [Ops -> Call]
  BY DEF IInv, Calls, Typed, TypeOK
<1>2. \A n \in Mutators : n = m
  BY DEF OneMutator
<1>3. th[m].op \in Ops /\ calls[th[m].op] = "called"
  BY <1>1 DEF ThreadsCall, Busy
<1>4. /\ th'[m] = Idle /\ calls'[th[m].op] = result
      /\ \A p \in Ops : p # th[m].op => calls'[p] = calls[p]
  BY <1>1, <1>3 DEF Finish
<1>5. ThreadsCall' /\ BusyIsLast'
  BY <1>2, <1>4, IdleTyped DEF ThreadsCall, BusyIsLast, Busy
<1>6. CallsHaveThread'
  BY <1>1, <1>2, <1>3, <1>4 DEF CallsHaveThread, Busy
<1>7. CallsInOrder'
  BY <1>1, <1>3, <1>4 DEF CallsInOrder
<1> QED
  BY <1>1, <1>3, <1>4, <1>5, <1>6, <1>7 DEF Calls, BusyIsLast, Busy

\* A mount that is down, or comes up, serves no call.
LEMMA ServesNoCall ==
  ASSUME OneMutator, IInv, NEW m \in Mutators, ~mounted, calls' = calls,
         th'[m].pc = "idle" \/ (~mounted' /\ th'[m].pc = "replay")
  PROVE  Calls'
<1>1. CallsHaveThread /\ CallsInOrder
  BY DEF IInv, Calls
<1>2. \A n \in Mutators : n = m
  BY DEF OneMutator
<1>3. ThreadsCall' /\ BusyIsLast'
  BY <1>2 DEF ThreadsCall, BusyIsLast, Busy
<1>4. CallsHaveThread' /\ CallsInOrder'
  BY <1>1 DEF CallsHaveThread, CallsInOrder
<1> QED
  BY <1>3, <1>4 DEF Calls

\* Where the calls and the file are as before, so are the outcomes.
LEMMA OutcomesStay ==
  ASSUME IInv, Grows, calls' = calls, mounted' = mounted, journal' = journal
  PROVE  CutOnRecord' /\ OkSettled' /\ RecordsYoung'
<1>1. CutOnRecord /\ OkSettled /\ RecordsYoung /\ Typed
  BY DEF IInv, Outcomes, Records
<1>2. \A p \in Ops : (Settled(p) => Settled(p)') /\ (Kept(p) => Kept(p)')
  BY <1>1, SettledGrows
<1>3. CutOnRecord'
  BY <1>1, <1>2 DEF CutOnRecord
<1>4. OkSettled'
  <2>1. \A p \in Ops : calls[p] = "ok" => Kept(p)
    BY <1>1 DEF OkSettled, Kept
  <2> QED
    BY <1>2, <2>1 DEF OkSettled, Kept
<1>5. RecordsYoung'
  BY <1>1 DEF RecordsYoung
<1> QED
  BY <1>3, <1>4, <1>5

\* The death of the mount, with or without a record that it was writing.
LEMMA DiesKeeps ==
  ASSUME OneMutator, IInv, NEW called \in SUBSET Ops, Dies(called), Called \subseteq called,
         torn \subseteq torn', \A o \in called \ Called : calls[o] = "idle",
         \A o, p \in Ops : p < o /\ o \in called => calls[p] # "idle",
         \A q \in Ops : q \in Range(journal) \/ q \in called \ Called =>
                          q \in Range(journal') \/ q \in torn',
         Range(journal') \cap Ops \subseteq Range(journal) \cup (called \ Called)
  PROVE  Calls' /\ Records' /\ Progress' /\ Outcomes'
<1>0. th \in [Mutators -> Thread] /\ calls \in [Ops -> Call] /\ Typed
  BY DEF IInv, Typed, TypeOK
<1>1. /\ ThreadsCall /\ CallsHaveThread /\ CallsInOrder /\ BusyIsLast
      /\ OnRecord /\ RecordsYoung /\ ClearIsSettled /\ CutOnRecord /\ OkSettled
  BY DEF IInv, Calls, Records, Outcomes
<1>2. /\ ~mounted' /\ Grows /\ \A m \in Mutators : th'[m] = Idle
      /\ \A o \in Ops : calls'[o] = IF o \in called THEN "cut" ELSE calls[o]
  BY DEF Dies, Grows
<1>3. \A p \in Ops : (Settled(p) => Settled(p)') /\ (Kept(p) => Kept(p)')
  BY <1>0, <1>2, SettledGrows
<1>4. \A o \in Ops : calls[o] = "called" => o \in called
  BY DEF Called
<1>5. Calls'
  <2>1. ThreadsCall' /\ BusyIsLast'
    BY <1>2, IdleTyped DEF ThreadsCall, BusyIsLast, Busy
  <2>2. CallsHaveThread'
    BY <1>2, <1>4 DEF CallsHaveThread
  <2>3. CallsInOrder'
    BY <1>1, <1>2 DEF CallsInOrder
  <2> QED
    BY <2>1, <2>2, <2>3 DEF Calls
<1>6. Records'
  <2>1. OnRecord' /\ ReplayCovers'
    BY <1>2, IdleTyped DEF OnRecord, ReplayCovers, Busy
  <2>2. ASSUME NEW o \in Range(journal') \cap Ops, NEW p \in o..MaxOps, calls'[p] = "ok" PROVE FALSE
    <3>1. p \in Ops /\ o \in Ops /\ calls[p] = "ok"
      BY <1>2, <2>2 DEF Ops
    <3>2. CASE o \in Range(journal)
      BY <1>1, <3>1, <3>2 DEF RecordsYoung
    <3>3. CASE o \in called \ Called
      <4>1. calls[o] = "idle"
        BY <3>3
      <4>2. p = o \/ o < p
        BY <3>1 DEF Ops
      <4> QED
        BY <1>1, <3>1, <4>1, <4>2 DEF CallsInOrder
    <3> QED
      BY <3>1, <3>2, <3>3
  <2>3. RecordsYoung'
    BY <2>2 DEF RecordsYoung
  <2> QED
    BY <2>1, <2>3 DEF Records
<1>7. Progress'
  BY <1>2, IdleTyped DEF Progress, RecoverBroken, MainFirst, Busy
<1>8. ClearIsSettled'
  BY <1>2, IdleTyped DEF ClearIsSettled
<1>9. OkSettled'
  <2>1. \A p \in Ops : calls[p] = "ok" => Kept(p)
    BY <1>1 DEF OkSettled, Kept
  <2> QED
    BY <1>2, <1>3, <2>1 DEF OkSettled, Kept
<1>10. CutOnRecord'
  <2> SUFFICES ASSUME NEW o \in Ops, calls'[o] = "cut"
               PROVE  Settled(o)' \/ o \in Range(journal')
    BY <1>2 DEF CutOnRecord
  <2>1. CASE o \in called \ Called
    BY <2>1 DEF Settled
  <2>2. CASE o \notin called \ Called
    <3>1. Settled(o) \/ o \in Range(journal)
      <4>1. CASE o \in Called
        <5>1. PICK m \in Mutators : Busy(m) /\ th[m].op = o
          BY <1>1, <4>1 DEF CallsHaveThread, Called
        <5>2. th[m].pc \in {"act", "rest", "recover", "replay", "clear"}
          BY <1>0, <5>1 DEF Thread, Busy
        <5> QED
          BY <1>1, <5>1, <5>2 DEF OnRecord, ClearIsSettled
      <4>2. CASE o \notin called
        BY <1>1, <1>2, <4>2 DEF CutOnRecord
      <4> QED
        BY <2>2, <4>1, <4>2
    <3> QED
      BY <1>3, <3>1 DEF Settled
  <2> QED
    BY <2>1, <2>2
<1> QED
  BY <1>5, <1>6, <1>7, <1>8, <1>9, <1>10 DEF Outcomes

\* The line of a new operation, whole or not.
LEMMA WrittenKeeps ==
  ASSUME OneMutator, IInv, NEW m \in Mutators, NEW o \in Ops, mounted, th[m].pc = "idle", NextOp(o)
  PROVE  /\ calls[o] = "idle"
         /\ \A p \in Ops : p < o => calls[p] # "idle"
         /\ \A p \in Ops : p > o => calls[p] = "idle"
         /\ \A p \in Ops : calls[p] # "called"
         /\ \A n \in Mutators : n = m
<1>1. CallsInOrder /\ CallsHaveThread
  BY DEF IInv, Calls
<1>2. \A n \in Mutators : n = m
  BY DEF OneMutator
<1>3. calls[o] = "idle" /\ \A p \in Ops : p < o => calls[p] # "idle"
  BY DEF NextOp, Ops
<1>4. \A p \in Ops : p > o => calls[p] = "idle"
  BY <1>1, <1>3 DEF CallsInOrder, Ops
<1>5. \A p \in Ops : calls[p] # "called"
  BY <1>1, <1>2 DEF CallsHaveThread, Busy
<1> QED
  BY <1>2, <1>3, <1>4, <1>5

\* With one mutating thread every step keeps the inductive invariant.
LEMMA NextIInv ==
  ASSUME OneMutator, IInv, [Next]_vars
  PROVE  IInv'
<1>0. /\ journal \in Seq(Lines) /\ mounted \in BOOLEAN
      /\ th \in [Mutators -> Thread] /\ calls \in [Ops -> Call]
      /\ applied \in [Requests -> Nat] /\ refused \subseteq Ops
      /\ stray \subseteq Requests \X Mutators \X Nat /\ Typed
  BY DEF IInv, Typed, TypeOK
<1>1. /\ ThreadsCall /\ CallsHaveThread /\ CallsInOrder /\ BusyIsLast
      /\ OnRecord /\ ReplayCovers /\ RecordsYoung /\ RecoverBroken /\ MainFirst
      /\ ClearIsSettled /\ CutOnRecord /\ OkSettled
  BY DEF IInv, Calls, Records, Progress, Outcomes
<1>2. Typed'
  BY NextTyped DEF IInv
<1>3. Range(<<>>) = {} /\ Range(journal) \subseteq Lines
  BY <1>0, IdleTyped, RangeOfSeq
<1>4. SUFFICES Calls' /\ Records' /\ Progress' /\ Outcomes'
  BY <1>2 DEF IInv
<1>o. \A p \in Ops : calls[p] = "ok" => Kept(p)
  BY <1>1 DEF OkSettled, Kept
<1>5. CASE Crash
  <2>1. Called \in SUBSET Ops /\ Dies(Called) /\ journal' = journal /\ torn' = torn
    BY <1>5 DEF Crash, Called, file
  <2>2. \A o, p \in Ops : p < o /\ o \in Called => calls[p] # "idle"
    BY <1>1 DEF Called, CallsInOrder
  <2> QED
    BY <2>1, <2>2, DiesKeeps
<1>6. ASSUME NEW m \in Mutators, NEW o \in Ops, CrashInRecord(m, o)
      PROVE  Calls' /\ Records' /\ Progress' /\ Outcomes'
  <2>1. /\ mounted /\ th[m].pc = "idle" /\ NextOp(o) /\ WrittenInPart(o) /\ Dies(Called \cup {o})
    BY <1>6 DEF CrashInRecord
  <2>2. /\ calls[o] = "idle" /\ \A p \in Ops : p < o => calls[p] # "idle"
        /\ \A p \in Ops : calls[p] # "called"
    BY <2>1, WrittenKeeps
  <2>3. Called = {} /\ (Called \cup {o}) \in SUBSET Ops /\ (Called \cup {o}) \ Called = {o}
    BY <2>2 DEF Called
  <2>4. PICK line \in {o, Unreadable}, ended \in BOOLEAN : Written(o, line, ended)
    BY <2>1, PartIsWritten
  <2>5. /\ torn \subseteq torn'
        /\ \A q \in Ops : q \in Range(journal) \cup {o} => q \in Range(journal') \/ q \in torn'
        /\ Range(journal') \cap Ops \subseteq Range(journal) \cup {o}
    BY <1>0, <2>4, WrittenIs
  <2> HIDE DEF Called
  <2> QED
    BY <2>1, <2>2, <2>3, <2>5, DiesKeeps
<1>7. ASSUME NEW m \in Mutators, NEW o \in Ops, Record(m, o)
      PROVE  Calls' /\ Records' /\ Progress' /\ Outcomes'
  <2>1. /\ mounted /\ mounted' /\ th[m].pc = "idle" /\ NextOp(o) /\ Written(o, o, TRUE)
        /\ th'[m] = [Idle EXCEPT !.pc = "act", !.op = o]
        /\ calls'[o] = "called" /\ \A p \in Ops : p # o => calls'[p] = calls[p]
        /\ UNCHANGED <<applied, refused, broken>>
    BY <1>0, <1>7 DEF Record, server
  <2>2. /\ calls[o] = "idle" /\ \A p \in Ops : p < o => calls[p] # "idle"
        /\ \A p \in Ops : p > o => calls[p] = "idle"
        /\ \A p \in Ops : calls[p] # "called"
        /\ \A n \in Mutators : n = m
    BY <2>1, WrittenKeeps
  <2>3. /\ torn \subseteq torn'
        /\ \A q \in Ops : q \in Range(journal) \cup {o} => q \in Range(journal') \/ q \in torn'
        /\ Range(journal') \cap Ops \subseteq Range(journal) \cup {o}
    BY <1>0, <2>1, WrittenIs
  <2>4. th'[m].pc = "act" /\ th'[m].op = o
    BY <2>1 DEF Idle
  <2>5. \A p \in Ops : (Settled(p) => Settled(p)') /\ (Kept(p) => Kept(p)')
    BY <1>0, <2>1, <2>3, SettledGrows DEF Grows
  <2>6. Calls'
    <3>1. ThreadsCall' /\ CallsHaveThread'
      BY <2>1, <2>2, <2>4 DEF ThreadsCall, CallsHaveThread, Busy
    <3>2. CallsInOrder'
      BY <1>1, <2>1, <2>2 DEF CallsInOrder
    <3>3. BusyIsLast'
      BY <2>1, <2>2, <2>4 DEF BusyIsLast, Ops
    <3> QED
      BY <3>1, <3>2, <3>3 DEF Calls
  <2>7. Records'
    <3>1. OnRecord' /\ ReplayCovers'
      BY <2>2, <2>3, <2>4 DEF OnRecord, ReplayCovers, Settled
    <3>2. RecordsYoung'
      BY <1>0, <1>1, <2>1, <2>2, <2>3 DEF RecordsYoung, Ops
    <3> QED
      BY <3>1, <3>2 DEF Records
  <2>8. Progress' /\ ClearIsSettled'
    BY <2>2, <2>4 DEF Progress, RecoverBroken, MainFirst, ClearIsSettled
  <2>9. CutOnRecord' /\ OkSettled'
    BY <1>1, <1>o, <2>1, <2>5 DEF CutOnRecord, OkSettled, Kept
  <2> QED
    BY <2>6, <2>7, <2>8, <2>9 DEF Outcomes
<1>8. ASSUME NEW m \in Mutators, NEW o \in Ops, RecordFails(m, o)
      PROVE  Calls' /\ Records' /\ Progress' /\ Outcomes'
  <2>1. /\ mounted /\ mounted' /\ th' = th /\ th[m].pc = "idle" /\ NextOp(o)
        /\ calls'[o] = "error" /\ \A p \in Ops : p # o => calls'[p] = calls[p]
        /\ UNCHANGED <<applied, refused, broken>>
    BY <1>0, <1>8 DEF RecordFails, server
  <2>2. /\ calls[o] = "idle" /\ \A p \in Ops : p < o => calls[p] # "idle"
        /\ \A p \in Ops : p > o => calls[p] = "idle"
        /\ \A n \in Mutators : n = m
    BY <2>1, WrittenKeeps
  <2>3. torn \subseteq torn' /\ Range(journal') \cap Ops \subseteq Range(journal) \cup {o}
    <3>1. CASE UNCHANGED <<file, torn>>
      BY <3>1 DEF file
    <3>2. CASE WrittenInPart(o)
      BY <1>0, <3>2, PartIsWritten, WrittenIs
    <3> QED
      BY <1>8, <3>1, <3>2 DEF RecordFails
  <2>4. \A p \in Ops : (Settled(p) => Settled(p)') /\ (Kept(p) => Kept(p)')
    BY <1>0, <2>1, <2>3, SettledGrows DEF Grows
  <2>5. Calls'
    <3>1. ThreadsCall' /\ CallsHaveThread' /\ BusyIsLast'
      BY <1>1, <2>1, <2>2 DEF ThreadsCall, CallsHaveThread, BusyIsLast, Busy
    <3>2. CallsInOrder'
      BY <1>1, <2>1, <2>2 DEF CallsInOrder
    <3> QED
      BY <3>1, <3>2 DEF Calls
  <2>6. Records'
    <3>1. OnRecord' /\ ReplayCovers'
      BY <2>1, <2>2 DEF OnRecord, ReplayCovers, Busy
    <3>2. RecordsYoung'
      BY <1>1, <2>1, <2>2, <2>3 DEF RecordsYoung, Ops
    <3> QED
      BY <3>1, <3>2 DEF Records
  <2>7. Progress' /\ ClearIsSettled'
    BY <2>1, <2>2 DEF Progress, RecoverBroken, MainFirst, ClearIsSettled, Busy
  <2>8. CutOnRecord' /\ OkSettled'
    BY <1>1, <1>o, <2>1, <2>4 DEF CutOnRecord, OkSettled, Kept
  <2> QED
    BY <2>5, <2>6, <2>7, <2>8 DEF Outcomes
<1>9. ASSUME NEW m \in Mutators, ActOk(m) \/ ActRefused(m) \/ ActBroken(m)
      PROVE  Calls' /\ Records' /\ Progress' /\ Outcomes'
  <2>1. /\ mounted' = mounted /\ journal' = journal /\ calls' = calls /\ torn' = torn
        /\ th[m].pc \in {"act", "rest"} /\ th'[m].op = th[m].op
        /\ ActOk(m) => th'[m].pc = IF th[m].pc = "act" /\ th[m].op \in Twofold THEN "rest" ELSE "clear"
        /\ ActRefused(m) => th'[m].pc = "clear" /\ th'[m].result = "error"
        /\ ActBroken(m) => th'[m].pc = "recover"
    BY <1>0, <1>9 DEF ActOk, ActRefused, ActBroken, Acting, Thread, file
  <2>2. \A n \in Mutators : n = m
    BY DEF OneMutator
  <2>3. mounted /\ th[m].op \in Ops /\ Request(m) \in Requests
    BY <1>0, <1>1, <2>1, RequestTyped DEF ThreadsCall, Acting
  <2>4. Grows
    BY <1>9, <2>3 DEF ActOk, ActRefused, ActBroken, Grows
  <2>5. /\ \A r \in Requests : applied[r] > 0 => applied'[r] > 0
        /\ \A p \in Ops : Settled(p) => Settled(p)'
        /\ \A p \in Ops : Kept(p) => Kept(p)'
    BY <1>0, <2>4, SettledGrows
  <2>6. ActOk(m) => applied'[Request(m)] > 0
    BY <1>0, <2>3 DEF ActOk, Apply
  <2>7. Calls'
    <3>1. th'[m].pc # "idle"
      BY <1>9, <2>1
    <3> QED
      BY <2>1, <2>3, <3>1, GoesOn
  <2>8. OnRecord' /\ ReplayCovers'
    <3>1. th[m].op \in Range(journal) \/ Settled(th[m].op)
      BY <1>1, <2>1, <2>3 DEF OnRecord, Busy
    <3>3. th'[m].pc # "replay"
      BY <1>9, <2>1
    <3>4. PICK x \in Ops : x = th[m].op
      BY <2>3
    <3>2. x \in Range(journal) \/ Settled(x)
      BY <3>1, <3>4
    <3>5. x \in Range(journal') \/ Settled(x)'
      BY <2>1, <2>5, <3>2
    <3>6. th'[m].op = x
      BY <2>1, <3>4
    <3> QED
      BY <2>2, <3>3, <3>5, <3>6 DEF OnRecord, ReplayCovers, Settled
  <2>9. Progress'
    <3>1. th'[m].pc = "recover" => th[m].op \in broken'
      BY <1>9, <2>1 DEF ActBroken
    <3>2. th'[m].pc = "rest" => applied'[<<th[m].op, "main">>] > 0
      <4>1. ASSUME th'[m].pc = "rest" PROVE Request(m) = <<th[m].op, "main">> /\ ActOk(m)
        BY <1>9, <2>1, <4>1 DEF Request
      <4> QED
        BY <2>6, <4>1
    <3>3. th'[m].pc # "replay"
      BY <1>9, <2>1
    <3> QED
      BY <2>1, <2>2, <3>1, <3>2, <3>3 DEF Progress, RecoverBroken, MainFirst
  <2>10. ClearIsSettled'
    <3>1. PICK x \in Ops : x = th[m].op
      BY <2>3
    <3>2. ASSUME th'[m].pc = "clear" PROVE Settled(x)' /\ (th'[m].result = "ok" => Kept(x)')
      <4>1. CASE ActOk(m)
        <5>1. Done(x)' /\ Settled(x)'
          <6>1. applied'[<<x, "main">>] > 0
            <7>1. CASE th[m].pc = "act"
              BY <2>6, <3>1, <4>1, <7>1 DEF Request
            <7>2. CASE th[m].pc = "rest"
              BY <1>1, <2>5, <3>1, <7>2 DEF MainFirst, Requests
            <7> QED
              BY <2>1, <7>1, <7>2
          <6>2. x \in Twofold => applied'[<<x, "rest">>] > 0
            <7>1. x \in Twofold => th[m].pc = "rest"
              BY <2>1, <3>1, <3>2, <4>1
            <7> QED
              BY <2>6, <3>1, <4>1, <7>1 DEF Request
          <6> QED
            BY <6>1, <6>2 DEF Done, Settled
        <5> QED
          BY <5>1 DEF Kept
      <4>2. CASE ActRefused(m)
        BY <2>1, <3>1, <4>2 DEF ActRefused, Settled
      <4> QED
        BY <1>9, <2>1, <3>2, <4>1, <4>2
    <3> QED
      BY <2>1, <2>2, <3>1, <3>2 DEF ClearIsSettled, Settled, Kept, Done
  <2>11. CutOnRecord' /\ OkSettled' /\ RecordsYoung'
    BY <2>1, <2>4, OutcomesStay
  <2> QED
    BY <2>7, <2>8, <2>9, <2>10, <2>11 DEF Records, Outcomes
<1>10. ASSUME NEW m \in Mutators, Clear(m) \/ ClearFails(m)
       PROVE  Calls' /\ Records' /\ Progress' /\ Outcomes'
  <2>1. /\ mounted' = mounted /\ UNCHANGED <<applied, refused, broken, torn>>
        /\ th[m].pc = "clear" /\ mounted
    BY <1>1, <1>10 DEF Clear, ClearFails, ThreadsCall, server
  <2>2. \A n \in Mutators : n = m
    BY DEF OneMutator
  <2>3. PICK result \in {"ok", "error"} :
          Finish(m, result) /\ (result = "ok" => journal' = <<>> /\ th[m].result = "ok")
    BY <1>0, <1>10 DEF Clear, ClearFails, Thread, Emptied
  <2>4. /\ Calls' /\ th[m].op \in Ops /\ th'[m] = Idle
        /\ \A p \in Ops : p # th[m].op => calls'[p] = calls[p]
        /\ calls'[th[m].op] = result
    BY <2>1, <2>3, Returns
  <2>5. Range(journal') \subseteq Range(journal) /\ (result = "ok" => Range(journal') = {})
    BY <1>3, <1>10, <2>3 DEF Clear, ClearFails, Emptied, file
  <2>6. OnRecord' /\ ReplayCovers' /\ ClearIsSettled' /\ Progress'
    BY <2>2, <2>4, IdleTyped
    DEF OnRecord, ReplayCovers, ClearIsSettled, Busy, Progress, RecoverBroken, MainFirst
  <2>7. RecordsYoung'
    BY <1>1, <2>3, <2>4, <2>5 DEF RecordsYoung, Ops
  <2>8. CutOnRecord'
    BY <1>1, <2>1, <2>4 DEF CutOnRecord, Settled
  <2>9. OkSettled'
    <3>1. result = "ok" => Kept(th[m].op)
      BY <1>1, <2>1, <2>3 DEF ClearIsSettled
    <3>2. \A p \in Ops : calls'[p] = "ok" => Kept(p)
      BY <1>o, <2>4, <3>1
    <3>3. \A p \in Ops : Kept(p) => Kept(p)'
      BY <2>1 DEF Kept, Done, Settled
    <3> QED
      BY <3>2, <3>3 DEF OkSettled, Kept
  <2> QED
    BY <2>4, <2>6, <2>7, <2>8, <2>9 DEF Records, Outcomes
<1>11. ASSUME NEW m \in Mutators, Reconnect(m) \/ Start(m)
       PROVE  Calls' /\ Records' /\ Progress' /\ Outcomes'
  <2>1. /\ mounted' = mounted /\ journal' = journal /\ calls' = calls
        /\ UNCHANGED <<applied, refused, broken, torn>>
        /\ th'[m].op = th[m].op /\ th'[m].pc = "replay" /\ th'[m].queue = journal
    BY <1>0, <1>11 DEF Reconnect, Start, Thread, file, server
  <2>2. \A n \in Mutators : n = m
    BY DEF OneMutator
  <2>3. (mounted /\ th[m].pc = "recover") \/ (~mounted /\ th[m].pc = "idle")
    BY <1>1, <1>11 DEF Reconnect, Start, ThreadsCall
  <2>4. Calls'
    BY <2>1, <2>3, GoesOn, ServesNoCall
  <2>5. OnRecord' /\ ReplayCovers'
    BY <1>1, <2>1, <2>2, <2>3 DEF OnRecord, ReplayCovers, Busy, Settled
  <2>6. Progress' /\ ClearIsSettled'
    BY <1>1, <2>1, <2>2, <2>3 DEF Progress, RecoverBroken, MainFirst, ClearIsSettled, Busy
  <2>7. CutOnRecord' /\ OkSettled' /\ RecordsYoung'
    BY <2>1, OutcomesStay DEF Grows
  <2> QED
    BY <2>4, <2>5, <2>6, <2>7 DEF Records, Outcomes
<1>12. ASSUME NEW m \in Mutators, ReconnectFails(m) \/ ReplayBroken(m) \/ ReplayNotCleared(m)
       PROVE  Calls' /\ Records' /\ Progress' /\ Outcomes'
  <2>1. /\ mounted' = mounted /\ UNCHANGED <<applied, refused, broken, torn>>
        /\ th[m].pc \in {"recover", "replay"} /\ AttemptFails(m)
    BY <1>12 DEF ReconnectFails, ReplayBroken, ReplayNotCleared, Replaying, server
  <2>2. \A n \in Mutators : n = m
    BY DEF OneMutator
  <2>3. /\ Range(journal') \subseteq Range(journal)
        /\ \A o \in Range(journal) \cap Ops : o \in Range(journal') \/ Settled(o)
    <3>1. CASE journal' = journal
      BY <3>1
    <3>2. CASE journal' # journal
      <4>1. ReplayNotCleared(m) /\ Emptied
        BY <1>12, <3>2 DEF ReconnectFails, ReplayBroken, ReplayNotCleared, file
      <4>2. journal' = <<>> /\ th[m].pc = "replay" /\ th[m].queue = <<>>
        BY <4>1 DEF ReplayNotCleared, Emptied
      <4> QED
        BY <1>1, <1>3, <4>2 DEF ReplayCovers
    <3> QED
      BY <3>1, <3>2
  <2>4. \A p \in Ops : (Settled(p) <=> Settled(p)') /\ (Kept(p) => Kept(p)')
    BY <2>1 DEF Settled, Kept, Done
  <2>5. CASE mounted /\ th[m].attempt + 1 < DEFAULT_OP_RETRIES
    <3>1. th'[m].pc = "recover" /\ th'[m].op = th[m].op /\ calls' = calls
      BY <1>0, <2>1, <2>5 DEF AttemptFails, Thread
    <3>2. Calls'
      BY <2>1, <2>5, <3>1, GoesOn
    <3>3. PICK x \in Ops : x = th[m].op
      BY <1>1, <2>1, <2>5 DEF ThreadsCall, Busy
    <3>4. x \in Range(journal') \/ Settled(x)'
      <4>1. x \in Range(journal) \/ Settled(x)
        BY <1>1, <2>1, <2>5, <3>3 DEF OnRecord, Busy
      <4> QED
        BY <2>3, <2>4, <4>1
    <3>5. OnRecord' /\ ReplayCovers'
      BY <2>2, <3>1, <3>3, <3>4 DEF OnRecord, ReplayCovers, Settled
    <3>6. RecordsYoung'
      BY <1>1, <2>3, <3>1 DEF RecordsYoung
    <3>7. Progress' /\ ClearIsSettled'
      BY <1>1, <2>1, <2>2, <2>5, <3>1 DEF Progress, RecoverBroken, MainFirst, ClearIsSettled, Busy
    <3>8. CutOnRecord' /\ OkSettled'
      BY <1>1, <1>o, <2>1, <2>4, <2>5, <3>1 DEF CutOnRecord, OkSettled, Kept
    <3> QED
      BY <3>2, <3>5, <3>6, <3>7, <3>8 DEF Records, Outcomes
  <2>6. CASE mounted /\ ~(th[m].attempt + 1 < DEFAULT_OP_RETRIES)
    <3>1. Finish(m, "error")
      BY <2>1, <2>6 DEF AttemptFails
    <3>2. /\ Calls' /\ th[m].op \in Ops /\ th'[m] = Idle
          /\ \A p \in Ops : p # th[m].op => calls'[p] = calls[p]
          /\ calls'[th[m].op] = "error"
      BY <2>1, <2>6, <3>1, Returns
    <3>3. OnRecord' /\ ReplayCovers' /\ ClearIsSettled' /\ Progress'
      BY <2>2, <3>2, IdleTyped
      DEF OnRecord, ReplayCovers, ClearIsSettled, Busy, Progress, RecoverBroken, MainFirst
    <3>4. RecordsYoung'
      BY <1>1, <2>3, <3>2 DEF RecordsYoung, Ops
    <3>5. CutOnRecord' /\ OkSettled'
      BY <1>1, <1>o, <2>1, <2>4, <2>6, <3>2 DEF CutOnRecord, OkSettled, Kept
    <3> QED
      BY <3>2, <3>3, <3>4, <3>5 DEF Records, Outcomes
  <2>7. CASE ~mounted
    <3>1. th'[m] = Idle /\ calls' = calls
      BY <1>0, <2>1, <2>7 DEF AttemptFails
    <3>2. Calls'
      BY <2>1, <2>7, <3>1, IdleTyped, ServesNoCall
    <3>3. OnRecord' /\ ReplayCovers' /\ ClearIsSettled' /\ Progress'
      BY <2>2, <3>1, IdleTyped
      DEF OnRecord, ReplayCovers, ClearIsSettled, Busy, Progress, RecoverBroken, MainFirst
    <3>4. RecordsYoung'
      BY <1>1, <2>3, <3>1 DEF RecordsYoung
    <3>5. CutOnRecord' /\ OkSettled'
      BY <1>1, <1>o, <2>1, <2>3, <2>4, <3>1 DEF CutOnRecord, OkSettled, Kept
    <3> QED
      BY <3>2, <3>3, <3>4, <3>5 DEF Records, Outcomes
  <2> QED
    BY <2>5, <2>6, <2>7
<1>13. ASSUME NEW m \in Mutators, ReplayOk(m) \/ ReplayRefused(m) \/ ReplaySkip(m)
       PROVE  Calls' /\ Records' /\ Progress' /\ Outcomes'
  <2>1. /\ mounted' = mounted /\ journal' = journal /\ calls' = calls
        /\ UNCHANGED <<broken, torn>>
        /\ th[m].pc = "replay" /\ th[m].queue # <<>>
    BY <1>13 DEF ReplayOk, ReplayRefused, ReplaySkip, Replaying, file
  <2>2. \A n \in Mutators : n = m
    BY DEF OneMutator
  <2>3. th'[m].pc = "replay" /\ th'[m].op = th[m].op /\ th'[m].queue = Tail(th[m].queue)
    <3> DEFINE t == [th[m] EXCEPT !.queue = Tail(th[m].queue)]
    <3>1. t.pc = "replay" /\ t.op = th[m].op /\ t.queue = Tail(th[m].queue)
      BY <1>0, <2>1 DEF Thread
    <3>2. th' = [th EXCEPT ![m] = t]
      BY <1>13 DEF ReplayOk, ReplayRefused, ReplaySkip
    <3> HIDE DEF t
    <3> QED
      BY <1>0, <3>1, <3>2
  <2>4. PICK o \in Lines : o = Head(th[m].queue) /\ Range(th[m].queue) = {o} \cup Range(th'[m].queue)
    <3>1. th[m].queue \in Seq(Lines)
      BY <1>0 DEF Thread
    <3> QED
      BY <2>1, <2>3, <3>1, RangeOfSeq
  <2>5. Grows
    BY <1>0, <1>13, RequestTyped DEF ReplayOk, ReplayRefused, ReplaySkip, Grows, server
  <2>6. \A p \in Ops : (Settled(p) => Settled(p)') /\ (Kept(p) => Kept(p)')
    BY <1>0, <2>5, SettledGrows
  <2>7. o \in Ops => Settled(o)'
    <3> SUFFICES ASSUME o \in Ops PROVE Settled(o)'
      OBVIOUS
    <3>1. o # Unreadable /\ Replayed(m) = <<o, "main">> /\ <<o, "main">> \in Requests
      BY <2>4, UnreadableIs DEF Replayed, Requests
    <3>2. CASE ReplayOk(m)
      BY <1>0, <3>1, <3>2 DEF ReplayOk, Apply, Settled
    <3>3. CASE ReplayRefused(m)
      BY <2>4, <3>3 DEF ReplayRefused, Settled
    <3> QED
      BY <1>13, <2>1, <2>4, <3>1, <3>2, <3>3 DEF ReplaySkip, Replaying
  <2>8. Calls'
    BY <2>1, <2>3, GoesOn
  <2>9. OnRecord'
    <3>1. ASSUME mounted PROVE th[m].op \in Ops /\ (th[m].op \in Range(journal) \/ Settled(th[m].op))
      BY <1>1, <2>1, <3>1 DEF OnRecord, ThreadsCall, Busy
    <3>2. PICK x : x = th[m].op
      OBVIOUS
    <3>3. mounted => x \in Range(journal') \/ Settled(x)'
      BY <2>1, <2>6, <3>1, <3>2
    <3> QED
      BY <2>1, <2>2, <2>3, <3>2, <3>3 DEF OnRecord, Busy, Settled
  <2>10. ReplayCovers'
    <3>1. Range(th'[m].queue) \subseteq Range(journal')
      BY <1>1, <2>1, <2>4 DEF ReplayCovers
    <3>2. ASSUME NEW p \in Range(journal') \cap Ops
          PROVE  Settled(p)' \/ p \in Range(th'[m].queue)
      <4>1. p \in Ops /\ (Settled(p) \/ p \in Range(th[m].queue))
        BY <1>1, <2>1 DEF ReplayCovers
      <4> QED
        BY <2>4, <2>6, <2>7, <4>1
    <3> QED
      BY <2>2, <3>1, <3>2 DEF ReplayCovers
  <2>11. Progress' /\ ClearIsSettled'
    BY <1>1, <2>1, <2>2, <2>3 DEF Progress, RecoverBroken, MainFirst, ClearIsSettled, Busy
  <2>12. CutOnRecord' /\ OkSettled' /\ RecordsYoung'
    BY <2>1, <2>5, OutcomesStay
  <2> QED
    BY <2>8, <2>9, <2>10, <2>11, <2>12 DEF Records, Outcomes
<1>14. ASSUME NEW m \in Mutators, ReplayDone(m)
       PROVE  Calls' /\ Records' /\ Progress' /\ Outcomes'
  <2>1. /\ mounted' /\ journal' = <<>> /\ calls' = calls
        /\ UNCHANGED <<applied, refused, broken, torn>>
        /\ th[m].pc = "replay" /\ th[m].queue = <<>>
        /\ th'[m] = IF mounted THEN [th[m] EXCEPT !.pc = "clear"] ELSE Idle
    BY <1>0, <1>14 DEF ReplayDone, Emptied, server
  <2>2. \A n \in Mutators : n = m
    BY DEF OneMutator
  <2>3. \A o \in Range(journal) \cap Ops : Settled(o)
    BY <1>1, <1>3, <2>1 DEF ReplayCovers
  <2>4. mounted => th'[m].pc = "clear" /\ th'[m].op = th[m].op
    BY <1>0, <2>1 DEF Thread
  <2>5. ~mounted => th'[m].pc = "idle"
    BY <2>1, IdleTyped
  <2>6. Calls'
    BY <1>0, <2>1, <2>4, <2>5, GoesOn, ServesNoCall
  <2>7. Records' /\ Progress'
    BY <1>3, <2>1, <2>2, <2>4, <2>5
    DEF Records, OnRecord, ReplayCovers, RecordsYoung, Progress, RecoverBroken, MainFirst
  <2>8. ClearIsSettled'
    <3>1. PICK x : x = th[m].op
      OBVIOUS
    <3>2. mounted => x \in Ops /\ Settled(x) /\ x \in broken
      BY <1>1, <2>1, <2>3, <3>1 DEF OnRecord, ThreadsCall, RecoverBroken, Busy
    <3>3. mounted => Settled(x)' /\ Kept(x)'
      BY <2>1, <3>2 DEF Settled, Kept
    <3> QED
      BY <2>2, <2>4, <2>5, <3>1, <3>3 DEF ClearIsSettled, Settled, Kept, Done
  <2>9. CutOnRecord' /\ OkSettled'
    <3>1. \A p \in Ops : (Settled(p) => Settled(p)') /\ (Kept(p) => Kept(p)')
      BY <2>1 DEF Settled, Kept, Done
    <3> QED
      BY <1>1, <1>o, <2>1, <2>3, <3>1 DEF CutOnRecord, OkSettled, Kept
  <2> QED
    BY <2>6, <2>7, <2>8, <2>9 DEF Outcomes
<1>15. ASSUME NEW s \in stray, StrayEffect(s)
       PROVE  Calls' /\ Records' /\ Progress' /\ Outcomes'
  <2>1. /\ UNCHANGED <<journal, mounted, th, calls, refused, broken, torn>> /\ Grows
    BY <1>0, <1>15 DEF StrayEffect, Grows, file
  <2>2. /\ \A r \in Requests : applied[r] > 0 => applied'[r] > 0
        /\ \A p \in Ops : (Settled(p) => Settled(p)') /\ (Kept(p) => Kept(p)')
    BY <1>0, <2>1, SettledGrows
  <2>3. \A m \in Mutators : th[m].pc = "clear" \/ th[m].pc = "rest" \/ Busy(m) => th[m].op \in Ops
    BY <1>1, <1>0 DEF ThreadsCall, Busy
  <2>4. Calls'
    BY <1>1, <2>1 DEF Calls, ThreadsCall, CallsHaveThread, CallsInOrder, BusyIsLast, Busy
  <2>5. OnRecord' /\ ReplayCovers'
    <3>1. \A m \in Mutators : Busy(m) => (Settled(th[m].op) => Settled(th[m].op)')
      BY <2>1, <2>2, <2>3 DEF Settled
    <3>2. OnRecord'
      BY <1>1, <2>1, <3>1 DEF OnRecord, Busy
    <3>3. ReplayCovers'
      BY <1>1, <2>1, <2>2 DEF ReplayCovers
    <3> QED
      BY <3>2, <3>3
  <2>6. Progress'
    <3>1. \A m \in Mutators : th[m].pc = "rest" => <<th[m].op, "main">> \in Requests
      BY <2>3 DEF Requests
    <3> QED
      BY <1>1, <2>1, <2>2, <3>1 DEF Progress, RecoverBroken, MainFirst, Busy
  <2>7. ClearIsSettled'
    <3>1. ASSUME NEW m \in Mutators, th[m].pc = "clear"
          PROVE  Settled(th[m].op)' /\ (th[m].result = "ok" => Kept(th[m].op)')
      <4>1. PICK x \in Ops : x = th[m].op
        BY <2>3, <3>1
      <4>2. Settled(x)' /\ (th[m].result = "ok" => Kept(x)')
        BY <1>1, <2>2, <3>1, <4>1 DEF ClearIsSettled
      <4>3. th'[m].op = x
        BY <2>1, <4>1
      <4> QED
        BY <4>2, <4>3 DEF Settled, Kept, Done
    <3> QED
      BY <2>1, <3>1 DEF ClearIsSettled
  <2>8. CutOnRecord' /\ OkSettled' /\ RecordsYoung'
    BY <2>1, OutcomesStay
  <2> QED
    BY <2>4, <2>5, <2>6, <2>7, <2>8 DEF Records, Outcomes
<1>16. CASE UNCHANGED vars
  <2> USE DEF vars, file, server
  <2>1. Calls'
    BY <1>1, <1>16 DEF Calls, ThreadsCall, CallsHaveThread, CallsInOrder, BusyIsLast, Busy
  <2>2. Records'
    BY <1>1, <1>16 DEF Records, OnRecord, ReplayCovers, RecordsYoung, Busy, Settled
  <2>3. Progress'
    BY <1>1, <1>16 DEF Progress, RecoverBroken, MainFirst, Busy
  <2>4. Outcomes'
    BY <1>1, <1>16 DEF Outcomes, ClearIsSettled, CutOnRecord, OkSettled, Settled, Kept, Done
  <2> QED
    BY <2>1, <2>2, <2>3, <2>4
<1> QED
  BY <1>5, <1>6, <1>7, <1>8, <1>9, <1>10, <1>11, <1>12, <1>13, <1>14, <1>15, <1>16, Zenon DEF Next, Runs

\* With one mutating thread, a mutation that returns Ok was carried out in full,
\* or failed in transport and is settled: what its record has was carried out or
\* refused, or the record could not be read.
THEOREM OkMeansSettled == ASSUME OneMutator PROVE Spec => []OkSettled
<1>1. IInv => OkSettled
  BY DEF IInv, Outcomes
<1>2. IInv /\ [Next]_vars => IInv'
  BY NextIInv
<1> QED
  BY <1>1, <1>2, InitIInv, PTL DEF Spec

\* With one mutating thread, nothing that a mount was doing when it died is in
\* limbo once the mount is up again.
THEOREM CutCallsSettle == ASSUME OneMutator PROVE Spec => []CrashRecovered
<1>1. IInv => CrashRecovered
  BY DEF IInv, Outcomes, CutOnRecord, CrashRecovered
<1>2. IInv /\ [Next]_vars => IInv'
  BY NextIInv
<1> QED
  BY <1>1, <1>2, InitIInv, PTL DEF Spec

\* A request that takes effect is one of a broken connection, or one that a thread
\* sends or replays: its operation is not older than any that returned Ok.
LEMMA EffectIsYoung ==
  ASSUME OneMutator, IInv, [Next]_vars, NEW r \in Requests, applied'[r] > applied[r]
  PROVE  (\A p \in r[1]..MaxOps : calls[p] # "ok") \/ \E s \in stray \ stray' : s[1] = r
<1>0. th \in [Mutators -> Thread] /\ applied \in [Requests -> Nat] /\ Typed
  BY DEF IInv, Typed, TypeOK
<1>1. ThreadsCall /\ BusyIsLast /\ ReplayCovers /\ RecordsYoung
  BY DEF IInv, Calls, Records
<1>2. applied' # applied
  BY <1>0
<1>3. ASSUME NEW q \in Requests, Apply(q)
      PROVE  q = r
  BY <1>0, <1>3 DEF Apply
<1>4. ASSUME NEW m \in Mutators, Acting(m), Apply(Request(m))
      PROVE  \A p \in r[1]..MaxOps : calls[p] # "ok"
  <2>1. mounted /\ th[m].op \in Ops /\ calls[th[m].op] = "called" /\ Busy(m)
    BY <1>1, <1>4 DEF ThreadsCall, Busy, Acting
  <2>2. r = Request(m) /\ r[1] = th[m].op
    BY <1>0, <1>3, <1>4, RequestTyped DEF Request
  <2> QED
    BY <1>1, <2>1, <2>2 DEF BusyIsLast, Ops
<1>5. ASSUME NEW m \in Mutators, Replaying(m), Apply(Replayed(m))
      PROVE  \A p \in r[1]..MaxOps : calls[p] # "ok"
  <2>1. th[m].queue \in Seq(Lines) /\ th[m].queue # <<>> /\ th[m].pc = "replay"
    BY <1>0, <1>5 DEF Thread, Replaying
  <2>2. Head(th[m].queue) \in Ops /\ Head(th[m].queue) \in Range(th[m].queue)
    BY <1>0, <1>5, <2>1, RangeOfSeq, RequestTyped
  <2>3. r = Replayed(m) /\ r[1] = Head(th[m].queue)
    BY <1>0, <1>3, <1>5, RequestTyped DEF Replayed
  <2> QED
    BY <1>1, <2>1, <2>2, <2>3 DEF ReplayCovers, RecordsYoung
<1>6. ASSUME NEW m \in Mutators, Runs(m)
      PROVE  \A p \in r[1]..MaxOps : calls[p] # "ok"
  BY <1>2, <1>4, <1>5, <1>6
  DEF Runs, ActOk, ActRefused, ActBroken, Clear, ClearFails, Reconnect, ReconnectFails,
      ReplayOk, ReplayRefused, ReplaySkip, ReplayBroken, ReplayDone, ReplayNotCleared, server
<1>7. ASSUME NEW s \in stray, StrayEffect(s)
      PROVE  \E t \in stray \ stray' : t[1] = r
  <2>1. s[1] \in Requests
    BY <1>0 DEF Typed, TypeOK
  <2>2. s \in stray \ stray' /\ s[1] = r
    BY <1>3, <1>7, <2>1 DEF StrayEffect
  <2> QED
    BY <2>2
<1> QED
  BY <1>2, <1>6, <1>7 DEF Next, Crash, CrashInRecord, Dies, Start, Record, RecordFails, vars, server

\* With one mutating thread, neither a replay nor a crash repeats an operation
\* on a tree that has moved on; only a request of a broken connection comes late.
THEOREM ReplaysInOrder == ASSUME OneMutator PROVE Spec => NoLateReplay
<1>1. IInv /\ [Next]_vars =>
        [\A r \in Requests : applied'[r] > applied[r] =>
           \/ \A p \in r[1]..MaxOps : calls[p] # "ok"
           \/ \E s \in stray \ stray' : s[1] = r]_vars
  BY EffectIsYoung
<1>2. IInv /\ [Next]_vars => IInv'
  BY NextIInv
<1> QED
  BY <1>1, <1>2, InitIInv, PTL DEF Spec, NoLateReplay
=============================================================================
