--------------------------- MODULE RemoteOpProofs ---------------------------
(***************************************************************************)
(* Pool, retries and markers keep the promise of OnceOp, for any number of *)
(* slots, operations, retries, connections and faults, with handlers of    *)
(* old connections that run beside the retry and streams that are kept     *)
(* after a timeout.                                                        *)
(***************************************************************************)
EXTENDS RemoteOp, TLAPS

Slot == [conn : 0..MaxConns, op : Ops \cup {NoOp},
         attempt : 0..operation_retries, pc : {"free", "connect", "send", "wait", "failed"}]
Connection == [up : BOOLEAN, requests : Seq(Ops),
               handler : {"idle", "checked", "acted", "ended"},
               request : Ops \cup {NoOp}, replies : Seq(BOOLEAN)]

Busy(c) == conns[c].handler \in {"checked", "acted"}
InCall(s) == slots[s].pc # "free"

\* A call has an operation; a slot is connected before it sends, and connects
\* for the first time only once; a handler at work has a request.
SlotsOK ==
  /\ slots \in [Slots -> Slot]
  /\ \A s \in Slots : /\ InCall(s) => slots[s].op \in Ops
                      /\ slots[s].pc = "connect" => slots[s].conn = 0
                      /\ slots[s].pc \in {"send", "wait", "failed"} => slots[s].conn > 0
ConnsOK ==
  /\ conns \in [Conns -> Connection]
  /\ \A c \in Conns : Busy(c) => conns[c].request \in Ops
Beyond == \A c \in Conns : c[2] > slots[c[1]].conn => conns[c] = Unused
OthersOK ==
  /\ marked \subseteq Ops
  /\ calls \in [Ops -> {"idle", "called", "ok", "refused", "failed"}]
  /\ applied \in [Ops -> Nat] /\ torn \in [Ops -> Nat]
  /\ breaks \in 0..MaxBreaks /\ kills \in 0..MaxKills

Typed == SlotsOK /\ ConnsOK /\ Beyond /\ OthersOK

-----------------------------------------------------------------------------
(* The inductive invariant. *)

\* An operation on its way to the files, through a queue or in a handler.
Elems(q) == {q[i] : i \in 1..Len(q)}
Queued(c, o) == o \in Elems(conns[c].requests)
InFlight(c, o) == Queued(c, o) \/ Serving(c, o)
Awaits(s) == slots[s].pc \in {"wait", "failed"}
Acted(o) == \E c \in Conns : conns[c].handler = "acted" /\ conns[c].request = o

\* A call is its slot's own; what nobody asked for is nowhere.
Callers ==
  /\ \A s \in Slots : InCall(s) => calls[slots[s].op] = "called"
  /\ \A s, t \in Slots : InCall(s) /\ InCall(t) /\ slots[s].op = slots[t].op => s = t
Untouched == \A o \in Ops : calls[o] = "idle" => \A c \in Conns : ~InFlight(c, o)

\* The stream in use is the only one that is up, and a broken one is silent.
Current == \A c \in Conns : conns[c].up => c[2] = slots[c[1]].conn
Silent == \A s \in Slots : slots[s].conn > 0 /\ ~conns[Conn(s)].up => conns[Conn(s)].replies = <<>>

\* An operation that was not retried is in flight once, on the stream of its call,
\* and no more when its answer has come, unless that answer was another one's.
SingleOf(o) ==
  /\ \A c, d \in Conns : InFlight(c, o) /\ InFlight(d, o) => c = d
  /\ calls[o] = "called" =>
       \A c \in Conns : InFlight(c, o) =>
         \E s \in Slots : Awaits(s) /\ slots[s].op = o /\ c = Conn(s)
  /\ calls[o] \in {"ok", "refused"} /\ o \notin misled => \A c \in Conns : ~InFlight(c, o)
Single == \A o \in Ops \ retried : SingleOf(o)

\* A stream carries one thing, and it is the call's, if it owed nothing when the
\* call began; and only a call that failed leaves something owed.
OneThing(c, o) ==
  /\ conns[c].requests # <<>> =>
       conns[c].requests = <<o>> /\ ~Busy(c) /\ conns[c].replies = <<>>
  /\ Busy(c) => conns[c].request = o /\ conns[c].replies = <<>>
  /\ Len(conns[c].replies) <= 1
Answer(c, o) ==
  /\ conns[c].replies = <<TRUE>> => o \in marked
  /\ conns[c].replies = <<FALSE>> /\ o \notin retried => o \notin marked /\ ~Acted(o)
StreamOf(s) ==
  Awaits(s) /\ slots[s].op \notin misled /\ conns[Conn(s)].up =>
    OneThing(Conn(s), slots[s].op) /\ Answer(Conn(s), slots[s].op)
Streams == \A s \in Slots : StreamOf(s)
SomeFailed == \E o \in Ops : calls[o] = "failed"
SettledOf(s) == slots[s].conn > 0 /\ ~Awaits(s) /\ conns[Conn(s)].up => ~Owes(Conn(s))
Settled == SomeFailed \/ \A s \in Slots : SettledOf(s)
MisledAfter == misled # {} => SomeFailed

\* Two handlers have met if they have the same operation, or one has an operation
\* that is marked.
Meetings ==
  /\ raced \subseteq retried
  /\ \A o \in Ops \ raced :
       /\ \A c, d \in Conns : Serving(c, o) /\ Serving(d, o) => c = d
       /\ o \in marked => \A c \in Conns : ~Serving(c, o)

\* The effects of an operation: one for each end of a handler without a marker,
\* and one more if it has its marker or is about to get it.
Accounts ==
  \A o \in Ops :
    /\ o \notin raced => applied[o] = torn[o] + (IF o \in marked \/ Acted(o) THEN 1 ELSE 0)
    /\ o \in marked \/ Acted(o) => applied[o] > 0
OkMarked == \A o \in Ops : calls[o] = "ok" /\ o \notin misled => o \in marked

Naming == Callers /\ Untouched /\ Current /\ Silent
Carrying == Streams /\ Settled /\ MisledAfter
Effects == Accounts /\ OkMarked

IInv == Typed /\ Naming /\ Single /\ Carrying /\ Meetings /\ Effects

-----------------------------------------------------------------------------
(* Types. *)

(* Types. *)

\* The parts of a sequence, of Booleans too.
LEMMA SeqParts ==
  ASSUME NEW S, NEW q \in Seq(S)
  PROVE  /\ q # <<>> => Head(q) \in S /\ Tail(q) \in Seq(S)
         /\ q # <<>> /\ Len(q) <= 1 => Tail(q) = <<>> /\ q = <<Head(q)>>
         /\ \A x \in S : /\ Append(q, x) \in Seq(S) /\ Append(q, x) # <<>>
                         /\ q = <<>> => Append(q, x) = <<x>> /\ Len(Append(q, x)) = 1
                                        /\ Head(Append(q, x)) = x
<1>1. q # <<>> => Head(q) \in S /\ Tail(q) \in Seq(S)
  OBVIOUS
<1>2. q # <<>> /\ Len(q) <= 1 => Tail(q) = <<>>
  OBVIOUS
<1>3. q # <<>> /\ Len(q) <= 1 => q = <<Head(q)>>
  OBVIOUS
<1>4. ASSUME NEW x \in S
      PROVE  Append(q, x) \in Seq(S) /\ Append(q, x) # <<>>
  <2>1. Append(q, x) \in Seq(S) /\ Len(Append(q, x)) = Len(q) + 1 /\ Len(q) \in Nat
    OBVIOUS
  <2>2. Len(<<>>) = 0
    OBVIOUS
  <2> QED
    BY <2>1, <2>2
<1>5. ASSUME NEW x \in S, q = <<>>
      PROVE  Len(Append(q, x)) = 1 /\ Head(Append(q, x)) = x
  <2>1. Len(q) = 0
    BY <1>5
  <2>2. Append(q, x) \in Seq(S) /\ Len(Append(q, x)) = Len(q) + 1 /\ Append(q, x)[Len(q) + 1] = x
    OBVIOUS
  <2> QED
    BY <2>1, <2>2
<1>6. ASSUME NEW x \in S, q = <<>>
      PROVE  Append(q, x) = <<x>>
  BY <1>6
<1> QED
  BY <1>1, <1>2, <1>3, <1>4, <1>5, <1>6

\* The type invariant, from its parts.
LEMMA TypedIsTypeOK == Typed => TypeOK
<1> SUFFICES ASSUME Typed PROVE TypeOK
  OBVIOUS
<1>1. ASSUME NEW c \in Conns
      PROVE  /\ conns[c].up \in BOOLEAN
             /\ conns[c].handler \in {"idle", "checked", "acted", "ended"}
             /\ conns[c].request \in Ops \cup {NoOp}
             /\ conns[c].requests \in Seq(Ops) /\ conns[c].replies \in Seq(BOOLEAN)
  BY DEF Typed, ConnsOK, Connection
<1> QED
  BY <1>1 DEF Typed, SlotsOK, Beyond, OthersOK, TypeOK, Slot

\* A connection is its slot and its number.
LEMMA ConnIsPair ==
  ASSUME NEW c \in Conns, NEW d \in Conns
  PROVE  c[1] \in Slots /\ c[2] \in 1..MaxConns /\ (c[1] = d[1] /\ c[2] = d[2] => c = d)
BY DEF Conns

\* The connection a slot that has one uses.
LEMMA CurrentConn ==
  ASSUME SlotsOK, NEW s \in Slots, slots[s].conn > 0
  PROVE  Conn(s) \in Conns /\ Conn(s)[1] = s /\ Conn(s)[2] = slots[s].conn
BY RemoteOpAssumption DEF Conn, Conns, SlotsOK, Slot

\* The two ends of a connection that is not in use, or just set up.
LEMMA UnusedTyped ==
  /\ Unused \in Connection /\ Fresh \in Connection
  /\ Unused.handler = "ended" /\ Unused.requests = <<>> /\ Unused.replies = <<>>
  /\ Fresh.handler = "idle" /\ Fresh.requests = <<>> /\ Fresh.replies = <<>>
<1>1. Unused \in Connection
  BY DEF Unused, Connection
<1> QED
  BY <1>1 DEF Unused, Fresh, Connection

\* A slot gets a well-formed state.
LEMMA SlotKept ==
  ASSUME SlotsOK, NEW s \in Slots, NEW t \in Slot, slots' = [slots EXCEPT ![s] = t],
         t.pc # "free" => t.op \in Ops, t.pc = "connect" => t.conn = 0,
         t.pc \in {"send", "wait", "failed"} => t.conn > 0
  PROVE  /\ SlotsOK' /\ slots'[s] = t
         /\ \A u \in Slots : u # s => slots'[u] = slots[u]
BY DEF SlotsOK, InCall

\* A connection in use gets a well-formed state.
LEMMA ConnKept ==
  ASSUME ConnsOK, Beyond, NEW c \in Conns, NEW k \in Connection, conns[c] # Unused,
         conns' = [conns EXCEPT ![c] = k], \A s \in Slots : slots'[s].conn = slots[s].conn,
         k.handler \in {"checked", "acted"} => k.request \in Ops
  PROVE  /\ ConnsOK' /\ Beyond' /\ conns'[c] = k
         /\ \A d \in Conns : d # c => conns'[d] = conns[d]
<1>1. /\ conns' \in [Conns -> Connection] /\ conns'[c] = k
      /\ \A d \in Conns : d # c => conns'[d] = conns[d]
  BY DEF ConnsOK
<1>2. \A d \in Conns : Busy(d)' => conns'[d].request \in Ops
  BY <1>1 DEF ConnsOK, Busy
<1>3. Beyond'
  BY <1>1, ConnIsPair DEF Beyond
<1> QED
  BY <1>1, <1>2, <1>3 DEF ConnsOK

\* The end of a call.
LEMMA FinishTyped ==
  ASSUME Typed, NEW s \in Slots, NEW result \in {"ok", "refused", "failed"}, Finish(s, result), InCall(s)
  PROVE  /\ SlotsOK' /\ calls' \in [Ops -> {"idle", "called", "ok", "refused", "failed"}]
         /\ slots'[s].pc = "free" /\ slots'[s].conn = slots[s].conn
         /\ \A u \in Slots : u # s => slots'[u] = slots[u]
         /\ slots[s].op \in Ops /\ calls'[slots[s].op] = result
         /\ \A o \in Ops : o # slots[s].op => calls'[o] = calls[o]
<1> DEFINE t == [slots[s] EXCEPT !.op = NoOp, !.attempt = 0, !.pc = "free"]
<1>1. slots[s] \in Slot /\ SlotsOK /\ slots[s].op \in Ops
  BY DEF Typed, SlotsOK
<1>2. t \in Slot /\ t.pc = "free" /\ t.conn = slots[s].conn
  <2>1. 0 \in 0..operation_retries /\ NoOp \in Ops \cup {NoOp}
    BY RemoteOpAssumption
  <2> QED
    BY <1>1, <2>1 DEF Slot
<1>3. slots' = [slots EXCEPT ![s] = t]
  BY <1>1 DEF Finish
<1> HIDE DEF t
<1>4. SlotsOK' /\ slots'[s] = t /\ \A u \in Slots : u # s => slots'[u] = slots[u]
  BY <1>1, <1>2, <1>3, SlotKept
<1>5. calls' = [calls EXCEPT ![slots[s].op] = result]
  BY DEF Finish
<1> QED
  BY <1>1, <1>2, <1>4, <1>5 DEF Typed, OthersOK

\* A new connection of a slot, the old ones closed.
LEMMA ConnectedTyped ==
  ASSUME Typed, NEW s \in Slots, CanConnect(s), conns' = Connected(s),
         slots'[s].conn = slots[s].conn + 1, \A u \in Slots : u # s => slots'[u] = slots[u]
  PROVE  /\ ConnsOK' /\ Beyond'
         /\ \A c \in Conns : c[1] # s => conns'[c] = conns[c]
         /\ \A c \in Conns : c[1] = s /\ c[2] = slots[s].conn + 1 => conns'[c] = Fresh
         /\ \A c \in Conns : c[1] = s /\ c[2] # slots[s].conn + 1 =>
              /\ conns'[c].up = FALSE /\ conns'[c].handler = conns[c].handler
              /\ conns'[c].request = conns[c].request /\ conns'[c].requests = conns[c].requests
<1>1. conns \in [Conns -> Connection] /\ slots[s].conn \in Nat
  BY DEF Typed, ConnsOK, SlotsOK, Slot
<1>2. \A c \in Conns : [conns[c] EXCEPT !.up = FALSE] \in Connection
  BY <1>1 DEF Connection
<1>3. \A c \in Conns : LET k == [conns[c] EXCEPT !.up = FALSE]
                       IN /\ k.up = FALSE /\ k.handler = conns[c].handler
                          /\ k.request = conns[c].request /\ k.requests = conns[c].requests
  BY <1>1 DEF Connection
<1>4. /\ \A c \in Conns : c[1] # s => conns'[c] = conns[c]
      /\ \A c \in Conns : c[1] = s /\ c[2] = slots[s].conn + 1 => conns'[c] = Fresh
      /\ \A c \in Conns : c[1] = s /\ c[2] # slots[s].conn + 1 =>
           conns'[c] = [conns[c] EXCEPT !.up = FALSE]
  BY DEF Connected
<1>5. conns' \in [Conns -> Connection]
  BY <1>1, <1>2, UnusedTyped DEF Connected
<1>6. \A c \in Conns : c[1] = s /\ c[2] # slots[s].conn + 1 =>
              /\ conns'[c].up = FALSE /\ conns'[c].handler = conns[c].handler
              /\ conns'[c].request = conns[c].request /\ conns'[c].requests = conns[c].requests
  BY <1>3, <1>4
<1>7. \A c \in Conns : Busy(c)' => conns'[c].request \in Ops
  BY <1>4, <1>6, UnusedTyped DEF Busy, Typed, ConnsOK
<1>8. ASSUME NEW c \in Conns, c[2] > slots'[c[1]].conn
      PROVE  conns'[c] = Unused
  <2>1. CASE c[1] # s
    BY <1>4, <1>8, <2>1, ConnIsPair DEF Typed, Beyond
  <2>2. CASE c[1] = s
    <3>1. c[2] > slots[s].conn + 1 /\ c[2] \in Nat
      BY <1>8, <2>2, ConnIsPair
    <3>2. conns[c] = Unused /\ conns'[c] = [Unused EXCEPT !.up = FALSE]
      BY <1>1, <1>4, <2>2, <3>1 DEF Typed, Beyond
    <3> QED
      BY <3>2 DEF Unused
  <2> QED
    BY <2>1, <2>2
<1> QED
  BY <1>4, <1>5, <1>6, <1>7, <1>8 DEF ConnsOK, Beyond

-----------------------------------------------------------------------------
(* What each step does to slots and connections. *)

\* A call takes a slot and a new number.
LEMMA CallStep ==
  ASSUME Typed, NEW o \in Ops, NEW s \in Slots, Call(o, s)
  PROVE  /\ Typed' /\ UNCHANGED <<conns, marked, applied, torn, retried, raced, misled>>
         /\ slots[s].pc = "free" /\ calls[o] = "idle"
         /\ slots'[s].op = o
         /\ slots'[s].conn = slots[s].conn /\ slots'[s].pc \in {"connect", "send"}
         /\ \A u \in Slots : u # s => slots'[u] = slots[u]
         /\ calls'[o] = "called" /\ \A p \in Ops : p # o => calls'[p] = calls[p]
<1> DEFINE pc == IF slots[s].conn = 0 THEN "connect" ELSE "send"
           t == [slots[s] EXCEPT !.op = o, !.attempt = 0, !.pc = pc]
<1>1. slots[s] \in Slot /\ SlotsOK /\ slots[s].conn \in Nat
  BY DEF Typed, SlotsOK, Slot
<1>2. pc \in {"connect", "send"} /\ (pc = "connect" => slots[s].conn = 0) /\ (pc = "send" => slots[s].conn > 0)
  BY <1>1
<1>3. slots' = [slots EXCEPT ![s] = t]
  BY <1>1 DEF Call
<1> HIDE DEF pc
<1>4. /\ t \in Slot /\ t.pc = pc /\ t.op = o /\ t.conn = slots[s].conn
  <2>1. 0 \in 0..operation_retries /\ o \in Ops \cup {NoOp}
        /\ pc \in {"free", "connect", "send", "wait", "failed"}
    BY <1>1, <1>2, RemoteOpAssumption
  <2> QED
    BY <1>1, <2>1 DEF Slot
<1> HIDE DEF t
<1>5. SlotsOK' /\ slots'[s] = t /\ \A u \in Slots : u # s => slots'[u] = slots[u]
  BY <1>1, <1>2, <1>3, <1>4, SlotKept
<1>6. /\ UNCHANGED <<conns, marked, breaks, kills, applied, torn, retried, raced, misled>>
      /\ calls' = [calls EXCEPT ![o] = "called"]
      /\ slots[s].pc = "free" /\ calls[o] = "idle"
  BY DEF Call, histories
<1>7. ConnsOK' /\ OthersOK'
  BY <1>6 DEF Typed, ConnsOK, OthersOK, Busy
<1>8. Beyond'
  BY <1>4, <1>5, <1>6, ConnIsPair DEF Typed, Beyond
<1>9. calls'[o] = "called" /\ \A p \in Ops : p # o => calls'[p] = calls[p]
  BY <1>6 DEF Typed, OthersOK
<1> QED
  BY <1>2, <1>4, <1>5, <1>6, <1>7, <1>8, <1>9 DEF Typed

\* A step of the client within its call: the slot has the same operation and
\* number before and after it.
SameCall(s) ==
  /\ slots'[s].op = slots[s].op
  /\ \A u \in Slots : u # s => slots'[u] = slots[u]

\* The first connection of a slot, or the next one.
LEMMA ConnectStep ==
  ASSUME Typed, NEW s \in Slots, Connect(s) \/ Retry(s)
  PROVE  /\ Typed' /\ UNCHANGED <<marked, calls, applied, torn, raced, misled>> /\ SameCall(s)
         /\ retried' = IF slots[s].pc = "connect" THEN retried ELSE retried \cup {slots[s].op}
         /\ slots[s].pc \in {"connect", "failed"} /\ slots'[s].pc = "send"
         /\ CanConnect(s) /\ conns' = Connected(s) /\ slots'[s].conn = slots[s].conn + 1
<1> DEFINE t1 == [slots[s] EXCEPT !.conn = 1, !.pc = "send"]
           t2 == [slots[s] EXCEPT !.conn = slots[s].conn + 1, !.attempt = slots[s].attempt + 1, !.pc = "send"]
<1>1. slots[s] \in Slot /\ SlotsOK /\ slots[s].conn \in 0..MaxConns /\ slots[s].attempt \in 0..operation_retries
  BY DEF Typed, SlotsOK, Slot
<1>2. /\ slots[s].pc \in {"connect", "failed"} /\ CanConnect(s) /\ conns' = Connected(s)
      /\ UNCHANGED <<marked, breaks, kills, calls, applied, torn, raced, misled>>
      /\ retried' = IF slots[s].pc = "connect" THEN retried ELSE retried \cup {slots[s].op}
  BY DEF Connect, Retry, histories
<1>3. slots[s].op \in Ops /\ (slots[s].pc = "connect" => slots[s].conn = 0)
  BY <1>1, <1>2 DEF SlotsOK, InCall
<1>4. PICK t \in Slot : /\ slots' = [slots EXCEPT ![s] = t]
                        /\ t.pc = "send" /\ t.op = slots[s].op
                        /\ t.conn = slots[s].conn + 1
  <2>1. slots[s].conn + 1 \in 0..MaxConns
    BY <1>1, <1>2, RemoteOpAssumption DEF CanConnect
  <2>2. CASE Connect(s)
    <3>1. slots' = [slots EXCEPT ![s] = t1] /\ slots[s].conn = 0
      BY <1>1, <1>3, <2>2 DEF Connect
    <3>2. 1 \in 0..MaxConns /\ slots[s].conn + 1 = 1
      BY <2>1, <3>1
    <3>3. /\ t1 \in Slot /\ t1.pc = "send" /\ t1.op = slots[s].op
          /\ t1.conn = 1
      BY <1>1, <3>2 DEF Slot
    <3> HIDE DEF t1
    <3> QED
      BY <3>1, <3>2, <3>3
  <2>3. CASE Retry(s)
    <3>1. slots[s].attempt + 1 \in 0..operation_retries
      BY <1>1, <2>3, RemoteOpAssumption DEF Retry
    <3>3. slots' = [slots EXCEPT ![s] = t2]
      BY <2>3 DEF Retry
    <3>2. /\ t2 \in Slot /\ t2.pc = "send" /\ t2.op = slots[s].op
          /\ t2.conn = slots[s].conn + 1
      BY <1>1, <2>1, <3>1 DEF Slot
    <3> HIDE DEF t2
    <3> QED
      BY <3>2, <3>3
  <2> QED
    BY <2>2, <2>3
<1>5. SlotsOK' /\ slots'[s] = t /\ \A u \in Slots : u # s => slots'[u] = slots[u]
  <2>1. slots[s].conn + 1 > 0
    BY <1>1
  <2> QED
    BY <1>1, <1>3, <1>4, <2>1, SlotKept
<1>6. ConnsOK' /\ Beyond'
  BY <1>2, <1>4, <1>5, ConnectedTyped
<1>7. OthersOK'
  BY <1>2 DEF Typed, OthersOK
<1> QED
  BY <1>2, <1>4, <1>5, <1>6, <1>7 DEF Typed, SameCall

\* A call that returns with an error and leaves its stream.
LEMMA ErrorStep ==
  ASSUME Typed, NEW s \in Slots, ConnectFails(s) \/ GiveUp(s)
  PROVE  /\ Typed' /\ UNCHANGED <<conns, marked, applied, torn, retried, raced, misled>>
         /\ slots[s].pc \in {"connect", "failed"} /\ InCall(s) /\ Finish(s, "failed")
<1>1. /\ UNCHANGED <<conns, marked, breaks, kills, applied, torn, retried, raced, misled>> /\ Finish(s, "failed")
      /\ slots[s].pc \in {"connect", "failed"} /\ InCall(s)
  BY DEF ConnectFails, GiveUp, InCall, histories
<1>2. /\ SlotsOK' /\ calls' \in [Ops -> {"idle", "called", "ok", "refused", "failed"}]
      /\ slots'[s].conn = slots[s].conn /\ \A u \in Slots : u # s => slots'[u] = slots[u]
  BY <1>1, FinishTyped
<1>3. ConnsOK' /\ OthersOK'
  BY <1>1, <1>2 DEF Typed, ConnsOK, OthersOK, Busy
<1>4. Beyond'
  BY <1>1, <1>2, ConnIsPair DEF Typed, Beyond
<1> QED
  BY <1>1, <1>2, <1>3, <1>4 DEF Typed

\* A request goes out, on a stream that is up.
LEMMA SendStep ==
  ASSUME Typed, NEW s \in Slots, Send(s)
  PROVE  /\ Typed' /\ UNCHANGED <<marked, calls, applied, torn, retried, raced>> /\ SameCall(s)
         /\ misled' = IF conns[Conn(s)].up /\ Owes(Conn(s)) THEN misled \cup {slots[s].op} ELSE misled
         /\ slots[s].pc = "send" /\ slots'[s].pc = "wait" /\ slots'[s].conn = slots[s].conn
         /\ slots[s].conn > 0
         /\ \A d \in Conns : d # Conn(s) => conns'[d] = conns[d]
         /\ ~conns[Conn(s)].up => conns' = conns
         /\ conns[Conn(s)].up =>
              conns'[Conn(s)] = [conns[Conn(s)] EXCEPT !.requests =
                                   Append(conns[Conn(s)].requests, slots[s].op)]
<1> DEFINE t == [slots[s] EXCEPT !.pc = "wait"]
           k == [conns[Conn(s)] EXCEPT !.requests =
                   IF conns[Conn(s)].up THEN Append(conns[Conn(s)].requests, slots[s].op)
                   ELSE conns[Conn(s)].requests]
<1>1. /\ slots[s] \in Slot /\ SlotsOK /\ slots[s].pc = "send" /\ slots[s].conn > 0
      /\ slots[s].op \in Ops /\ conns \in [Conns -> Connection]
  BY DEF Typed, SlotsOK, Slot, Send, InCall, ConnsOK
<1>2. Conn(s) \in Conns /\ Conn(s)[1] = s /\ Conn(s)[2] = slots[s].conn
  BY <1>1, CurrentConn
<1>3. /\ slots' = [slots EXCEPT ![s] = t] /\ conns' = [conns EXCEPT ![Conn(s)] = k]
      /\ UNCHANGED <<marked, breaks, kills, calls, applied, torn, retried, raced>>
      /\ misled' = IF conns[Conn(s)].up /\ Owes(Conn(s)) THEN misled \cup {slots[s].op} ELSE misled
  BY <1>1, <1>2 DEF Send, histories
<1>4. /\ t \in Slot /\ t.pc = "wait" /\ t.conn = slots[s].conn /\ t.op = slots[s].op
     
  BY <1>1 DEF Slot
<1>5. slots[s].op \in Ops
  BY <1>1
<1>6. conns[Conn(s)] \in Connection /\ k \in Connection /\ k.handler = conns[Conn(s)].handler
      /\ k.request = conns[Conn(s)].request
  <2>1. conns[Conn(s)] \in Connection
    BY <1>1, <1>2
  <2>2. Append(conns[Conn(s)].requests, slots[s].op) \in Seq(Ops)
    BY <1>5, <2>1 DEF Connection
  <2> QED
    BY <2>1, <2>2 DEF Connection
<1>7. /\ conns[Conn(s)].up => k = [conns[Conn(s)] EXCEPT !.requests =
                                     Append(conns[Conn(s)].requests, slots[s].op)]
      /\ ~conns[Conn(s)].up => k = conns[Conn(s)]
  BY <1>6 DEF Connection
<1> HIDE DEF t, k
<1>8. SlotsOK' /\ slots'[s] = t /\ \A u \in Slots : u # s => slots'[u] = slots[u]
  BY <1>1, <1>3, <1>4, SlotKept
<1>9. conns[Conn(s)].up => ConnsOK' /\ Beyond'
  <2> SUFFICES ASSUME conns[Conn(s)].up PROVE ConnsOK' /\ Beyond'
    OBVIOUS
  <2>1. conns[Conn(s)] # Unused
    BY DEF Unused
  <2>2. \A u \in Slots : slots'[u].conn = slots[u].conn
    BY <1>4, <1>8
  <2>3. k.handler \in {"checked", "acted"} => k.request \in Ops
    BY <1>2, <1>6 DEF Typed, ConnsOK, Busy
  <2>4. ConnsOK /\ Beyond /\ k \in Connection /\ conns' = [conns EXCEPT ![Conn(s)] = k] /\ Conn(s) \in Conns
    BY <1>2, <1>3, <1>6 DEF Typed
  <2> HIDE DEF Conn
  <2> QED
    BY <2>1, <2>2, <2>3, <2>4, ConnKept
<1>10. ~conns[Conn(s)].up => conns' = conns
  BY <1>1, <1>2, <1>3, <1>7
<1>11. ~conns[Conn(s)].up => ConnsOK' /\ Beyond'
  BY <1>4, <1>8, <1>10, ConnIsPair DEF Typed, ConnsOK, Beyond, Busy
<1>12. OthersOK'
  BY <1>3 DEF Typed, OthersOK
<1>13. /\ \A d \in Conns : d # Conn(s) => conns'[d] = conns[d]
       /\ conns'[Conn(s)] = k
  BY <1>1, <1>2, <1>3
<1> QED
  BY <1>1, <1>3, <1>4, <1>7, <1>8, <1>9, <1>10, <1>11, <1>12, <1>13 DEF Typed, SameCall

\* An answer is taken from the stream.
LEMMA ReceiveStep ==
  ASSUME Typed, NEW s \in Slots, Receive(s)
  PROVE  /\ Typed' /\ UNCHANGED <<marked, applied, torn, retried, raced, misled>>
         /\ slots[s].pc = "wait" /\ InCall(s) /\ conns[Conn(s)].replies # <<>>
         /\ Finish(s, IF Head(conns[Conn(s)].replies) THEN "ok" ELSE "refused")
         /\ slots[s].conn > 0
         /\ \A d \in Conns : d # Conn(s) => conns'[d] = conns[d]
         /\ conns'[Conn(s)] = [conns[Conn(s)] EXCEPT !.replies = Tail(conns[Conn(s)].replies)]
<1> DEFINE k == [conns[Conn(s)] EXCEPT !.replies = Tail(conns[Conn(s)].replies)]
           result == IF Head(conns[Conn(s)].replies) THEN "ok" ELSE "refused"
<1>1. /\ SlotsOK /\ slots[s].pc = "wait" /\ slots[s].conn > 0 /\ InCall(s)
      /\ conns \in [Conns -> Connection]
  BY DEF Typed, SlotsOK, Receive, InCall, ConnsOK
<1>2. Conn(s) \in Conns
  BY <1>1, CurrentConn
<1>3. /\ conns' = [conns EXCEPT ![Conn(s)] = k] /\ Finish(s, result)
      /\ UNCHANGED <<marked, breaks, kills, applied, torn, retried, raced, misled>> /\ conns[Conn(s)].replies # <<>>
  BY DEF Receive, histories
<1>4. result \in {"ok", "refused", "failed"}
  OBVIOUS
<1>5. conns[Conn(s)] \in Connection /\ k \in Connection /\ k.handler = conns[Conn(s)].handler
      /\ k.request = conns[Conn(s)].request
  <2>1. conns[Conn(s)] \in Connection
    BY <1>1, <1>2
  <2>2. Tail(conns[Conn(s)].replies) \in Seq(BOOLEAN)
    <3>1. conns[Conn(s)].replies \in Seq(BOOLEAN)
      BY <2>1 DEF Connection
    <3> QED
      BY <1>3, <3>1, SeqParts
  <2> QED
    BY <2>1, <2>2 DEF Connection
<1> HIDE DEF k, result
<1>6. /\ SlotsOK' /\ calls' \in [Ops -> {"idle", "called", "ok", "refused", "failed"}]
      /\ slots'[s].conn = slots[s].conn /\ \A u \in Slots : u # s => slots'[u] = slots[u]
  BY <1>1, <1>3, <1>4, FinishTyped
<1>7. conns[Conn(s)] # Unused
  BY <1>3, UnusedTyped
<1>8. /\ ConnsOK' /\ Beyond' /\ conns'[Conn(s)] = k
      /\ \A d \in Conns : d # Conn(s) => conns'[d] = conns[d]
  BY <1>2, <1>3, <1>5, <1>6, <1>7, ConnKept DEF Typed, ConnsOK, Busy
<1>9. OthersOK'
  BY <1>3, <1>6 DEF Typed, OthersOK
<1> QED
  BY <1>1, <1>3, <1>6, <1>8, <1>9 DEF Typed, k, result

\* An attempt is over without an answer.
LEMMA FailStep ==
  ASSUME Typed, NEW s \in Slots, AttemptFails(s)
  PROVE  /\ Typed' /\ UNCHANGED <<conns, marked, calls, applied, torn, retried, raced, misled>> /\ SameCall(s)
         /\ slots[s].pc = "wait" /\ slots'[s].pc = "failed" /\ slots'[s].conn = slots[s].conn
<1> DEFINE t == [slots[s] EXCEPT !.pc = "failed"]
<1>1. slots[s] \in Slot /\ SlotsOK /\ slots[s].pc = "wait" /\ slots[s].conn > 0 /\ slots[s].op \in Ops
  BY DEF Typed, SlotsOK, AttemptFails, InCall
<1>2. slots' = [slots EXCEPT ![s] = t] /\ UNCHANGED <<conns, marked, breaks, kills, calls, applied, torn, retried, raced, misled>>
  BY DEF AttemptFails, histories
<1>3. /\ t \in Slot /\ t.pc = "failed" /\ t.conn = slots[s].conn /\ t.op = slots[s].op
     
  BY <1>1 DEF Slot
<1> HIDE DEF t
<1>4. SlotsOK' /\ slots'[s] = t /\ \A u \in Slots : u # s => slots'[u] = slots[u]
  BY <1>1, <1>2, <1>3, SlotKept
<1>5. ConnsOK' /\ OthersOK'
  BY <1>2 DEF Typed, ConnsOK, OthersOK, Busy
<1>6. Beyond'
  BY <1>2, <1>3, <1>4, ConnIsPair DEF Typed, Beyond
<1> QED
  BY <1>1, <1>2, <1>3, <1>4, <1>5, <1>6 DEF Typed, SameCall

\* A handler takes a request: it has it to carry out, or it answers at once, or
\* the connection is gone with it.
LEMMA AcceptStep ==
  ASSUME Typed, NEW c \in Conns, Accept(c)
  PROVE  /\ Typed' /\ UNCHANGED <<slots, marked, calls, applied, torn, retried, misled>>
         /\ raced' = IF Head(conns[c].requests) \notin marked /\ \E d \in Conns : Serving(d, Head(conns[c].requests))
                     THEN raced \cup {Head(conns[c].requests)} ELSE raced
         /\ conns[c].handler = "idle" /\ conns[c].requests # <<>>
         /\ Head(conns[c].requests) \in Ops
         /\ \A d \in Conns : d # c => conns'[d] = conns[d]
         /\ conns[c].up =>
              /\ conns'[c].up /\ conns'[c].requests = Tail(conns[c].requests)
              /\ Head(conns[c].requests) \notin marked =>
                   /\ conns'[c].handler = "checked" /\ conns'[c].request = Head(conns[c].requests)
                   /\ conns'[c].replies = conns[c].replies
              /\ Head(conns[c].requests) \in marked =>
                   /\ conns'[c].handler = "idle" /\ conns'[c].request = conns[c].request
                   /\ conns'[c].replies = Append(conns[c].replies, TRUE)
         /\ ~conns[c].up =>
              /\ ~conns'[c].up
              /\ Head(conns[c].requests) \notin marked =>
                   /\ conns'[c].handler = "checked" /\ conns'[c].request = Head(conns[c].requests)
                   /\ conns'[c].requests = Tail(conns[c].requests)
                   /\ conns'[c].replies = conns[c].replies
              /\ Head(conns[c].requests) \in marked => conns'[c] = Unused
<1> DEFINE r == Head(conns[c].requests)
           t1 == [conns[c] EXCEPT !.requests = Tail(conns[c].requests)]
           k1 == [t1 EXCEPT !.handler = "checked", !.request = r]
           k2 == [t1 EXCEPT !.replies = Append(t1.replies, TRUE)]
           k == IF r \notin marked THEN k1 ELSE IF t1.up THEN k2 ELSE Unused
<1>1. conns \in [Conns -> Connection] /\ conns[c] \in Connection
  BY DEF Typed, ConnsOK
<1>2. /\ conns[c].handler = "idle" /\ conns[c].requests # <<>>
      /\ conns' = [conns EXCEPT ![c] = k]
      /\ UNCHANGED <<slots, marked, breaks, kills, calls, applied, torn, retried, misled>>
      /\ raced' = IF r \notin marked /\ \E d \in Conns : Serving(d, r) THEN raced \cup {r} ELSE raced
  BY DEF Accept
<1>3. r \in Ops /\ Tail(conns[c].requests) \in Seq(Ops)
  <2>1. conns[c].requests \in Seq(Ops)
    BY <1>1 DEF Connection
  <2> QED
    BY <1>2, <2>1, SeqParts
<1>4. /\ t1 \in Connection /\ t1.up = conns[c].up /\ t1.requests = Tail(conns[c].requests)
      /\ t1.handler = "idle" /\ t1.request = conns[c].request /\ t1.replies = conns[c].replies
  BY <1>1, <1>2, <1>3 DEF Connection
<1> HIDE DEF r, t1
<1>5. /\ k1 \in Connection /\ k1.up = conns[c].up /\ k1.requests = Tail(conns[c].requests)
      /\ k1.handler = "checked" /\ k1.request = r /\ k1.replies = conns[c].replies
  BY <1>3, <1>4 DEF Connection
<1>6. /\ k2 \in Connection /\ k2.up = conns[c].up /\ k2.requests = Tail(conns[c].requests)
      /\ k2.handler = "idle" /\ k2.request = conns[c].request
      /\ k2.replies = Append(conns[c].replies, TRUE)
  <2>1. t1.replies \in Seq(BOOLEAN)
    BY <1>4 DEF Connection
  <2>2. Append(t1.replies, TRUE) \in Seq(BOOLEAN)
    BY <2>1, SeqParts
  <2> QED
    BY <1>4, <2>2 DEF Connection
<1> HIDE DEF k1, k2
<1>7. /\ k \in Connection
      /\ k.handler \in {"checked", "acted"} => k.request \in Ops
  BY <1>3, <1>5, <1>6, UnusedTyped
<1>8. conns[c] # Unused
  BY <1>2, UnusedTyped
<1>9. /\ r \notin marked => k = k1
      /\ r \in marked /\ conns[c].up => k = k2
      /\ r \in marked /\ ~conns[c].up => k = Unused
  BY <1>4
<1> HIDE DEF k
<1>10. /\ ConnsOK' /\ Beyond' /\ conns'[c] = k
       /\ \A d \in Conns : d # c => conns'[d] = conns[d]
  BY <1>2, <1>7, <1>8, ConnKept DEF Typed
<1>11. SlotsOK' /\ OthersOK'
  BY <1>2 DEF Typed, SlotsOK, OthersOK, InCall
<1>12. conns[c].up \in BOOLEAN /\ Unused.up = FALSE
  BY <1>1 DEF Connection, Unused
<1> QED
  BY <1>2, <1>3, <1>5, <1>6, <1>9, <1>10, <1>11, <1>12 DEF Typed, r

\* The effect of an operation.
LEMMA ActStep ==
  ASSUME Typed, NEW c \in Conns, Act(c)
  PROVE  /\ Typed' /\ UNCHANGED <<slots, marked, calls, torn, retried, raced, misled>>
         /\ conns[c].handler = "checked" /\ conns[c].request \in Ops
         /\ applied' = [applied EXCEPT ![conns[c].request] = @ + 1]
         /\ \A d \in Conns : d # c => conns'[d] = conns[d]
         /\ conns'[c].handler = "acted" /\ conns'[c].request = conns[c].request
         /\ conns'[c].up = conns[c].up /\ conns'[c].requests = conns[c].requests
         /\ conns'[c].replies = conns[c].replies
<1> DEFINE k == [conns[c] EXCEPT !.handler = "acted"]
<1>1. /\ conns \in [Conns -> Connection] /\ conns[c] \in Connection
      /\ conns[c].handler = "checked" /\ conns[c].request \in Ops
  BY DEF Typed, ConnsOK, Act, Busy
<1>2. /\ conns' = [conns EXCEPT ![c] = k] /\ UNCHANGED <<slots, marked, breaks, kills, calls, torn, retried, raced, misled>>
      /\ applied' = [applied EXCEPT ![conns[c].request] = @ + 1]
  BY DEF Act, histories
<1>3. /\ k \in Connection /\ k.handler = "acted" /\ k.request = conns[c].request
      /\ k.up = conns[c].up /\ k.requests = conns[c].requests /\ k.replies = conns[c].replies
  BY <1>1 DEF Connection
<1> HIDE DEF k
<1>4. conns[c] # Unused
  BY <1>1, UnusedTyped
<1>5. /\ ConnsOK' /\ Beyond' /\ conns'[c] = k
      /\ \A d \in Conns : d # c => conns'[d] = conns[d]
  BY <1>1, <1>2, <1>3, <1>4, ConnKept DEF Typed
<1>6. SlotsOK' /\ OthersOK'
  <2>1. applied' \in [Ops -> Nat]
    BY <1>1, <1>2 DEF Typed, OthersOK
  <2> QED
    BY <1>2, <2>1 DEF Typed, SlotsOK, OthersOK, InCall
<1> QED
  BY <1>1, <1>2, <1>3, <1>5, <1>6 DEF Typed

\* The end of a handler's work: an answer on a stream that is up, or nothing.
LEMMA AnswerStep ==
  ASSUME Typed, NEW c \in Conns, Refuse(c) \/ Mark(c) \/ MarkFails(c)
  PROVE  /\ Typed' /\ UNCHANGED <<slots, calls, applied, retried, raced, misled>>
         /\ Busy(c) /\ conns[c].request \in Ops
         /\ Refuse(c) => conns[c].handler = "checked" /\ marked' = marked /\ torn' = torn
         /\ Mark(c) => conns[c].handler = "acted" /\ marked' = marked \cup {conns[c].request} /\ torn' = torn
         /\ MarkFails(c) =>
              /\ ~Mark(c) /\ conns[c].handler = "acted" /\ marked' = marked
              /\ torn' = [torn EXCEPT ![conns[c].request] = @ + 1]
         /\ \A d \in Conns : d # c => conns'[d] = conns[d]
         /\ ~conns[c].up => conns'[c] = Unused
         /\ conns[c].up =>
              /\ conns'[c].up /\ conns'[c].handler = "idle" /\ conns'[c].requests = conns[c].requests
              /\ conns'[c].replies = Append(conns[c].replies, IF Mark(c) THEN TRUE ELSE FALSE)
<1> DEFINE ok == IF Mark(c) THEN TRUE ELSE FALSE
           k1 == [conns[c] EXCEPT !.handler = "idle", !.request = NoOp,
                                  !.replies = Append(conns[c].replies, ok)]
           k == IF conns[c].up THEN k1 ELSE Unused
<1>1. /\ conns \in [Conns -> Connection] /\ conns[c] \in Connection
      /\ Busy(c) /\ conns[c].request \in Ops
      /\ Refuse(c) => conns[c].handler = "checked" /\ marked' = marked /\ torn' = torn
      /\ Mark(c) => conns[c].handler = "acted" /\ marked' = marked \cup {conns[c].request} /\ torn' = torn
      /\ MarkFails(c) =>
           /\ conns[c].handler = "acted" /\ marked' = marked
           /\ torn' = [torn EXCEPT ![conns[c].request] = @ + 1]
      /\ ok \in BOOLEAN
  BY DEF Typed, ConnsOK, Refuse, Mark, MarkFails, Busy, histories
<1>0. MarkFails(c) => ~Mark(c)
  BY <1>1 DEF Typed, OthersOK
<1>2. (Refuse(c) => ok = FALSE) /\ (MarkFails(c) => ok = FALSE)
  BY <1>0, <1>1
<1>3. conns' = [conns EXCEPT ![c] = k] /\ UNCHANGED <<slots, breaks, kills, calls, applied, retried, raced, misled>>
  BY <1>2 DEF Refuse, Mark, MarkFails, Answered, histories
<1> HIDE DEF ok
<1>4. /\ k1 \in Connection /\ k1.up = conns[c].up /\ k1.handler = "idle"
      /\ k1.requests = conns[c].requests /\ k1.replies = Append(conns[c].replies, ok)
  <2>1. conns[c].replies \in Seq(BOOLEAN)
    BY <1>1 DEF Connection
  <2>2. Append(conns[c].replies, ok) \in Seq(BOOLEAN)
    BY <1>1, <2>1, SeqParts
  <2> QED
    BY <1>1, <2>2 DEF Connection
<1> HIDE DEF k1
<1>5. k \in Connection /\ (k.handler \in {"checked", "acted"} => k.request \in Ops)
  BY <1>4, UnusedTyped
<1>6. conns[c] # Unused
  BY <1>1, UnusedTyped DEF Busy
<1>7. (conns[c].up => k = k1) /\ (~conns[c].up => k = Unused)
  OBVIOUS
<1> HIDE DEF k
<1>8. /\ ConnsOK' /\ Beyond' /\ conns'[c] = k
      /\ \A d \in Conns : d # c => conns'[d] = conns[d]
  BY <1>3, <1>5, <1>6, ConnKept DEF Typed
<1>9. SlotsOK' /\ OthersOK'
  <2>1. marked' \subseteq Ops
    BY <1>1 DEF Typed, OthersOK
  <2>2. torn' \in [Ops -> Nat]
    BY <1>1 DEF Typed, OthersOK
  <2>3. SlotsOK'
    BY <1>3 DEF Typed, SlotsOK, InCall
  <2> QED
    BY <1>3, <2>1, <2>2, <2>3 DEF Typed, OthersOK
<1> QED
  BY <1>0, <1>1, <1>3, <1>4, <1>7, <1>8, <1>9 DEF Typed, ok

\* A connection breaks, and may lose what is queued on it.
LEMMA BreakStep ==
  ASSUME Typed, NEW c \in Conns, Break(c)
  PROVE  /\ Typed' /\ UNCHANGED <<slots, marked, calls, applied, torn, retried, raced, misled>>
         /\ conns[c].up /\ conns'[c].up = FALSE
         /\ \A d \in Conns : d # c => conns'[d] = conns[d]
         /\ conns'[c].handler = conns[c].handler /\ conns'[c].request = conns[c].request
         /\ conns'[c].replies = <<>>
         /\ conns'[c].requests = conns[c].requests \/ conns'[c].requests = <<>>
<1>1. conns \in [Conns -> Connection] /\ conns[c] \in Connection /\ conns[c].up
  BY DEF Typed, ConnsOK, Break
<1>2. PICK lost \in BOOLEAN :
        conns' = [conns EXCEPT ![c].up = FALSE, ![c].replies = <<>>,
                               ![c].requests = IF lost THEN <<>> ELSE @]
  BY DEF Break
<1> DEFINE q == IF lost THEN <<>> ELSE conns[c].requests
           k == [conns[c] EXCEPT !.up = FALSE, !.replies = <<>>, !.requests = q]
<1>3. conns' = [conns EXCEPT ![c] = k]
  BY <1>1, <1>2
<1>4. q \in Seq(Ops) /\ (q = conns[c].requests \/ q = <<>>)
  BY <1>1 DEF Connection
<1> HIDE DEF q
<1>5. /\ k \in Connection /\ k.up = FALSE /\ k.handler = conns[c].handler
      /\ k.request = conns[c].request /\ k.replies = <<>> /\ k.requests = q
  <2>1. <<>> \in Seq(BOOLEAN)
    OBVIOUS
  <2> QED
    BY <1>1, <1>4, <2>1 DEF Connection
<1> HIDE DEF k
<1>6. conns[c] # Unused
  BY <1>1 DEF Unused
<1>7. /\ UNCHANGED <<slots, marked, kills, calls, applied, torn, retried, raced, misled>> /\ breaks' \in 0..MaxBreaks
  BY RemoteOpAssumption DEF Break, Typed, OthersOK, histories
<1>8. /\ ConnsOK' /\ Beyond' /\ conns'[c] = k
      /\ \A d \in Conns : d # c => conns'[d] = conns[d]
  BY <1>3, <1>5, <1>6, <1>7, ConnKept DEF Typed, ConnsOK, Busy
<1>9. SlotsOK' /\ OthersOK'
  BY <1>7 DEF Typed, SlotsOK, OthersOK, InCall
<1> QED
  BY <1>1, <1>4, <1>5, <1>7, <1>8, <1>9 DEF Typed

\* The daemon dies with all its connections.
LEMMA KillStep ==
  ASSUME Typed, Kill
  PROVE  /\ Typed' /\ UNCHANGED <<slots, marked, calls, applied, retried, raced, misled>>
         /\ \A c \in Conns : conns'[c] = Unused
         /\ torn' = [o \in Ops |-> IF Acted(o) THEN torn[o] + 1 ELSE torn[o]]
<1>1. /\ UNCHANGED <<slots, marked, breaks, calls, applied, retried, raced, misled>>
      /\ conns' = [c \in Conns |-> Unused]
      /\ torn' = [o \in Ops |-> IF Acted(o) THEN torn[o] + 1 ELSE torn[o]]
  BY DEF Kill, Acted, histories
<1>2. kills' \in 0..MaxKills
  BY RemoteOpAssumption DEF Kill, Typed, OthersOK
<1>3. torn' \in [Ops -> Nat]
  <2> HIDE DEF Acted
  <2> QED
    BY <1>1 DEF Typed, OthersOK
<1>4. SlotsOK' /\ OthersOK'
  BY <1>1, <1>2, <1>3 DEF Typed, SlotsOK, OthersOK, InCall
<1>5. ConnsOK' /\ Beyond'
  BY <1>1, UnusedTyped DEF ConnsOK, Beyond, Busy
<1> QED
  BY <1>1, <1>4, <1>5 DEF Typed

\* Nothing changes.
LEMMA StutterTyped == Typed /\ UNCHANGED vars => Typed'
<1> SUFFICES ASSUME Typed, UNCHANGED vars PROVE Typed'
  OBVIOUS
<1>1. UNCHANGED <<slots, conns, marked, breaks, kills, calls, applied, torn, retried, raced, misled>>
  BY DEF vars, histories
<1> QED
  BY <1>1 DEF Typed, SlotsOK, ConnsOK, Beyond, OthersOK, InCall, Busy

\* Types at the start.
LEMMA InitTyped == Init => Typed
<1> SUFFICES ASSUME Init PROVE Typed
  OBVIOUS
<1> DEFINE t == [conn |-> 0, op |-> NoOp, attempt |-> 0, pc |-> "free"]
<1>1. t \in Slot /\ t.pc = "free"
  BY RemoteOpAssumption DEF Slot
<1>2. slots = [s \in Slots |-> t]
  BY DEF Init
<1> HIDE DEF t
<1>3. SlotsOK
  BY <1>1, <1>2 DEF SlotsOK, InCall
<1>4. ConnsOK /\ Beyond
  BY UnusedTyped DEF Init, ConnsOK, Beyond, Busy
<1>5. OthersOK
  <2>1. breaks \in 0..MaxBreaks /\ kills \in 0..MaxKills
    BY RemoteOpAssumption DEF Init
  <2> QED
    BY <2>1 DEF Init, OthersOK
<1> QED
  BY <1>3, <1>4, <1>5 DEF Typed

\* Every step keeps the types.
LEMMA NextTyped == Typed /\ [Next]_vars => Typed'
BY CallStep, ConnectStep, ErrorStep, SendStep, ReceiveStep, FailStep, AcceptStep, ActStep,
   AnswerStep, BreakStep, KillStep, StutterTyped, Zenon
DEF Next, ClientStep, DaemonStep

\* The types, and that a slot has one stream at a time, whatever overlaps.
THEOREM PoolTypes == Spec => []TypeOK
BY TypedIsTypeOK, InitTyped, NextTyped, PTL DEF Spec

-----------------------------------------------------------------------------
-----------------------------------------------------------------------------
(* The parts of the invariant that most steps keep for the same reason. *)

\* What is in a queue.
LEMMA QueueParts ==
  ASSUME NEW S, NEW q \in Seq(S)
  PROVE  /\ q # <<>> => Head(q) \in Elems(q) /\ Elems(Tail(q)) \subseteq Elems(q)
         /\ \A x \in S : Elems(Append(q, x)) = Elems(q) \cup {x}
         /\ q = <<>> <=> Elems(q) = {}
<1>1. q # <<>> => Head(q) = q[1] /\ 1 \in 1..Len(q)
  OBVIOUS
<1>2. ASSUME q # <<>>, NEW x \in Elems(Tail(q))
      PROVE  x \in Elems(q)
  <2>1. PICK i \in 1..Len(Tail(q)) : x = Tail(q)[i]
    BY <1>2 DEF Elems
  <2>2. i + 1 \in 1..Len(q) /\ x = q[i + 1]
    BY <1>2, <2>1
  <2> QED
    BY <2>2 DEF Elems
<1>3. ASSUME NEW x \in S
      PROVE  Elems(Append(q, x)) = Elems(q) \cup {x}
  <2>1. /\ Len(Append(q, x)) = Len(q) + 1 /\ Len(q) \in Nat /\ Append(q, x)[Len(q) + 1] = x
        /\ \A i \in 1..Len(q) : Append(q, x)[i] = q[i]
    OBVIOUS
  <2>2. 1..(Len(q) + 1) = 1..Len(q) \cup {Len(q) + 1}
    BY <2>1
  <2> QED
    BY <2>1, <2>2 DEF Elems
<1>4. q = <<>> <=> Elems(q) = {}
  <2>1. Len(<<>>) = 0 /\ 1..0 = {}
    OBVIOUS
  <2>2. q = <<>> => Elems(q) = {}
    BY <2>1 DEF Elems
  <2>3. q # <<>> => Elems(q) # {}
    BY <1>1 DEF Elems
  <2> QED
    BY <2>2, <2>3
<1> QED
  BY <1>1, <1>2, <1>3, <1>4 DEF Elems

\* The queues of connections.
LEMMA QueueOf ==
  ASSUME Typed, NEW c \in Conns
  PROVE  /\ conns[c].requests \in Seq(Ops) /\ conns[c].replies \in Seq(BOOLEAN)
         /\ conns[c].requests = <<>> <=> \A o \in Ops : ~Queued(c, o)
         /\ conns[c].requests # <<>> =>
              /\ Head(conns[c].requests) \in Ops /\ Queued(c, Head(conns[c].requests))
              /\ Elems(Tail(conns[c].requests)) \subseteq Elems(conns[c].requests)
         /\ \A o : Queued(c, o) => o \in Ops
<1>1. conns[c].requests \in Seq(Ops) /\ conns[c].replies \in Seq(BOOLEAN)
  BY DEF Typed, ConnsOK, Connection
<1>2. \A o : Queued(c, o) => o \in Ops
  <2>1. \A i \in 1..Len(conns[c].requests) : conns[c].requests[i] \in Ops
    BY <1>1
  <2> QED
    BY <2>1 DEF Queued, Elems
<1>3. /\ conns[c].requests # <<>> => Head(conns[c].requests) \in Elems(conns[c].requests)
                                     /\ Elems(Tail(conns[c].requests)) \subseteq Elems(conns[c].requests)
      /\ conns[c].requests = <<>> <=> Elems(conns[c].requests) = {}
      /\ conns[c].requests # <<>> => Head(conns[c].requests) \in Ops
  BY <1>1, QueueParts, SeqParts
<1> QED
  BY <1>1, <1>2, <1>3 DEF Queued

\* Where a connection's daemon side is empty, nothing is in flight on it.
LEMMA NothingOn ==
  ASSUME NEW k, NEW o, k = Unused \/ k = Fresh
  PROVE  /\ o \notin Elems(k.requests) /\ k.handler \notin {"checked", "acted"}
         /\ k.replies = <<>> /\ k.requests = <<>>
<1>1. Elems(<<>>) = {}
  <2>1. 1..Len(<<>>) = {}
    OBVIOUS
  <2> QED
    BY <2>1 DEF Elems
<1> QED
  BY <1>1, UnusedTyped

\* Steps of the daemon, and faults, bring nothing new in flight.
LEMMA DaemonFlight ==
  ASSUME IInv, UNCHANGED <<slots, calls, retried, misled>>,
         \A c \in Conns : \A o \in Ops : InFlight(c, o)' => InFlight(c, o)
  PROVE  Callers' /\ Untouched' /\ Single' /\ MisledAfter'
<1>1. Callers'
  BY DEF IInv, Naming, Callers, InCall
<1>2. Untouched'
  BY DEF IInv, Naming, Untouched
<1>3. Single'
  <2> SUFFICES ASSUME NEW o \in Ops \ retried
               PROVE  /\ \A c, d \in Conns : InFlight(c, o)' /\ InFlight(d, o)' => c = d
                      /\ calls[o] = "called" =>
                           \A c \in Conns : InFlight(c, o)' =>
                             \E s \in Slots : Awaits(s)' /\ slots'[s].op = o /\ c = Conn(s)'
                      /\ calls[o] \in {"ok", "refused"} /\ o \notin misled => \A c \in Conns : ~InFlight(c, o)'
    BY DEF Single, SingleOf
  <2>1. /\ \A c, d \in Conns : InFlight(c, o) /\ InFlight(d, o) => c = d
        /\ calls[o] = "called" =>
             \A c \in Conns : InFlight(c, o) =>
               \E s \in Slots : Awaits(s) /\ slots[s].op = o /\ c = Conn(s)
        /\ calls[o] \in {"ok", "refused"} /\ o \notin misled => \A c \in Conns : ~InFlight(c, o)
    BY DEF IInv, Single, SingleOf
  <2>2. \A s \in Slots : (Awaits(s)' <=> Awaits(s)) /\ Conn(s)' = Conn(s) /\ slots'[s].op = slots[s].op
    BY DEF Awaits, Conn
  <2> QED
    BY <2>1, <2>2
<1>4. MisledAfter'
  BY DEF IInv, Carrying, MisledAfter, SomeFailed
<1> QED
  BY <1>1, <1>2, <1>3, <1>4

\* The answer that a call has got stays right while the daemon works: an
\* operation that is in flight has no answer on the stream of its call.
LEMMA AnsweredAlone ==
  ASSUME IInv, NEW s \in Slots, Awaits(s), slots[s].op \notin misled, conns[Conn(s)].up,
         conns[Conn(s)].replies # <<>>, slots[s].op \notin retried, NEW d \in Conns
  PROVE  ~InFlight(d, slots[s].op)
<1> DEFINE o == slots[s].op
<1>1. /\ Typed /\ InCall(s) /\ o \in Ops /\ calls[o] = "called" /\ slots[s].conn > 0
  BY DEF IInv, Typed, SlotsOK, Naming, Callers, InCall, Awaits
<1>2. Conn(s) \in Conns
  BY <1>1, CurrentConn DEF Typed
<1> SUFFICES ASSUME InFlight(d, o) PROVE FALSE
  OBVIOUS
<1>3. PICK t \in Slots : Awaits(t) /\ slots[t].op = o /\ d = Conn(t)
  BY <1>1 DEF IInv, Single, SingleOf
<1>4. t = s
  BY <1>1, <1>3 DEF IInv, Naming, Callers, InCall, Awaits
<1>5. OneThing(Conn(s), o)
  BY DEF IInv, Carrying, Streams, StreamOf
<1>6. conns[d].requests = <<>> /\ ~Busy(d)
  BY <1>3, <1>4, <1>5 DEF OneThing
<1>7. ~Queued(d, o) /\ ~Serving(d, o)
  BY <1>1, <1>6, QueueOf DEF Serving, Busy
<1> QED
  BY <1>7 DEF InFlight

-----------------------------------------------------------------------------
(* The daemon. *)

\* A step of the daemon or a fault on one connection.
OnConn(c) ==
  /\ UNCHANGED <<slots, calls, retried, misled>> /\ marked \subseteq marked'
  /\ \A d \in Conns : d # c => conns'[d] = conns[d]
  /\ conns'[c].up => conns[c].up /\ Owes(c)
  /\ ~conns'[c].up => conns'[c].replies = <<>> \/ (~conns[c].up /\ conns'[c].replies = conns[c].replies)
  /\ \A o \in Ops : /\ InFlight(c, o)' => InFlight(c, o)
                    /\ o \in marked' => o \in marked \/ InFlight(c, o)
                    /\ Acted(o)' => Acted(o) \/ InFlight(c, o)

\* It keeps what the invariant says of calls and of the other streams.
LEMMA OnConnKeeps ==
  ASSUME IInv, NEW c \in Conns, OnConn(c),
         \A o \in Ops : OneThing(c, o) /\ conns'[c].up => OneThing(c, o)' /\ Answer(c, o)'
  PROVE  Naming' /\ Single' /\ Carrying' /\ OkMarked'
<1>1. Typed
  BY DEF IInv
<1>2. \A d \in Conns : d # c => (\A o \in Ops : InFlight(d, o)' <=> InFlight(d, o)) /\ conns'[d] = conns[d]
  BY DEF OnConn, InFlight, Queued, Serving
<1>3. Callers' /\ Untouched' /\ Single' /\ MisledAfter'
  <2>1. \A d \in Conns : \A o \in Ops : InFlight(d, o)' => InFlight(d, o)
    BY <1>2 DEF OnConn
  <2> QED
    BY <2>1, DaemonFlight DEF OnConn
<1>4. \A s \in Slots : (Awaits(s)' <=> Awaits(s)) /\ Conn(s)' = Conn(s) /\ slots'[s] = slots[s]
  BY DEF OnConn, Awaits, Conn
<1>5. Current'
  BY <1>2 DEF OnConn, IInv, Naming, Current
<1>6. Silent'
  <2> SUFFICES ASSUME NEW s \in Slots, slots[s].conn > 0, ~conns'[Conn(s)].up
               PROVE  conns'[Conn(s)].replies = <<>>
    BY <1>4 DEF Silent
  <2>1. ~conns[Conn(s)].up => conns[Conn(s)].replies = <<>>
    BY DEF IInv, Naming, Silent
  <2>2. Conn(s) \in Conns
    BY <1>1, CurrentConn DEF Typed
  <2>3. CASE Conn(s) = c
    BY <2>1, <2>3 DEF OnConn
  <2>4. CASE Conn(s) # c
    BY <1>2, <2>1, <2>2, <2>4
  <2> QED
    BY <2>3, <2>4
<1>7. Streams'
  <2> SUFFICES ASSUME NEW s \in Slots, NEW o, NEW e, o = slots[s].op, e = Conn(s),
                      Awaits(s), o \notin misled, conns'[e].up
               PROVE  OneThing(e, o)' /\ Answer(e, o)'
    BY <1>4 DEF Streams, StreamOf, OnConn, OneThing, Answer, Busy, Acted
  <2>1. o \in Ops /\ slots[s].conn > 0
    BY <1>1 DEF Typed, SlotsOK, InCall, Awaits
  <2>2. e \in Conns
    BY <1>1, <2>1, CurrentConn DEF Typed
  <2>3. conns[e].up
    BY <1>2, <2>2 DEF OnConn
  <2>4. OneThing(e, o) /\ Answer(e, o)
    BY <2>3 DEF IInv, Carrying, Streams, StreamOf
  <2>5. CASE e = c
    BY <1>4, <2>1, <2>4, <2>5
  <2>6. CASE e # c
    <3>1. conns'[e] = conns[e]
      BY <1>2, <2>2, <2>6
    <3>2. OneThing(e, o)'
      BY <2>4, <3>1 DEF OneThing, Busy
    <3>3. conns[e].replies # <<>> /\ o \notin retried => ~InFlight(c, o)
      BY <2>3, AnsweredAlone
    <3>4. <<TRUE>> # <<>> /\ <<FALSE>> # <<>>
      OBVIOUS
    <3>5. /\ o \in marked => o \in marked'
          /\ o \in marked' => o \in marked \/ InFlight(c, o)
          /\ Acted(o)' => Acted(o) \/ InFlight(c, o)
          /\ retried' = retried
      BY <2>1 DEF OnConn
    <3>6. Answer(e, o)'
      BY <2>4, <3>1, <3>3, <3>4, <3>5, Zenon DEF Answer
    <3> QED
      BY <3>2, <3>6
  <2> QED
    BY <2>5, <2>6
<1>8. Settled'
  <2> SUFFICES ASSUME ~SomeFailed, NEW s \in Slots, slots[s].conn > 0, ~Awaits(s), conns'[Conn(s)].up
               PROVE  ~Owes(Conn(s))'
    BY <1>4 DEF Settled, SettledOf, SomeFailed, OnConn
  <2>1. Conn(s) \in Conns
    BY <1>1, CurrentConn DEF Typed
  <2>2. conns[Conn(s)].up
    BY <1>2, <2>1 DEF OnConn
  <2>3. ~Owes(Conn(s))
    BY <2>2 DEF IInv, Carrying, Settled, SettledOf
  <2>4. Conn(s) # c
    BY <2>3 DEF OnConn
  <2> QED
    BY <1>2, <1>4, <2>1, <2>3, <2>4 DEF Owes
<1>9. OkMarked'
  BY DEF IInv, Effects, OkMarked, OnConn
<1> QED
  BY <1>3, <1>5, <1>6, <1>7, <1>8, <1>9 DEF Naming, Carrying

\* A stream on which the operation is being served, or has just been answered.
LEMMA QuietStream ==
  ASSUME NEW c, NEW o, conns'[c].requests = <<>>, conns'[c].request = o, conns'[c].replies = <<>>
  PROVE  OneThing(c, o)' /\ Answer(c, o)'
<1>1. Len(<<>>) <= 1 /\ <<>> # <<TRUE>> /\ <<>> # <<FALSE>>
  OBVIOUS
<1>2. Len(conns'[c].replies) <= 1
  BY <1>1
<1>3. conns'[c].replies # <<TRUE>> /\ conns'[c].replies # <<FALSE>>
  BY <1>1
<1> QED
  BY <1>2, <1>3 DEF OneThing, Answer

LEMMA OneAnswer ==
  ASSUME NEW c, NEW o, NEW ok \in BOOLEAN, conns'[c].requests = <<>>, conns'[c].handler = "idle",
         conns'[c].replies = Append(<<>>, ok),
         ok => o \in marked', ~ok => (o \notin retried' => o \notin marked' /\ ~Acted(o)')
  PROVE  OneThing(c, o)' /\ Answer(c, o)'
<1>1. Append(<<>>, ok) = <<ok>> /\ Len(Append(<<>>, ok)) = 1
  <2>1. <<>> \in Seq(BOOLEAN)
    OBVIOUS
  <2> QED
    BY <2>1, SeqParts
<1>2. Len(conns'[c].replies) = 1
  BY <1>1
<1>3. Len(conns'[c].replies) <= 1 /\ ~Busy(c)'
  BY <1>2 DEF Busy
<1>4. OneThing(c, o)'
  BY <1>3 DEF OneThing
<1>5. conns'[c].replies = <<ok>>
  BY <1>1
<1>6. (<<ok>> = <<TRUE>> => ok) /\ (<<ok>> = <<FALSE>> => ~ok)
  OBVIOUS
<1>7. Answer(c, o)'
  BY <1>5, <1>6 DEF Answer
<1> QED
  BY <1>4, <1>7

\* A handler takes a request.
LEMMA AcceptKeeps ==
  ASSUME IInv, NEW c \in Conns, Accept(c)
  PROVE  IInv'
<1> DEFINE r == Head(conns[c].requests)
<1>1. /\ Typed /\ Typed' /\ UNCHANGED <<slots, marked, calls, applied, torn, retried, misled>>
      /\ raced' = IF r \notin marked /\ \E d \in Conns : Serving(d, r) THEN raced \cup {r} ELSE raced
      /\ conns[c].handler = "idle" /\ conns[c].requests # <<>> /\ r \in Ops
      /\ \A d \in Conns : d # c => conns'[d] = conns[d]
  BY AcceptStep DEF IInv
<1>2. conns[c].up =>
        /\ conns'[c].up /\ conns'[c].requests = Tail(conns[c].requests)
        /\ r \notin marked => conns'[c].handler = "checked" /\ conns'[c].request = r
                              /\ conns'[c].replies = conns[c].replies
        /\ r \in marked => conns'[c].handler = "idle" /\ conns'[c].replies = Append(conns[c].replies, TRUE)
  BY AcceptStep DEF IInv
<1>3. ~conns[c].up =>
        /\ ~conns'[c].up
        /\ r \notin marked => conns'[c].handler = "checked" /\ conns'[c].request = r
             /\ conns'[c].requests = Tail(conns[c].requests) /\ conns'[c].replies = conns[c].replies
        /\ r \in marked => conns'[c] = Unused
  BY AcceptStep DEF IInv
<1>4. /\ \A o \in Ops : Queued(c, o)' => Queued(c, o)
      /\ Queued(c, r)
  <2>1. Queued(c, r) /\ Elems(Tail(conns[c].requests)) \subseteq Elems(conns[c].requests)
    BY <1>1, QueueOf
  <2>2. conns'[c].requests = Tail(conns[c].requests) \/ conns'[c] = Unused
    BY <1>2, <1>3
  <2> QED
    BY <2>1, <2>2, NothingOn DEF Queued
<1>5. /\ \A o : Serving(c, o)' => o = r /\ r \notin marked
      /\ \A o : ~Serving(c, o)
      /\ \A d \in Conns : \A o : d # c => (Serving(d, o)' <=> Serving(d, o))
  <2>1. Serving(c, r)' => r \notin marked
    BY <1>2, <1>3, UnusedTyped DEF Serving
  <2> QED
    BY <1>1, <1>2, <1>3, <2>1, UnusedTyped DEF Serving
<1>6. \A o \in Ops : Acted(o)' => Acted(o)
  BY <1>1, <1>2, <1>3, UnusedTyped DEF Acted
<1>7. \A o \in Ops : Acted(o) => Acted(o)'
  BY <1>1 DEF Acted
<1>8. OnConn(c)
  <2>1. \A o \in Ops : InFlight(c, o)' => InFlight(c, o)
    BY <1>4, <1>5 DEF InFlight
  <2>2. conns'[c].up => conns[c].up /\ Owes(c)
    BY <1>1, <1>3 DEF Owes
  <2>3. ~conns'[c].up => conns'[c].replies = <<>> \/ (~conns[c].up /\ conns'[c].replies = conns[c].replies)
    BY <1>2, <1>3, UnusedTyped
  <2> QED
    BY <1>1, <1>6, <2>1, <2>2, <2>3 DEF OnConn
<1>9. ASSUME NEW o \in Ops, OneThing(c, o), conns'[c].up
      PROVE  OneThing(c, o)' /\ Answer(c, o)'
  <2>1. conns[c].requests = <<o>> /\ conns[c].replies = <<>> /\ conns[c].up
    BY <1>1, <1>3, <1>9 DEF OneThing
  <2>2. r = o /\ Tail(conns[c].requests) = <<>>
    BY <2>1
  <2>3. CASE o \notin marked
    <3>1. conns'[c].requests = <<>> /\ conns'[c].handler = "checked" /\ conns'[c].request = o /\ conns'[c].replies = <<>>
      BY <1>2, <2>1, <2>2, <2>3
    <3> QED
      BY <3>1, QuietStream
  <2>4. CASE o \in marked
    <3>1. conns'[c].requests = <<>> /\ conns'[c].handler = "idle"
      BY <1>2, <2>2, <2>4, <2>1
    <3>2. conns'[c].replies = Append(<<>>, TRUE)
      BY <1>2, <2>1, <2>2, <2>4
    <3> QED
      BY <1>1, <2>4, <3>1, <3>2, OneAnswer
  <2> QED
    BY <2>3, <2>4
<1>10. Naming' /\ Single' /\ Carrying' /\ OkMarked'
  BY <1>8, <1>9, OnConnKeeps
<1>11. raced \subseteq raced'
  BY <1>1
<1>12. Meetings'
  <2>1. raced \subseteq retried
    BY DEF IInv, Meetings
  <2>2. ASSUME NEW d \in Conns, Serving(d, r)
        PROVE  r \in retried
    <3>1. InFlight(d, r) /\ InFlight(c, r) /\ d # c
      BY <1>4, <1>5, <2>2 DEF InFlight
    <3> QED
      BY <1>1, <3>1 DEF IInv, Single, SingleOf
  <2>3. raced' \subseteq retried
    BY <1>1, <2>1, <2>2
  <2>4. ASSUME NEW o \in Ops \ raced', NEW d \in Conns, NEW e \in Conns, Serving(d, o)', Serving(e, o)'
        PROVE  d = e
    <3>1. o \notin raced
      BY <1>11, <2>4
    <3>2. Serving(d, o) /\ Serving(e, o) => d = e
      BY <3>1 DEF IInv, Meetings
    <3>3. \A x \in Conns : Serving(x, r) /\ r \notin marked => r \in raced'
      BY <1>1
    <3> QED
      BY <1>5, <2>4, <3>2, <3>3
  <2>5. ASSUME NEW o \in Ops \ raced', o \in marked, NEW d \in Conns
        PROVE  ~Serving(d, o)'
    <3>1. ~Serving(d, o)
      BY <1>11, <2>5 DEF IInv, Meetings
    <3> QED
      BY <1>5, <2>5, <3>1
  <2> QED
    BY <1>1, <2>3, <2>4, <2>5 DEF Meetings
<1>13. Accounts'
  <2>1. \A o \in Ops : Acted(o)' <=> Acted(o)
    BY <1>6, <1>7
  <2>2. ASSUME NEW o \in Ops
        PROVE  /\ o \notin raced' => applied'[o] = torn'[o] + (IF o \in marked' \/ Acted(o)' THEN 1 ELSE 0)
               /\ o \in marked' \/ Acted(o)' => applied'[o] > 0
    <3>1. /\ o \notin raced => applied[o] = torn[o] + (IF o \in marked \/ Acted(o) THEN 1 ELSE 0)
          /\ o \in marked \/ Acted(o) => applied[o] > 0
      BY DEF IInv, Effects, Accounts
    <3> QED
      BY <1>1, <1>11, <2>1, <3>1
  <2> QED
    BY <2>2 DEF Accounts
<1> QED
  BY <1>1, <1>10, <1>12, <1>13 DEF IInv, Effects

\* The effect of an operation.
LEMMA ActKeeps ==
  ASSUME IInv, NEW c \in Conns, Act(c)
  PROVE  IInv'
<1> DEFINE r == conns[c].request
<1>1. /\ Typed /\ Typed' /\ UNCHANGED <<slots, marked, calls, torn, retried, raced, misled>>
      /\ conns[c].handler = "checked" /\ r \in Ops /\ applied' = [applied EXCEPT ![r] = @ + 1]
      /\ \A d \in Conns : d # c => conns'[d] = conns[d]
      /\ conns'[c].handler = "acted" /\ conns'[c].request = r
      /\ conns'[c].up = conns[c].up /\ conns'[c].requests = conns[c].requests
      /\ conns'[c].replies = conns[c].replies
  BY ActStep DEF IInv
<1>2. /\ \A d \in Conns : \A o : Serving(d, o)' <=> Serving(d, o)
      /\ Serving(c, r) /\ InFlight(c, r)
      /\ \A o : InFlight(c, o)' <=> InFlight(c, o)
  BY <1>1 DEF Serving, InFlight, Queued
<1>3. /\ Acted(r)' /\ \A o \in Ops : o # r => (Acted(o)' <=> Acted(o))
      /\ r \notin raced => ~Acted(r)
  <2>1. Acted(r)'
    BY <1>1 DEF Acted
  <2>2. \A o \in Ops : o # r => (Acted(o)' <=> Acted(o))
    BY <1>1 DEF Acted
  <2>3. ASSUME r \notin raced, NEW d \in Conns, conns[d].handler = "acted", conns[d].request = r
        PROVE  FALSE
    <3>1. Serving(d, r) /\ d # c
      BY <1>1, <2>3 DEF Serving
    <3> QED
      BY <1>1, <1>2, <2>3, <3>1 DEF IInv, Meetings
  <2> QED
    BY <2>1, <2>2, <2>3 DEF Acted
<1>4. OnConn(c)
  BY <1>1, <1>2, <1>3 DEF OnConn, Owes
<1>5. ASSUME NEW o \in Ops, OneThing(c, o), conns'[c].up
      PROVE  OneThing(c, o)' /\ Answer(c, o)'
  <2>1. conns[c].request = o /\ conns[c].replies = <<>> /\ conns[c].requests = <<>>
    BY <1>1, <1>5 DEF OneThing, Busy
  <2> QED
    BY <1>1, <2>1, QuietStream
<1>6. Naming' /\ Single' /\ Carrying' /\ OkMarked'
  BY <1>4, <1>5, OnConnKeeps
<1>7. Meetings'
  BY <1>1, <1>2 DEF IInv, Meetings
<1>8. Accounts'
  <2>1. ASSUME NEW o \in Ops
        PROVE  /\ o \notin raced' => applied'[o] = torn'[o] + (IF o \in marked' \/ Acted(o)' THEN 1 ELSE 0)
               /\ o \in marked' \/ Acted(o)' => applied'[o] > 0
    <3>1. /\ o \notin raced => applied[o] = torn[o] + (IF o \in marked \/ Acted(o) THEN 1 ELSE 0)
          /\ o \in marked \/ Acted(o) => applied[o] > 0
      BY DEF IInv, Effects, Accounts
    <3>2. applied[o] \in Nat /\ torn[o] \in Nat /\ applied'[o] = IF o = r THEN applied[o] + 1 ELSE applied[o]
      BY <1>1 DEF Typed, OthersOK
    <3>3. r \notin raced => r \notin marked
      BY <1>1, <1>2 DEF IInv, Meetings
    <3>4. CASE o = r
      BY <1>1, <1>3, <3>1, <3>2, <3>3, <3>4
    <3>5. CASE o # r
      BY <1>1, <1>3, <3>1, <3>2, <3>5
    <3> QED
      BY <3>4, <3>5
  <2> QED
    BY <2>1 DEF Accounts
<1> QED
  BY <1>1, <1>6, <1>7, <1>8 DEF IInv, Effects

\* A handler ends its work on an operation and answers.
LEMMA AnswerKeeps ==
  ASSUME IInv, NEW c \in Conns, Refuse(c) \/ Mark(c) \/ MarkFails(c)
  PROVE  IInv'
<1>0. PICK r : r = conns[c].request
  OBVIOUS
<1> DEFINE ok == IF Mark(c) THEN TRUE ELSE FALSE
<1>1. /\ Typed /\ Typed' /\ UNCHANGED <<slots, calls, applied, retried, raced, misled>>
      /\ Busy(c) /\ r \in Ops /\ ok \in BOOLEAN
      /\ \A d \in Conns : d # c => conns'[d] = conns[d]
  BY <1>0, AnswerStep DEF IInv
<1>2. /\ Refuse(c) => conns[c].handler = "checked" /\ marked' = marked /\ torn' = torn
      /\ Mark(c) => conns[c].handler = "acted" /\ marked' = marked \cup {r} /\ torn' = torn
      /\ MarkFails(c) => ~Mark(c) /\ conns[c].handler = "acted" /\ marked' = marked
                         /\ torn' = [torn EXCEPT ![r] = @ + 1]
  BY <1>0, AnswerStep DEF IInv
<1>3. /\ ~conns[c].up => conns'[c] = Unused
      /\ conns[c].up =>
           /\ conns'[c].up /\ conns'[c].handler = "idle" /\ conns'[c].requests = conns[c].requests
           /\ conns'[c].replies = Append(conns[c].replies, ok)
  BY <1>0, AnswerStep DEF IInv
<1>4. conns'[c].handler \in {"idle", "ended"} /\ (~conns[c].up => ~conns'[c].up)
  <2>1. Unused.up = FALSE /\ Unused.handler = "ended"
    BY DEF Unused
  <2> QED
    BY <1>3, <2>1
<1>5. /\ \A o : ~Serving(c, o)'
      /\ \A d \in Conns : \A o : d # c => (Serving(d, o)' <=> Serving(d, o))
      /\ Serving(c, r) /\ InFlight(c, r)
  BY <1>0, <1>1, <1>4 DEF Serving, Busy, InFlight
<1>6. \A o : InFlight(c, o)' => InFlight(c, o)
  <2>1. \A o : Queued(c, o)' => Queued(c, o)
    BY <1>1, <1>3, NothingOn DEF Queued, Typed, ConnsOK, Connection
  <2> QED
    BY <1>5, <2>1 DEF InFlight
<1>7. \A o \in Ops : /\ Acted(o)' => Acted(o)
                     /\ o # r => (Acted(o)' <=> Acted(o))
  BY <1>0, <1>1, <1>4 DEF Acted
<1>8. marked \subseteq marked' /\ marked' \subseteq marked \cup {r} /\ (ok => r \in marked') /\ (~ok => marked' = marked)
  BY <1>2
<1>9. r \notin raced => r \notin marked /\ ~Acted(r)'
  <2>1. r \notin raced => r \notin marked
    BY <1>1, <1>5 DEF IInv, Meetings
  <2>2. ASSUME r \notin raced, NEW d \in Conns, conns'[d].handler = "acted", conns'[d].request = r
        PROVE  FALSE
    <3>1. d # c /\ Serving(d, r)
      BY <1>4, <1>5, <2>2 DEF Serving
    <3> QED
      BY <1>1, <1>5, <2>2, <3>1 DEF IInv, Meetings
  <2> QED
    BY <2>1, <2>2 DEF Acted
<1>10. OnConn(c)
  <2>1. conns'[c].up => conns[c].up /\ Owes(c)
    BY <1>1, <1>4 DEF Owes, Busy
  <2>2. ~conns'[c].up => conns'[c].replies = <<>>
    BY <1>1, <1>3, UnusedTyped
  <2>3. \A o \in Ops : o \in marked' => o \in marked \/ InFlight(c, o)
    BY <1>5, <1>8
  <2> QED
    BY <1>1, <1>6, <1>7, <1>8, <2>1, <2>2, <2>3 DEF OnConn
<1>11. ASSUME NEW o \in Ops, OneThing(c, o), conns'[c].up
       PROVE  OneThing(c, o)' /\ Answer(c, o)'
  <2>1. conns[c].request = o /\ conns[c].replies = <<>> /\ conns[c].requests = <<>> /\ conns[c].up
    BY <1>1, <1>4, <1>11 DEF OneThing
  <2>2. raced \subseteq retried
    BY DEF IInv, Meetings
  <2>3. /\ conns'[c].requests = <<>> /\ conns'[c].handler = "idle"
        /\ conns'[c].replies = Append(<<>>, ok)
    BY <1>3, <2>1
  <2>4. ok => o \in marked'
    BY <1>0, <1>8, <2>1
  <2>5. ~ok => (o \notin retried' => o \notin marked' /\ ~Acted(o)')
    BY <1>0, <1>1, <1>8, <1>9, <2>1, <2>2
  <2> HIDE DEF ok
  <2> QED
    BY <1>1, <2>3, <2>4, <2>5, OneAnswer
<1>12. Naming' /\ Single' /\ Carrying' /\ OkMarked'
  BY <1>10, <1>11, OnConnKeeps
<1>13. Meetings'
  <2>1. ASSUME NEW o \in Ops \ raced, NEW d \in Conns, o \in marked', Serving(d, o)'
        PROVE  FALSE
    <3>1. Serving(d, o) /\ d # c
      BY <1>5, <2>1
    <3>2. o \notin marked
      BY <2>1, <3>1 DEF IInv, Meetings
    <3>3. o = r
      BY <1>8, <2>1, <3>2
    <3> QED
      BY <1>5, <2>1, <3>1, <3>3 DEF IInv, Meetings
  <2>2. ASSUME NEW o \in Ops \ raced, NEW d \in Conns, NEW e \in Conns, Serving(d, o)', Serving(e, o)'
        PROVE  d = e
    <3>1. Serving(d, o) /\ Serving(e, o)
      BY <1>5, <2>2
    <3> QED
      BY <3>1 DEF IInv, Meetings
  <2> QED
    BY <1>1, <2>1, <2>2 DEF IInv, Meetings
<1>14. Accounts'
  <2>1. ASSUME NEW o \in Ops
        PROVE  /\ o \notin raced' => applied'[o] = torn'[o] + (IF o \in marked' \/ Acted(o)' THEN 1 ELSE 0)
               /\ o \in marked' \/ Acted(o)' => applied'[o] > 0
    <3>1. /\ o \notin raced => applied[o] = torn[o] + (IF o \in marked \/ Acted(o) THEN 1 ELSE 0)
          /\ o \in marked \/ Acted(o) => applied[o] > 0
      BY DEF IInv, Effects, Accounts
    <3>2. applied[o] \in Nat /\ torn[o] \in Nat /\ applied' = applied /\ raced' = raced
      BY <1>1 DEF Typed, OthersOK
    <3>3. conns[c].handler = "acted" => Acted(r)
      BY <1>0 DEF Acted
    <3>4. conns[c].handler = "checked" => (Acted(r)' <=> Acted(r))
      BY <1>0, <1>1, <1>4 DEF Acted
    <3>5. CASE o # r
      BY <1>1, <1>2, <1>7, <3>1, <3>2, <3>5 DEF Typed, OthersOK
    <3>6. CASE o = r /\ Refuse(c)
      BY <1>2, <3>1, <3>2, <3>4, <3>6
    <3>7. CASE o = r /\ Mark(c)
      BY <1>2, <1>9, <3>1, <3>2, <3>3, <3>7
    <3>8. CASE o = r /\ MarkFails(c)
      <4>1. torn'[o] = torn[o] + 1 /\ marked' = marked /\ Acted(o)
        BY <1>1, <1>2, <3>3, <3>8 DEF Typed, OthersOK
      <4> QED
        BY <1>7, <1>9, <3>1, <3>2, <3>8, <4>1
    <3> QED
      BY <3>5, <3>6, <3>7, <3>8
  <2> QED
    BY <2>1 DEF Accounts
<1> QED
  BY <1>1, <1>12, <1>13, <1>14 DEF IInv, Effects

\* A connection breaks.
LEMMA BreakKeeps ==
  ASSUME IInv, NEW c \in Conns, Break(c)
  PROVE  IInv'
<1>1. /\ Typed /\ Typed' /\ UNCHANGED <<slots, marked, calls, applied, torn, retried, raced, misled>>
      /\ conns[c].up /\ conns'[c].up = FALSE
      /\ \A d \in Conns : d # c => conns'[d] = conns[d]
      /\ conns'[c].handler = conns[c].handler /\ conns'[c].request = conns[c].request
      /\ conns'[c].replies = <<>>
      /\ conns'[c].requests = conns[c].requests \/ conns'[c].requests = <<>>
  BY BreakStep DEF IInv
<1>2. \A d \in Conns : \A o : Serving(d, o)' <=> Serving(d, o)
  BY <1>1 DEF Serving
<1>3. \A o : InFlight(c, o)' => InFlight(c, o)
  <2>1. Elems(<<>>) = {}
    <3>1. Unused.requests = <<>>
      BY UnusedTyped
    <3> QED
      BY <3>1, NothingOn
  <2>2. \A o : Queued(c, o)' => Queued(c, o)
    BY <1>1, <2>1 DEF Queued
  <2> QED
    BY <1>2, <2>2 DEF InFlight
<1>4. \A o : Acted(o)' <=> Acted(o)
  BY <1>1 DEF Acted
<1>5. OnConn(c)
  BY <1>1, <1>3, <1>4 DEF OnConn
<1>6. Naming' /\ Single' /\ Carrying' /\ OkMarked'
  BY <1>1, <1>5, OnConnKeeps
<1>7. Meetings'
  BY <1>1, <1>2 DEF IInv, Meetings
<1>8. Accounts'
  BY <1>1, <1>4 DEF IInv, Effects, Accounts
<1> QED
  BY <1>1, <1>6, <1>7, <1>8 DEF IInv, Effects

\* The daemon is killed: nothing is in flight any more.
LEMMA KillKeeps ==
  ASSUME IInv, Kill
  PROVE  IInv'
<1>1. /\ Typed /\ Typed' /\ UNCHANGED <<slots, marked, calls, applied, retried, raced, misled>>
      /\ \A c \in Conns : conns'[c] = Unused
      /\ torn' = [o \in Ops |-> IF Acted(o) THEN torn[o] + 1 ELSE torn[o]]
  BY KillStep DEF IInv
<1>2. \A c \in Conns : /\ conns'[c].up = FALSE /\ conns'[c].replies = <<>>
                       /\ \A o : ~InFlight(c, o)' /\ ~Serving(c, o)'
  <2>1. Unused.up = FALSE
    BY DEF Unused
  <2> QED
    BY <1>1, <2>1, NothingOn DEF InFlight, Queued, Serving
<1>3. \A o : ~Acted(o)'
  BY <1>1, UnusedTyped DEF Acted
<1>4. Callers' /\ Untouched' /\ Single' /\ MisledAfter'
  BY <1>1, <1>2, DaemonFlight
<1>5. \A s \in Slots : slots'[s].conn > 0 => Conn(s)' \in Conns
  <2>1. SlotsOK /\ slots' = slots
    BY <1>1 DEF Typed
  <2>2. \A s \in Slots : Conn(s)' = Conn(s)
    BY <2>1 DEF Conn
  <2> QED
    BY <2>1, <2>2, CurrentConn
<1>6. Current' /\ Silent' /\ Settled'
  BY <1>2, <1>5 DEF Current, Silent, Settled, SettledOf
<1>7. Streams'
  <2>1. \A s \in Slots : Awaits(s)' => slots'[s].conn > 0
    BY <1>1 DEF Typed, SlotsOK, Awaits
  <2> QED
    BY <1>2, <1>5, <2>1 DEF Streams, StreamOf
<1>8. OkMarked'
  BY <1>1 DEF IInv, Effects, OkMarked
<1>9. Meetings'
  BY <1>1, <1>2 DEF IInv, Meetings
<1>10. Accounts'
  <2>1. ASSUME NEW o \in Ops
        PROVE  /\ o \notin raced' => applied'[o] = torn'[o] + (IF o \in marked' \/ Acted(o)' THEN 1 ELSE 0)
               /\ o \in marked' \/ Acted(o)' => applied'[o] > 0
    <3>1. /\ o \notin raced => applied[o] = torn[o] + (IF o \in marked \/ Acted(o) THEN 1 ELSE 0)
          /\ o \in marked \/ Acted(o) => applied[o] > 0
      BY DEF IInv, Effects, Accounts
    <3>2. /\ applied[o] \in Nat /\ torn[o] \in Nat
          /\ torn'[o] = IF Acted(o) THEN torn[o] + 1 ELSE torn[o]
      BY <1>1 DEF Typed, OthersOK
    <3>3. o \notin raced /\ Acted(o) => o \notin marked
      <4>1. Acted(o) => \E c \in Conns : Serving(c, o)
        BY DEF Acted, Serving
      <4> QED
        BY <4>1 DEF IInv, Meetings
    <3> QED
      BY <1>1, <1>3, <3>1, <3>2, <3>3
  <2> QED
    BY <2>1 DEF Accounts
<1> QED
  BY <1>1, <1>4, <1>6, <1>7, <1>8, <1>9, <1>10 DEF IInv, Naming, Carrying, Effects

-----------------------------------------------------------------------------
(* The client. *)

\* A step of the call of operation x in slot s, from its start to its end, that
\* leaves the other slots and what is in flight for other operations alone.
OnSlot(s, x) ==
  /\ \A u \in Slots : u # s => slots'[u] = slots[u]
  /\ InCall(s) => slots[s].op = x
  /\ ~InCall(s) => calls[x] = "idle"
  /\ InCall(s)' => slots'[s].op = x /\ calls'[x] = "called"
  /\ calls'[x] # "idle"
  /\ \A o \in Ops : o # x => calls'[o] = calls[o] /\ \A c \in Conns : InFlight(c, o)' <=> InFlight(c, o)
  /\ \A c \in Conns : c[1] # s => conns'[c] = conns[c]
  /\ UNCHANGED <<marked, applied, torn, raced>>
  /\ retried \subseteq retried' /\ misled \subseteq misled' /\ misled' \subseteq misled \cup {x}
  /\ \A c \in Conns : \A o : Serving(c, o)' <=> Serving(c, o)
  /\ \A o : Acted(o)' <=> Acted(o)

LEMMA OnSlotKeeps ==
  ASSUME IInv, Typed', NEW s \in Slots, NEW x \in Ops, OnSlot(s, x),
         \A c \in Conns : c[1] = s /\ conns'[c].up => c[2] = slots'[s].conn,
         slots'[s].conn > 0 /\ ~conns'[Conn(s)'].up => conns'[Conn(s)'].replies = <<>>,
         x \in retried' \/ SingleOf(x)', StreamOf(s)', SomeFailed' \/ SettledOf(s)',
         misled' # {} => SomeFailed', calls'[x] = "ok" /\ x \notin misled' => x \in marked
  PROVE  IInv'
<1>1. Typed
  BY DEF IInv
<1>2. \A u \in Slots : u # s => /\ (Awaits(u)' <=> Awaits(u)) /\ (InCall(u)' <=> InCall(u))
                                /\ Conn(u)' = Conn(u) /\ slots'[u] = slots[u]
  BY DEF OnSlot, Awaits, InCall, Conn
<1>3. \A u \in Slots : u # s /\ InCall(u) => slots[u].op # x /\ slots[u].op \in Ops
  BY <1>1 DEF IInv, Naming, Callers, OnSlot, Typed, SlotsOK
<1>4. Callers'
  <2>1. \A u \in Slots : InCall(u)' => calls'[slots'[u].op] = "called"
    BY <1>2, <1>3 DEF OnSlot, IInv, Naming, Callers
  <2>2. ASSUME NEW u \in Slots, NEW t \in Slots, InCall(u)', InCall(t)', slots'[u].op = slots'[t].op
        PROVE  u = t
    <3>1. CASE u # s /\ t # s
      BY <1>2, <2>2, <3>1 DEF IInv, Naming, Callers
    <3>2. CASE u = s \/ t = s
      BY <1>2, <1>3, <2>2, <3>2 DEF OnSlot
    <3> QED
      BY <3>1, <3>2
  <2> QED
    BY <2>1, <2>2 DEF Callers
<1>5. Untouched'
  BY DEF IInv, Naming, Untouched, OnSlot
<1>6. \A u \in Slots : u # s /\ slots[u].conn > 0 =>
         Conn(u) \in Conns /\ Conn(u)[1] = u /\ conns'[Conn(u)] = conns[Conn(u)]
  BY <1>1, CurrentConn DEF Typed, OnSlot
<1>7. Current'
  BY <1>2, ConnIsPair DEF IInv, Naming, Current, OnSlot
<1>8. Silent'
  <2> SUFFICES ASSUME NEW u \in Slots, slots'[u].conn > 0, ~conns'[Conn(u)'].up
               PROVE  conns'[Conn(u)'].replies = <<>>
    BY DEF Silent
  <2>1. CASE u = s
    BY <2>1
  <2>2. CASE u # s
    BY <1>2, <1>6, <2>2 DEF IInv, Naming, Silent
  <2> QED
    BY <2>1, <2>2
<1>9. Single'
  <2> SUFFICES ASSUME NEW o \in Ops, o \notin retried' PROVE SingleOf(o)'
    BY DEF Single
  <2>1. CASE o = x
    BY <2>1
  <2>2. CASE o # x
    <3>1. SingleOf(o) /\ calls'[o] = calls[o] /\ \A c \in Conns : InFlight(c, o)' <=> InFlight(c, o)
      BY <2>2 DEF IInv, Single, OnSlot
    <3>2. o \notin misled' => o \notin misled
      BY DEF OnSlot
    <3>3. \A u \in Slots : Awaits(u) /\ slots[u].op = o =>
             Awaits(u)' /\ slots'[u].op = o /\ Conn(u)' = Conn(u)
      <4>1. ~(Awaits(s) /\ slots[s].op = o)
        BY <2>2 DEF OnSlot, Awaits, InCall
      <4> QED
        BY <1>2, <4>1
    <3> QED
      BY <3>1, <3>2, <3>3 DEF SingleOf
  <2> QED
    BY <2>1, <2>2
<1>10. Streams'
  <2> SUFFICES ASSUME NEW u \in Slots, u # s PROVE StreamOf(u)'
    BY DEF Streams
  <2> SUFFICES ASSUME NEW o, NEW e, o = slots[u].op, e = Conn(u), Awaits(u), o \notin misled', conns'[e].up
               PROVE  OneThing(e, o)' /\ Answer(e, o)'
    BY <1>2 DEF StreamOf, OneThing, Answer, Busy, Acted
  <2>1. slots[u].conn > 0
    BY <1>1 DEF Typed, SlotsOK, Awaits
  <2>2. conns'[e] = conns[e] /\ o \notin misled /\ marked' = marked /\ (Acted(o)' <=> Acted(o))
        /\ retried \subseteq retried'
    BY <1>6, <2>1 DEF OnSlot
  <2>3. OneThing(e, o) /\ Answer(e, o)
    BY <2>2 DEF IInv, Carrying, Streams, StreamOf
  <2>4. OneThing(e, o)'
    BY <2>2, <2>3 DEF OneThing, Busy
  <2>5. Answer(e, o)'
    BY <2>2, <2>3 DEF Answer
  <2> QED
    BY <2>4, <2>5
<1>11. SomeFailed => SomeFailed'
  <2>1. calls[x] # "failed"
    BY DEF OnSlot, IInv, Naming, Callers
  <2> QED
    BY <2>1 DEF SomeFailed, OnSlot
<1>12. Settled'
  <2> SUFFICES ASSUME ~SomeFailed', NEW u \in Slots, u # s PROVE SettledOf(u)'
    BY DEF Settled
  <2>1. SettledOf(u)
    BY <1>11 DEF IInv, Carrying, Settled
  <2> QED
    BY <1>2, <1>6, <2>1 DEF SettledOf, Owes
<1>13. MisledAfter' /\ OkMarked'
  BY DEF MisledAfter, OkMarked, IInv, Effects, OnSlot
<1>14. Meetings'
  BY DEF IInv, Meetings, OnSlot
<1>15. Accounts'
  BY DEF IInv, Effects, Accounts, OnSlot
<1> QED
  BY <1>4, <1>5, <1>7, <1>8, <1>9, <1>10, <1>12, <1>13, <1>14, <1>15
  DEF IInv, Naming, Carrying, Effects

\* Where no connection changes, nor does what is in flight.
LEMMA SameConns ==
  ASSUME conns' = conns
  PROVE  /\ \A c \in Conns : \A o : /\ (InFlight(c, o)' <=> InFlight(c, o))
                                    /\ (Serving(c, o)' <=> Serving(c, o))
         /\ \A o : Acted(o)' <=> Acted(o)
BY DEF InFlight, Queued, Serving, Acted

\* A call that is not waiting, of an operation that was not retried, has nothing
\* in flight.
LEMMA NothingYet ==
  ASSUME IInv, NEW s \in Slots, InCall(s), ~Awaits(s), slots[s].op \notin retried
  PROVE  \A c \in Conns : ~InFlight(c, slots[s].op)
<1>1. slots[s].op \in Ops /\ calls[slots[s].op] = "called"
  BY DEF IInv, Typed, SlotsOK, Naming, Callers
<1>2. SingleOf(slots[s].op)
  BY <1>1 DEF IInv, Single
<1>3. \A t \in Slots : Awaits(t) /\ slots[t].op = slots[s].op => t = s
  BY DEF IInv, Naming, Callers, InCall, Awaits
<1> QED
  BY <1>1, <1>2, <1>3 DEF SingleOf

\* A call begins.
LEMMA CallKeeps ==
  ASSUME IInv, NEW o \in Ops, NEW s \in Slots, Call(o, s)
  PROVE  IInv'
<1>1. /\ Typed /\ Typed' /\ UNCHANGED <<conns, marked, applied, torn, retried, raced, misled>>
      /\ slots[s].pc = "free" /\ calls[o] = "idle"
      /\ slots'[s].op = o /\ slots'[s].conn = slots[s].conn /\ slots'[s].pc \in {"connect", "send"}
      /\ \A u \in Slots : u # s => slots'[u] = slots[u]
      /\ calls'[o] = "called" /\ \A p \in Ops : p # o => calls'[p] = calls[p]
  BY CallStep DEF IInv
<1>2. /\ ~InCall(s) /\ InCall(s)' /\ ~Awaits(s) /\ ~Awaits(s)' /\ Conn(s)' = Conn(s)
  BY <1>1 DEF InCall, Awaits, Conn
<1>3. OnSlot(s, o)
  BY <1>1, <1>2, SameConns DEF OnSlot
<1>4. \A c \in Conns : c[1] = s /\ conns'[c].up => c[2] = slots'[s].conn
  BY <1>1 DEF IInv, Naming, Current
<1>5. slots'[s].conn > 0 /\ ~conns'[Conn(s)'].up => conns'[Conn(s)'].replies = <<>>
  BY <1>1, <1>2 DEF IInv, Naming, Silent
<1>6. SingleOf(o)'
  <2>1. \A c \in Conns : ~InFlight(c, o)'
    BY <1>1, SameConns DEF IInv, Naming, Untouched
  <2> QED
    BY <2>1 DEF SingleOf
<1>7. StreamOf(s)'
  BY <1>2 DEF StreamOf
<1>8. (SomeFailed => SomeFailed') /\ (misled' # {} => SomeFailed')
  BY <1>1 DEF SomeFailed, IInv, Carrying, MisledAfter
<1>9. SomeFailed' \/ SettledOf(s)'
  <2>1. SomeFailed \/ SettledOf(s)
    BY DEF IInv, Carrying, Settled
  <2>2. SettledOf(s) => SettledOf(s)'
    BY <1>1, <1>2 DEF SettledOf, Owes
  <2> QED
    BY <1>8, <2>1, <2>2
<1> QED
  BY <1>1, <1>3, <1>4, <1>5, <1>6, <1>7, <1>8, <1>9, OnSlotKeeps

\* A new stream, the first or after a failed attempt.
LEMMA ConnectKeeps ==
  ASSUME IInv, NEW s \in Slots, Connect(s) \/ Retry(s)
  PROVE  IInv'
<1>0. PICK x : x = slots[s].op
  OBVIOUS
<1>1. /\ Typed /\ Typed' /\ UNCHANGED <<marked, calls, applied, torn, raced, misled>>
      /\ retried' = IF slots[s].pc = "connect" THEN retried ELSE retried \cup {x}
      /\ slots'[s].op = x /\ \A u \in Slots : u # s => slots'[u] = slots[u]
      /\ slots[s].pc \in {"connect", "failed"} /\ slots'[s].pc = "send"
      /\ CanConnect(s) /\ conns' = Connected(s) /\ slots'[s].conn = slots[s].conn + 1
      /\ slots[s].conn \in Nat
  BY <1>0, ConnectStep DEF IInv, SameCall, Typed, SlotsOK, Slot
<1>2. /\ InCall(s) /\ InCall(s)' /\ ~Awaits(s)' /\ x \in Ops /\ calls[x] = "called"
  BY <1>0, <1>1 DEF InCall, Awaits, IInv, Typed, SlotsOK, Naming, Callers
<1>3. /\ \A c \in Conns : c[1] # s => conns'[c] = conns[c]
      /\ \A c \in Conns : c[1] = s /\ c[2] = slots[s].conn + 1 => conns'[c] = Fresh
      /\ \A c \in Conns : c[1] = s /\ c[2] # slots[s].conn + 1 =>
              /\ conns'[c].up = FALSE /\ conns'[c].handler = conns[c].handler
              /\ conns'[c].request = conns[c].request /\ conns'[c].requests = conns[c].requests
  BY <1>1, ConnectedTyped
<1>4. \A c \in Conns : c[1] = s /\ c[2] = slots[s].conn + 1 => conns[c] = Unused
  BY <1>1, ConnIsPair DEF Typed, Beyond
<1>5. ASSUME NEW c \in Conns, NEW o
      PROVE  /\ InFlight(c, o)' <=> InFlight(c, o)
             /\ Serving(c, o)' <=> Serving(c, o)
             /\ conns'[c].handler = "acted" <=> conns[c].handler = "acted"
             /\ conns[c].handler = "acted" => conns'[c].request = conns[c].request
  <2>1. CASE c[1] = s /\ c[2] = slots[s].conn + 1
    BY <1>3, <1>4, <2>1, NothingOn, UnusedTyped DEF InFlight, Queued, Serving
  <2>2. CASE ~(c[1] = s /\ c[2] = slots[s].conn + 1)
    BY <1>3, <2>2 DEF InFlight, Queued, Serving
  <2> QED
    BY <2>1, <2>2
<1>6. \A o : Acted(o)' <=> Acted(o)
  BY <1>5 DEF Acted
<1>7. OnSlot(s, x)
  BY <1>0, <1>1, <1>2, <1>3, <1>5, <1>6 DEF OnSlot
<1>8. Conn(s)' \in Conns /\ Conn(s)'[1] = s /\ Conn(s)'[2] = slots[s].conn + 1
  <2>1. slots'[s].conn \in 1..MaxConns
    BY <1>1 DEF Typed, SlotsOK, Slot
  <2> QED
    BY <1>1, <2>1 DEF Conn, Conns
<1>9. conns'[Conn(s)'] = Fresh
  BY <1>3, <1>8
<1>10. \A c \in Conns : c[1] = s /\ conns'[c].up => c[2] = slots'[s].conn
  BY <1>1, <1>3
<1>11. x \in retried' \/ SingleOf(x)'
  <2> SUFFICES ASSUME x \notin retried' PROVE SingleOf(x)'
    OBVIOUS
  <2>1. slots[s].pc = "connect" /\ x \notin retried
    BY <1>1
  <2>2. ~Awaits(s)
    BY <2>1 DEF Awaits
  <2>3. \A c \in Conns : ~InFlight(c, x)'
    BY <1>0, <1>2, <1>5, <2>1, <2>2, NothingYet
  <2> QED
    BY <2>3 DEF SingleOf
<1>12. StreamOf(s)'
  BY <1>2 DEF StreamOf
<1>13. SettledOf(s)'
  BY <1>9, UnusedTyped DEF SettledOf, Owes
<1>14. conns'[Conn(s)'].replies = <<>>
  BY <1>9, UnusedTyped
<1>15. misled' # {} => SomeFailed'
  BY <1>1 DEF SomeFailed, IInv, Carrying, MisledAfter
<1> QED
  BY <1>1, <1>2, <1>7, <1>10, <1>11, <1>12, <1>13, <1>14, <1>15, OnSlotKeeps

\* A call fails.
LEMMA ErrorKeeps ==
  ASSUME IInv, NEW s \in Slots, ConnectFails(s) \/ GiveUp(s)
  PROVE  IInv'
<1>0. PICK x : x = slots[s].op
  OBVIOUS
<1>1. /\ Typed /\ Typed' /\ UNCHANGED <<conns, marked, applied, torn, retried, raced, misled>>
      /\ InCall(s) /\ Finish(s, "failed")
  BY ErrorStep DEF IInv
<1>2. /\ slots'[s].pc = "free" /\ slots'[s].conn = slots[s].conn
      /\ \A u \in Slots : u # s => slots'[u] = slots[u]
      /\ x \in Ops /\ calls'[x] = "failed" /\ \A o \in Ops : o # x => calls'[o] = calls[o]
  BY <1>0, <1>1, FinishTyped
<1>3. ~InCall(s)' /\ ~Awaits(s)' /\ Conn(s)' = Conn(s) /\ calls[x] = "called"
  BY <1>0, <1>1, <1>2 DEF InCall, Awaits, Conn, IInv, Naming, Callers
<1>4. OnSlot(s, x)
  BY <1>0, <1>1, <1>2, <1>3, SameConns DEF OnSlot
<1>5. \A c \in Conns : c[1] = s /\ conns'[c].up => c[2] = slots'[s].conn
  BY <1>1, <1>2 DEF IInv, Naming, Current
<1>6. slots'[s].conn > 0 /\ ~conns'[Conn(s)'].up => conns'[Conn(s)'].replies = <<>>
  BY <1>1, <1>2, <1>3 DEF IInv, Naming, Silent
<1>7. x \in retried' \/ SingleOf(x)'
  <2>1. x \in retried \/ SingleOf(x)
    BY <1>2 DEF IInv, Single
  <2> QED
    BY <1>1, <1>2, <2>1, SameConns DEF SingleOf
<1>8. StreamOf(s)'
  BY <1>3 DEF StreamOf
<1>9. SomeFailed'
  BY <1>2 DEF SomeFailed
<1> QED
  BY <1>1, <1>2, <1>4, <1>5, <1>6, <1>7, <1>8, <1>9, OnSlotKeeps

\* An attempt gets no answer.
LEMMA FailKeeps ==
  ASSUME IInv, NEW s \in Slots, AttemptFails(s)
  PROVE  IInv'
<1>0. PICK x : x = slots[s].op
  OBVIOUS
<1>1. /\ Typed /\ Typed' /\ UNCHANGED <<conns, marked, calls, applied, torn, retried, raced, misled>>
      /\ slots'[s].op = x /\ \A u \in Slots : u # s => slots'[u] = slots[u]
      /\ slots[s].pc = "wait" /\ slots'[s].pc = "failed" /\ slots'[s].conn = slots[s].conn
  BY <1>0, FailStep DEF IInv, SameCall
<1>2. /\ InCall(s) /\ InCall(s)' /\ Awaits(s) /\ Awaits(s)' /\ Conn(s)' = Conn(s)
      /\ x \in Ops /\ calls[x] = "called"
  BY <1>0, <1>1 DEF InCall, Awaits, Conn, IInv, Typed, SlotsOK, Naming, Callers
<1>3. OnSlot(s, x)
  BY <1>0, <1>1, <1>2, SameConns DEF OnSlot
<1>4. \A c \in Conns : c[1] = s /\ conns'[c].up => c[2] = slots'[s].conn
  BY <1>1 DEF IInv, Naming, Current
<1>5. slots'[s].conn > 0 /\ ~conns'[Conn(s)'].up => conns'[Conn(s)'].replies = <<>>
  BY <1>1, <1>2 DEF IInv, Naming, Silent
<1>6. x \in retried' \/ SingleOf(x)'
  <2>1. x \in retried \/ SingleOf(x)
    BY <1>2 DEF IInv, Single
  <2>2. \A u \in Slots : (Awaits(u)' <=> Awaits(u)) /\ Conn(u)' = Conn(u) /\ slots'[u].op = slots[u].op
    BY <1>0, <1>1, <1>2 DEF Awaits, Conn
  <2> QED
    BY <1>1, <2>1, <2>2, SameConns DEF SingleOf
<1>7. StreamOf(s)'
  <2>1. StreamOf(s)
    BY DEF IInv, Carrying, Streams
  <2> QED
    BY <1>0, <1>1, <1>2, <2>1 DEF StreamOf, OneThing, Answer, Busy, Acted
<1>8. SettledOf(s)'
  BY <1>2 DEF SettledOf
<1>9. misled' # {} => SomeFailed'
  BY <1>1 DEF SomeFailed, IInv, Carrying, MisledAfter
<1> QED
  BY <1>1, <1>2, <1>3, <1>4, <1>5, <1>6, <1>7, <1>8, <1>9, OnSlotKeeps

\* A request goes out.
LEMMA SendKeeps ==
  ASSUME IInv, NEW s \in Slots, Send(s)
  PROVE  IInv'
<1>0. PICK x, e : x = slots[s].op /\ e = Conn(s)
  OBVIOUS
<1>1. /\ Typed /\ Typed' /\ UNCHANGED <<marked, calls, applied, torn, retried, raced>>
      /\ slots'[s].op = x /\ \A u \in Slots : u # s => slots'[u] = slots[u]
      /\ misled' = IF conns[e].up /\ Owes(e) THEN misled \cup {x} ELSE misled
      /\ slots[s].pc = "send" /\ slots'[s].pc = "wait" /\ slots'[s].conn = slots[s].conn
      /\ slots[s].conn > 0
      /\ \A d \in Conns : d # e => conns'[d] = conns[d]
      /\ ~conns[e].up => conns' = conns
      /\ conns[e].up => conns'[e] = [conns[e] EXCEPT !.requests = Append(conns[e].requests, x)]
  BY <1>0, SendStep DEF IInv, SameCall
<1>2. /\ InCall(s) /\ InCall(s)' /\ ~Awaits(s) /\ Awaits(s)' /\ Conn(s)' = e
      /\ x \in Ops /\ calls[x] = "called"
  BY <1>0, <1>1 DEF InCall, Awaits, Conn, IInv, Typed, SlotsOK, Naming, Callers
<1>3. e \in Conns /\ e[1] = s /\ e[2] = slots[s].conn
  BY <1>0, <1>1, CurrentConn DEF Typed
<1>4. /\ conns'[e].up = conns[e].up /\ conns'[e].handler = conns[e].handler
      /\ conns'[e].request = conns[e].request /\ conns'[e].replies = conns[e].replies
      /\ conns[e].up => conns'[e].requests = Append(conns[e].requests, x)
      /\ ~conns[e].up => conns'[e].requests = conns[e].requests
  <2>1. conns[e] \in Connection
    BY <1>3 DEF IInv, Typed, ConnsOK
  <2> QED
    BY <1>1, <2>1 DEF Connection
<1>5. \A c \in Conns : \A o : Serving(c, o)' <=> Serving(c, o)
  BY <1>1, <1>4 DEF Serving
<1>6. \A o : Acted(o)' <=> Acted(o)
  BY <1>1, <1>4 DEF Acted
<1>7. /\ \A c \in Conns : \A o : c # e => (InFlight(c, o)' <=> InFlight(c, o))
      /\ \A o : o # x => (InFlight(e, o)' <=> InFlight(e, o))
  <2>1. Elems(Append(conns[e].requests, x)) = Elems(conns[e].requests) \cup {x}
    BY <1>1, <1>2, <1>3, QueueOf, QueueParts
  <2>2. \A o : o # x => (Queued(e, o)' <=> Queued(e, o))
    BY <1>4, <2>1 DEF Queued, Typed, ConnsOK, Connection
  <2>3. \A c \in Conns : \A o : c # e => (Queued(c, o)' <=> Queued(c, o))
    BY <1>1 DEF Queued
  <2> QED
    BY <1>3, <1>5, <2>2, <2>3 DEF InFlight
<1>8. OnSlot(s, x)
  <2>1. \A c \in Conns : c[1] # s => conns'[c] = conns[c]
    BY <1>1, <1>3
  <2>2. \A o \in Ops : o # x => \A c \in Conns : InFlight(c, o)' <=> InFlight(c, o)
    BY <1>7
  <2> QED
    BY <1>0, <1>1, <1>2, <1>5, <1>6, <2>1, <2>2 DEF OnSlot
<1>9. \A c \in Conns : c[1] = s /\ conns'[c].up => c[2] = slots'[s].conn
  BY <1>1, <1>3, <1>4 DEF IInv, Naming, Current
<1>10. ~conns'[Conn(s)'].up => conns'[Conn(s)'].replies = <<>>
  BY <1>0, <1>1, <1>2, <1>4 DEF IInv, Naming, Silent
<1>11. x \in retried' \/ SingleOf(x)'
  <2> SUFFICES ASSUME x \notin retried PROVE SingleOf(x)'
    BY <1>1
  <2>1. \A c \in Conns : ~InFlight(c, x)
    BY <1>0, <1>2, NothingYet
  <2>2. \A c \in Conns : InFlight(c, x)' => c = e
    BY <1>7, <2>1
  <2> QED
    BY <1>1, <1>2, <2>2 DEF SingleOf
<1>12. StreamOf(s)'
  <2> SUFFICES ASSUME x \notin misled', conns'[e].up PROVE OneThing(e, x)' /\ Answer(e, x)'
    BY <1>1, <1>2 DEF StreamOf, OneThing, Answer, Busy, Acted
  <2>1. conns[e].up /\ ~Owes(e)
    BY <1>1, <1>4
  <2>2. conns[e].requests = <<>> /\ conns'[e].replies = <<>> /\ ~Busy(e)'
    BY <1>4, <2>1 DEF Owes, Busy
  <2>3. conns'[e].requests = <<x>>
    <3>1. conns'[e].requests = Append(<<>>, x)
      BY <1>4, <2>1, <2>2
    <3> QED
      BY <1>2, <3>1
  <2>4. Len(<<>>) <= 1 /\ <<>> # <<TRUE>> /\ <<>> # <<FALSE>>
    OBVIOUS
  <2>5. /\ Len(conns'[e].replies) <= 1
        /\ conns'[e].replies # <<TRUE>> /\ conns'[e].replies # <<FALSE>>
    BY <2>2, <2>4
  <2> QED
    BY <2>2, <2>3, <2>5 DEF OneThing, Answer
<1>13. SettledOf(s)'
  BY <1>2 DEF SettledOf
<1>14. misled' # {} => SomeFailed'
  <2>1. SomeFailed <=> SomeFailed'
    BY <1>1 DEF SomeFailed
  <2>2. conns[e].up /\ Owes(e) => SomeFailed
    BY <1>0, <1>1, <1>2 DEF IInv, Carrying, Settled, SettledOf
  <2> QED
    BY <1>1, <2>1, <2>2 DEF IInv, Carrying, MisledAfter
<1> QED
  BY <1>1, <1>2, <1>8, <1>9, <1>10, <1>11, <1>12, <1>13, <1>14, OnSlotKeeps

\* What an answer says, on a stream that owed nothing before the call.
LEMMA ReceivedRight ==
  ASSUME IInv, NEW s \in Slots, Receive(s), slots[s].op \notin misled
  PROVE  /\ conns[Conn(s)].up /\ OneThing(Conn(s), slots[s].op)
         /\ Tail(conns[Conn(s)].replies) = <<>>
         /\ Head(conns[Conn(s)].replies) => slots[s].op \in marked
         /\ ~Head(conns[Conn(s)].replies) /\ slots[s].op \notin retried =>
              slots[s].op \notin marked /\ ~Acted(slots[s].op)
<1> DEFINE q == conns[Conn(s)].replies
<1>1. /\ slots[s].pc = "wait" /\ slots[s].conn > 0 /\ q # <<>> /\ Typed
  BY ReceiveStep DEF IInv
<1>2. Conn(s) \in Conns /\ Awaits(s)
  BY <1>1, CurrentConn DEF Typed, Awaits
<1>3. conns[Conn(s)].up
  BY <1>1 DEF IInv, Naming, Silent
<1>4. OneThing(Conn(s), slots[s].op) /\ Answer(Conn(s), slots[s].op)
  BY <1>2, <1>3 DEF IInv, Carrying, Streams, StreamOf
<1>5. q \in Seq(BOOLEAN) /\ Len(q) <= 1
  BY <1>1, <1>2, <1>4, QueueOf DEF OneThing
<1>6. Tail(q) = <<>> /\ q = <<Head(q)>> /\ Head(q) \in BOOLEAN
  BY <1>1, <1>5, SeqParts
<1>7. (Head(q) => q = <<TRUE>>) /\ (~Head(q) => q = <<FALSE>>)
  <2>1. PICK b \in BOOLEAN : b = Head(q)
    BY <1>6
  <2>2. q = <<b>>
    BY <1>6, <2>1
  <2>3. (b = TRUE => <<b>> = <<TRUE>>) /\ (b = FALSE => <<b>> = <<FALSE>>)
    OBVIOUS
  <2> QED
    BY <2>1, <2>2, <2>3
<1> QED
  BY <1>3, <1>4, <1>6, <1>7 DEF Answer

\* An answer is taken.
LEMMA ReceiveKeeps ==
  ASSUME IInv, NEW s \in Slots, Receive(s)
  PROVE  IInv'
<1>0. PICK x, e, ok : x = slots[s].op /\ e = Conn(s) /\ ok = Head(conns[Conn(s)].replies)
  OBVIOUS
<1> DEFINE result == IF ok THEN "ok" ELSE "refused"
<1>1. /\ Typed /\ Typed' /\ UNCHANGED <<marked, applied, torn, retried, raced, misled>>
      /\ slots[s].pc = "wait" /\ InCall(s) /\ conns[e].replies # <<>>
      /\ Finish(s, result) /\ slots[s].conn > 0
      /\ \A d \in Conns : d # e => conns'[d] = conns[d]
      /\ conns'[e] = [conns[e] EXCEPT !.replies = Tail(conns[e].replies)]
  BY <1>0, ReceiveStep DEF IInv
<1>2. result \in {"ok", "refused"} /\ (result = "ok" => ok) /\ (result = "refused" => ~ok)
  OBVIOUS
<1> HIDE DEF result
<1>3. /\ slots'[s].pc = "free" /\ slots'[s].conn = slots[s].conn
      /\ \A u \in Slots : u # s => slots'[u] = slots[u]
      /\ x \in Ops /\ calls'[x] = result /\ \A o \in Ops : o # x => calls'[o] = calls[o]
  BY <1>0, <1>1, <1>2, FinishTyped
<1>4. ~InCall(s)' /\ ~Awaits(s)' /\ Awaits(s) /\ Conn(s)' = e /\ calls[x] = "called"
  BY <1>0, <1>1, <1>3 DEF InCall, Awaits, Conn, IInv, Naming, Callers
<1>5. e \in Conns /\ e[1] = s /\ e[2] = slots[s].conn
  BY <1>0, <1>1, CurrentConn DEF Typed
<1>6. /\ conns'[e].up = conns[e].up /\ conns'[e].handler = conns[e].handler
      /\ conns'[e].request = conns[e].request /\ conns'[e].requests = conns[e].requests
      /\ conns'[e].replies = Tail(conns[e].replies)
  <2>1. conns[e] \in Connection
    BY <1>5 DEF IInv, Typed, ConnsOK
  <2> QED
    BY <1>1, <2>1 DEF Connection
<1>7. \A c \in Conns : \A o : (Serving(c, o)' <=> Serving(c, o)) /\ (InFlight(c, o)' <=> InFlight(c, o))
  BY <1>1, <1>6 DEF Serving, InFlight, Queued
<1>8. \A o : Acted(o)' <=> Acted(o)
  BY <1>1, <1>6 DEF Acted
<1>9. OnSlot(s, x)
  <2>1. \A c \in Conns : c[1] # s => conns'[c] = conns[c]
    BY <1>1, <1>5
  <2> QED
    BY <1>0, <1>1, <1>2, <1>3, <1>4, <1>7, <1>8, <2>1 DEF OnSlot
<1>10. \A c \in Conns : c[1] = s /\ conns'[c].up => c[2] = slots'[s].conn
  BY <1>1, <1>3, <1>5, <1>6 DEF IInv, Naming, Current
<1>11. conns[e].up
  BY <1>0, <1>1 DEF IInv, Naming, Silent
<1>12. x \notin misled => /\ OneThing(e, x) /\ Tail(conns[e].replies) = <<>>
                          /\ ok => x \in marked
  BY <1>0, ReceivedRight
<1>13. x \in retried' \/ SingleOf(x)'
  <2> SUFFICES ASSUME x \notin retried PROVE SingleOf(x)'
    BY <1>1
  <2>1. SingleOf(x)
    BY <1>3 DEF IInv, Single
  <2>2. x \notin misled => \A c \in Conns : ~InFlight(c, x)
    BY <1>0, <1>1, <1>4, <1>11, AnsweredAlone
  <2> QED
    BY <1>1, <1>2, <1>3, <1>7, <2>1, <2>2 DEF SingleOf
<1>14. StreamOf(s)'
  BY <1>4 DEF StreamOf
<1>15. (SomeFailed => SomeFailed') /\ (misled' # {} => SomeFailed')
  <2>1. SomeFailed => SomeFailed'
    BY <1>3, <1>4 DEF SomeFailed
  <2> QED
    BY <1>1, <2>1 DEF IInv, Carrying, MisledAfter
<1>16. SomeFailed' \/ SettledOf(s)'
  <2> SUFFICES ASSUME ~SomeFailed' PROVE ~Owes(e)'
    BY <1>4 DEF SettledOf, Owes
  <2>1. x \notin misled
    BY <1>15 DEF IInv, Carrying, MisledAfter
  <2>2. conns'[e].replies = <<>> /\ conns'[e].requests = <<>> /\ ~Busy(e)
    BY <1>1, <1>6, <1>12, <2>1 DEF OneThing
  <2> QED
    BY <1>6, <2>2 DEF Owes, Busy
<1>17. calls'[x] = "ok" /\ x \notin misled' => x \in marked
  BY <1>1, <1>2, <1>3, <1>12
<1>18. slots'[s].conn > 0 /\ ~conns'[Conn(s)'].up => conns'[Conn(s)'].replies = <<>>
  BY <1>4, <1>6, <1>11
<1> QED
  BY <1>1, <1>3, <1>9, <1>10, <1>13, <1>14, <1>15, <1>16, <1>17, <1>18, OnSlotKeeps

\* At the start nothing is in flight.
LEMMA InitIInv == Init => IInv
<1> SUFFICES ASSUME Init PROVE IInv
  OBVIOUS
<1>1. /\ Typed /\ \A s \in Slots : ~InCall(s) /\ ~Awaits(s) /\ slots[s].conn = 0
      /\ \A c \in Conns : conns[c] = Unused /\ ~Busy(c) /\ ~conns[c].up
  <2>1. ~Unused.up
    BY DEF Unused
  <2> QED
    BY <2>1, InitTyped, UnusedTyped DEF Init, InCall, Awaits, Busy
<1>2. \A c \in Conns : \A o : ~InFlight(c, o) /\ ~Serving(c, o)
  BY <1>1, NothingOn DEF InFlight, Queued, Serving
<1>3. \A o : ~Acted(o)
  BY <1>1 DEF Acted, Busy
<1>4. Naming
  BY <1>1, <1>2 DEF Naming, Callers, Untouched, Current, Silent
<1>5. Single /\ Carrying
  BY <1>1, <1>2 DEF Init, Single, SingleOf, Carrying, Streams, StreamOf, Settled, SettledOf, MisledAfter
<1>6. Meetings /\ Effects
  BY <1>2, <1>3 DEF Init, Meetings, Effects, Accounts, OkMarked
<1> QED
  BY <1>1, <1>4, <1>5, <1>6 DEF IInv

\* Nothing changes.
LEMMA StutterKeeps == IInv /\ UNCHANGED vars => IInv'
<1> SUFFICES ASSUME IInv, UNCHANGED vars PROVE IInv'
  OBVIOUS
<1>1. UNCHANGED <<slots, conns, marked, breaks, kills, calls, applied, torn, retried, raced, misled>>
  BY DEF vars, histories
<1>2. Typed'
  BY StutterTyped DEF IInv
<1>3. Naming' /\ Single'
  BY <1>1 DEF IInv, Naming, Callers, Untouched, Current, Silent, Single, SingleOf, InCall, Awaits,
     Conn, InFlight, Queued, Serving
<1>4. Carrying'
  BY <1>1 DEF IInv, Carrying, Streams, StreamOf, Settled, SettledOf, MisledAfter, SomeFailed,
     Awaits, Conn, OneThing, Answer, Busy, Acted, Owes
<1>5. Meetings' /\ Effects'
  BY <1>1 DEF IInv, Meetings, Effects, Accounts, OkMarked, Serving, Acted
<1> QED
  BY <1>2, <1>3, <1>4, <1>5 DEF IInv

-----------------------------------------------------------------------------
(* Refinement. *)

\* A call that returns does so as OnceOp allows.
LEMMA ReturnRefines ==
  ASSUME IInv, NEW s \in Slots, ConnectFails(s) \/ GiveUp(s) \/ Receive(s)
  PROVE  Once!Next
<1> DEFINE o == slots[s].op
<1>1. /\ InCall(s) /\ o \in Ops /\ calls[o] = "called" /\ applied[o] \in Nat /\ torn[o] \in Nat
  <2>1. InCall(s)
    BY DEF ConnectFails, GiveUp, Receive, InCall
  <2> QED
    BY <2>1 DEF IInv, Typed, SlotsOK, OthersOK, Naming, Callers
<1>2. CASE ConnectFails(s) \/ GiveUp(s)
  <2>1. Once!Return(o, "failed")
    BY <1>1, <1>2 DEF ConnectFails, GiveUp, Finish, histories, Once!Return
  <2> QED
    BY <1>1, <2>1 DEF Once!Next
<1>3. CASE Receive(s)
  <2> DEFINE result == IF Head(conns[Conn(s)].replies) THEN "ok" ELSE "refused"
  <2>1. result = "ok" => applied[o] > 0 \/ o \in misled
    <3>1. result = "ok" /\ o \notin misled => o \in marked
      BY <1>3, ReceivedRight
    <3> QED
      BY <1>1, <3>1 DEF IInv, Effects, Accounts
  <2>2. result = "refused" => applied[o] = torn[o] \/ o \in retried \cup misled
    <3> SUFFICES ASSUME result = "refused", o \notin misled, o \notin retried
                 PROVE  applied[o] = torn[o]
      OBVIOUS
    <3>1. o \notin marked /\ ~Acted(o)
      BY <1>3, ReceivedRight
    <3>2. o \notin raced
      BY DEF IInv, Meetings
    <3>3. o \notin raced => applied[o] = torn[o] + (IF o \in marked \/ Acted(o) THEN 1 ELSE 0)
      BY <1>1 DEF IInv, Effects, Accounts
    <3> HIDE DEF result, o
    <3> QED
      BY <1>1, <3>1, <3>2, <3>3
  <2>3. calls' = [calls EXCEPT ![o] = result] /\ UNCHANGED <<applied, torn, retried, raced, misled>>
    BY <1>3 DEF Receive, Finish, histories
  <2>4. result \in {"ok", "refused", "failed"}
    OBVIOUS
  <2> HIDE DEF result
  <2>5. Once!Return(o, result)
    BY <1>1, <2>1, <2>2, <2>3 DEF Once!Return
  <2> QED
    BY <1>1, <2>4, <2>5 DEF Once!Next
<1> QED
  BY <1>2, <1>3

\* An effect is one that OnceOp allows, and so is the end of a handler before the
\* marker.
LEMMA ServedRight ==
  ASSUME IInv, NEW c \in Conns, NEW o \in Ops, Serving(c, o)
  PROVE  /\ calls[o] # "idle"
         /\ calls[o] = "ok" => o \in raced \cup misled
         /\ calls[o] = "refused" => o \in retried \cup misled
         /\ conns[c].handler = "checked" => applied[o] = torn[o] \/ o \in raced
         /\ conns[c].handler = "acted" => applied[o] > torn[o] \/ o \in raced
<1>1. InFlight(c, o)
  BY DEF InFlight
<1>2. calls[o] # "idle"
  BY <1>1 DEF IInv, Naming, Untouched
<1>3. o \notin raced => o \notin marked
  BY DEF IInv, Meetings
<1>4. calls[o] = "ok" => o \in raced \cup misled
  BY <1>3 DEF IInv, Effects, OkMarked
<1>5. calls[o] = "refused" => o \in retried \cup misled
  BY <1>1 DEF IInv, Single, SingleOf
<1>6. /\ applied[o] \in Nat /\ torn[o] \in Nat
      /\ o \notin raced => applied[o] = torn[o] + (IF o \in marked \/ Acted(o) THEN 1 ELSE 0)
  BY DEF IInv, Typed, OthersOK, Effects, Accounts
<1>7. o \notin raced /\ conns[c].handler = "checked" => ~Acted(o)
  <2> SUFFICES ASSUME o \notin raced, conns[c].handler = "checked", NEW d \in Conns,
                      conns[d].handler = "acted", conns[d].request = o
               PROVE  FALSE
    BY DEF Acted
  <2>1. Serving(d, o) /\ d # c
    BY DEF Serving
  <2> QED
    BY <2>1 DEF IInv, Meetings
<1>8. conns[c].handler = "acted" => Acted(o)
  BY DEF Acted, Serving
<1> QED
  BY <1>2, <1>3, <1>4, <1>5, <1>6, <1>7, <1>8

\* Every step keeps the invariant and is a step of OnceOp or none.
LEMMA NextRefines ==
  ASSUME IInv, [Next]_vars
  PROVE  IInv' /\ [Once!Next]_(Once!vars)
<1>1. ASSUME NEW o \in Ops, NEW s \in Slots, Call(o, s)
      PROVE  IInv' /\ Once!Next
  BY <1>1, CallKeeps DEF Call, histories, Once!Next, Once!Call
<1>2. ASSUME NEW s \in Slots, Connect(s) \/ Retry(s) \/ AttemptFails(s)
      PROVE  IInv' /\ [Once!Next]_(Once!vars)
  <2>1. IInv'
    BY <1>2, ConnectKeeps, FailKeeps
  <2>2. Connect(s) \/ AttemptFails(s) => UNCHANGED Once!vars
    BY DEF Connect, AttemptFails, histories, Once!vars
  <2>3. ASSUME Retry(s) PROVE Once!Next
    <3>1. slots[s].op \in Ops /\ calls[slots[s].op] = "called"
      BY <2>3 DEF Retry, InCall, IInv, Typed, SlotsOK, Naming, Callers
    <3>2. Once!Retry(slots[s].op)
      BY <2>3, <3>1 DEF Retry, Once!Retry
    <3> QED
      BY <3>1, <3>2 DEF Once!Next
  <2> QED
    BY <1>2, <2>1, <2>2, <2>3
<1>3. ASSUME NEW s \in Slots, Send(s)
      PROVE  IInv' /\ [Once!Next]_(Once!vars)
  <2>1. IInv'
    BY <1>3, SendKeeps
  <2>2. /\ slots[s].op \in Ops /\ calls[slots[s].op] = "called" /\ slots[s].conn > 0 /\ ~Awaits(s)
    BY <1>3 DEF Send, InCall, Awaits, IInv, Typed, SlotsOK, Naming, Callers
  <2>3. CASE conns[Conn(s)].up /\ Owes(Conn(s))
    <3>1. SomeFailed
      BY <2>2, <2>3 DEF IInv, Carrying, Settled, SettledOf
    <3>2. Once!Mislead(slots[s].op)
      BY <1>3, <2>2, <2>3, <3>1 DEF Send, SomeFailed, Once!Mislead
    <3> QED
      BY <2>1, <2>2, <3>2 DEF Once!Next
  <2>4. CASE ~(conns[Conn(s)].up /\ Owes(Conn(s)))
    <3>1. UNCHANGED Once!vars
      BY <1>3, <2>4 DEF Send, Once!vars
    <3> QED
      BY <2>1, <3>1
  <2> QED
    BY <2>3, <2>4
<1>4. ASSUME NEW s \in Slots, ConnectFails(s) \/ GiveUp(s) \/ Receive(s)
      PROVE  IInv' /\ Once!Next
  BY <1>4, ErrorKeeps, ReceiveKeeps, ReturnRefines
<1>5. ASSUME NEW c \in Conns, Accept(c)
      PROVE  IInv' /\ [Once!Next]_(Once!vars)
  <2> DEFINE r == Head(conns[c].requests)
  <2>1. IInv'
    BY <1>5, AcceptKeeps
  <2>2. /\ r \in Ops /\ UNCHANGED <<calls, applied, torn, retried, misled>>
        /\ raced' = IF r \notin marked /\ \E d \in Conns : Serving(d, r) THEN raced \cup {r} ELSE raced
    BY <1>5, AcceptStep DEF IInv
  <2>3. raced' \subseteq retried
    BY <2>1, <2>2 DEF IInv, Meetings
  <2>4. CASE raced' = raced
    BY <2>1, <2>2, <2>4 DEF Once!vars
  <2>5. CASE raced' = raced \cup {r}
    <3>1. Once!Race(r)
      BY <2>2, <2>3, <2>5 DEF Once!Race
    <3> QED
      BY <2>1, <2>2, <3>1 DEF Once!Next
  <2> QED
    BY <2>2, <2>4, <2>5
<1>6. ASSUME NEW c \in Conns, Act(c)
      PROVE  IInv' /\ Once!Next
  <2> DEFINE r == conns[c].request
  <2>1. /\ IInv' /\ r \in Ops /\ Serving(c, r) /\ conns[c].handler = "checked"
        /\ applied' = [applied EXCEPT ![r] = @ + 1]
        /\ UNCHANGED <<calls, torn, retried, raced, misled>>
    BY <1>6, ActKeeps, ActStep DEF IInv, Serving
  <2>2. Once!TakeEffect(r)
    BY <2>1, ServedRight DEF Once!TakeEffect
  <2> QED
    BY <2>1, <2>2 DEF Once!Next
<1>7. ASSUME NEW c \in Conns, Refuse(c) \/ Mark(c) \/ Break(c)
      PROVE  IInv' /\ UNCHANGED Once!vars
  <2>1. UNCHANGED Once!vars
    BY <1>7 DEF Refuse, Mark, Break, histories, Once!vars
  <2> QED
    BY <1>7, <2>1, AnswerKeeps, BreakKeeps
<1>8. ASSUME NEW c \in Conns, MarkFails(c)
      PROVE  IInv' /\ Once!Next
  <2>0. PICK r : r = conns[c].request
    OBVIOUS
  <2>1. /\ IInv' /\ r \in Ops /\ Serving(c, r) /\ conns[c].handler = "acted"
        /\ UNCHANGED <<calls, applied, retried, raced, misled>>
        /\ torn' = [torn EXCEPT ![r] = @ + 1]
    BY <1>8, <2>0, AnswerKeeps, AnswerStep DEF IInv, Serving
  <2>2. torn' = [o \in Ops |-> IF o \in {r} THEN torn[o] + 1 ELSE torn[o]]
    BY <2>1 DEF IInv, Typed, OthersOK
  <2>3. Once!Tear({r})
    BY <2>1, <2>2, ServedRight DEF Once!Tear
  <2>4. {r} \in SUBSET Ops
    BY <2>1
  <2> QED
    BY <2>1, <2>3, <2>4 DEF Once!Next
<1>9. CASE Kill
  <2>0. PICK S \in SUBSET Ops : \A o \in Ops : o \in S <=> Acted(o)
    <3>1. \A o \in Ops : o \in {p \in Ops : Acted(p)} <=> Acted(o)
      OBVIOUS
    <3> QED
      BY <3>1
  <2>1. /\ IInv' /\ UNCHANGED <<calls, applied, retried, raced, misled>>
        /\ torn' = [o \in Ops |-> IF o \in S THEN torn[o] + 1 ELSE torn[o]]
    BY <1>9, <2>0, KillKeeps, KillStep DEF IInv
  <2>2. \A o \in S : \E c \in Conns : Serving(c, o) /\ conns[c].handler = "acted"
    BY <2>0 DEF Acted, Serving
  <2>3. Once!Tear(S)
    BY <2>1, <2>2, ServedRight DEF Once!Tear
  <2> QED
    BY <2>1, <2>3 DEF Once!Next
<1>10. CASE UNCHANGED vars
  BY <1>10, StutterKeeps DEF vars, histories, Once!vars
<1> QED
  BY <1>1, <1>2, <1>3, <1>4, <1>5, <1>6, <1>7, <1>8, <1>9, <1>10, Zenon
  DEF Next, ClientStep, DaemonStep

\* Lost requests and answers, timeouts, failed reconnects, handlers of old
\* connections that go on beside a retry, refusals and deaths of the daemon never
\* make an operation run after its Ok or return Ok undone, unless two of its
\* attempts were served at the same time or an earlier call failed and left its
\* answer on the stream; and it runs again only where a handler ended between
\* the effect and the marker.  No assumption on the daemon's order or on the
\* streams that calls leave.
THEOREM PoolImplementsOnce == Spec => ImplementsOnce
<1>1. Init => Once!Init
  BY DEF Init, Once!Init
<1>2. IInv /\ [Next]_vars => IInv' /\ [Once!Next]_(Once!vars)
  BY NextRefines
<1> QED
  BY <1>1, <1>2, InitIInv, PTL DEF Spec, ImplementsOnce, Once!Spec
=============================================================================
