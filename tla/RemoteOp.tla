------------------------------ MODULE RemoteOp ------------------------------
(***************************************************************************)
(* A metadata operation from the mount's pool of connections to the        *)
(* daemon's files: ClientPool (vfs.rs), RemoteClient::op with its retries  *)
(* and reconnect (remote.rs), one handler thread per connection and the    *)
(* markers that keep a repeated operation from running twice (daemon.rs).  *)
(*                                                                         *)
(* A slot of the pool holds one client with one stream and serves one call *)
(* at a time.  A stream carries requests and answers in order and has no   *)
(* other tie between them: a client takes the next answer for its own.     *)
(* A connection belongs to its slot and is numbered within it; the old one *)
(* is closed when a reconnect has succeeded, and stays in place otherwise. *)
(* What the daemon has read, or still has in its buffer, it carries out    *)
(* whether or not the connection is up.                                    *)
(* An operation is called once and its id is fresh (nonce and counter of   *)
(* next_op_id), so that requests and markers name the operation itself.    *)
(*                                                                         *)
(* The daemon's markers are files and outlive it.  How a connection is set *)
(* up (tunnel, handshake, Hello, SetClientId) is one step that succeeds or *)
(* fails.                                                                  *)
(***************************************************************************)
EXTENDS Naturals, Sequences

CONSTANTS Slots,             \* slots of the pool
          Ops,               \* operations callers ask for
          NoOp,
          operation_retries,
          MaxConns,          \* bound: connections of a slot
          MaxBreaks,         \* bound: connections that break
          MaxKills           \* bound: kills of the daemon

ASSUME RemoteOpAssumption ==
  /\ NoOp \notin Ops
  /\ operation_retries \in Nat /\ MaxConns \in Nat
  /\ MaxBreaks \in Nat /\ MaxKills \in Nat

VARIABLES slots,    \* the pool: client, its current call and where it is
          conns,    \* both ends of every connection
          marked,   \* operations with a marker file
          breaks, kills,
          calls,    \* what the callers see
          applied,  \* history: how often an operation was carried out
          torn,     \* history: how often a handler ended between that and the marker
          retried,  \* history: operations sent more than once,
          raced,    \* two attempts of which were being served at the same time,
          misled    \* or that were sent on a stream that still owed an answer

histories == <<torn, retried, raced, misled>>
vars == <<slots, conns, marked, breaks, kills, calls, applied, histories>>

Conns == Slots \X (1..MaxConns)
Conn(s) == <<s, slots[s].conn>>
Unused == [up |-> FALSE, requests |-> <<>>, handler |-> "ended", request |-> NoOp,
           replies |-> <<>>]
Fresh == [Unused EXCEPT !.up = TRUE, !.handler = "idle"]

Init ==
  /\ slots = [s \in Slots |-> [conn |-> 0, op |-> NoOp, attempt |-> 0, pc |-> "free"]]
  /\ conns = [c \in Conns |-> Unused]
  /\ marked = {} /\ breaks = 0 /\ kills = 0
  /\ calls = [o \in Ops |-> "idle"]
  /\ applied = [o \in Ops |-> 0]
  /\ torn = [o \in Ops |-> 0]
  /\ retried = {} /\ raced = {} /\ misled = {}

-----------------------------------------------------------------------------
(* The client. *)

CanConnect(s) == slots[s].conn < MaxConns

\* A client whose stream has been replaced drops the old one.
Connected(s) ==
  [c \in Conns |-> IF c[1] # s THEN conns[c]
                   ELSE IF c[2] = slots[s].conn + 1 THEN Fresh
                   ELSE [conns[c] EXCEPT !.up = FALSE]]

\* The call returns and frees its slot.
Finish(s, result) ==
  /\ slots' = [slots EXCEPT ![s].op = NoOp, ![s].attempt = 0, ![s].pc = "free"]
  /\ calls' = [calls EXCEPT ![slots[s].op] = result]

\* use_slot: a slot that has no client yet connects before the action runs.
Call(o, s) ==
  /\ calls[o] = "idle" /\ slots[s].pc = "free"
  /\ calls' = [calls EXCEPT ![o] = "called"]
  /\ slots' = [slots EXCEPT ![s].op = o, ![s].attempt = 0,
                            ![s].pc = IF slots[s].conn = 0 THEN "connect" ELSE "send"]
  /\ UNCHANGED <<conns, marked, breaks, kills, applied, histories>>

\* The first connection of the slot, or a failure that leaves it without one.
Connect(s) ==
  /\ slots[s].pc = "connect" /\ CanConnect(s)
  /\ slots' = [slots EXCEPT ![s].conn = 1, ![s].pc = "send"]
  /\ conns' = Connected(s)
  /\ UNCHANGED <<marked, breaks, kills, calls, applied, histories>>

ConnectFails(s) ==
  /\ slots[s].pc = "connect"
  /\ Finish(s, "failed")
  /\ UNCHANGED <<conns, marked, breaks, kills, applied, histories>>

\* Something is on its way on the stream, or will be.
Owes(c) ==
  conns[c].requests # <<>> \/ conns[c].handler \in {"checked", "acted"} \/ conns[c].replies # <<>>

\* protocol::send, the request; one written to a broken connection is lost.
Send(s) ==
  /\ slots[s].pc = "send"
  /\ slots' = [slots EXCEPT ![s].pc = "wait"]
  /\ conns' = [conns EXCEPT ![Conn(s)].requests =
                 IF conns[Conn(s)].up THEN Append(@, slots[s].op) ELSE @]
  /\ misled' = IF conns[Conn(s)].up /\ Owes(Conn(s)) THEN misled \cup {slots[s].op} ELSE misled
  /\ UNCHANGED <<marked, breaks, kills, calls, applied, torn, retried, raced>>

\* read_response: the next answer on the stream, Ok or a refusal.
Receive(s) ==
  /\ slots[s].pc = "wait" /\ conns[Conn(s)].replies # <<>>
  /\ Finish(s, IF Head(conns[Conn(s)].replies) THEN "ok" ELSE "refused")
  /\ conns' = [conns EXCEPT ![Conn(s)].replies = Tail(@)]
  /\ UNCHANGED <<marked, breaks, kills, applied, histories>>

\* The attempt fails: the stream is broken, or no answer came within the read
\* timeout.
AttemptFails(s) ==
  /\ slots[s].pc = "wait" /\ conns[Conn(s)].replies = <<>>
  /\ slots' = [slots EXCEPT ![s].pc = "failed"]
  /\ UNCHANGED <<conns, marked, breaks, kills, calls, applied, histories>>

\* A mutant: the request is repeated on the stream that failed, uncounted.
RetryForGood(s) ==
  /\ slots[s].pc = "failed"
  /\ slots' = [slots EXCEPT ![s].pc = "send"]
  /\ UNCHANGED <<conns, marked, breaks, kills, calls, applied, histories>>

\* A mutant: one attempt too many.
RetryOnceMore(s) ==
  /\ slots[s].pc = "failed" /\ slots[s].attempt <= operation_retries /\ CanConnect(s)
  /\ slots' = [slots EXCEPT ![s].conn = @ + 1, ![s].attempt = @ + 1, ![s].pc = "send"]
  /\ conns' = Connected(s)
  /\ retried' = retried \cup {slots[s].op}
  /\ UNCHANGED <<marked, breaks, kills, calls, applied, torn, raced, misled>>

\* RemoteClient::op tries again on a new connection, with the same id.
Retry(s) ==
  /\ slots[s].pc = "failed" /\ slots[s].attempt < operation_retries /\ CanConnect(s)
  /\ slots' = [slots EXCEPT ![s].conn = @ + 1, ![s].attempt = @ + 1, ![s].pc = "send"]
  /\ conns' = Connected(s)
  /\ retried' = retried \cup {slots[s].op}
  /\ UNCHANGED <<marked, breaks, kills, calls, applied, torn, raced, misled>>

\* The attempts are used up, or reconnect fails: the stream stays, whether it
\* is broken or only late.
GiveUp(s) ==
  /\ slots[s].pc = "failed"
  /\ Finish(s, "failed")
  /\ UNCHANGED <<conns, marked, breaks, kills, applied, histories>>

-----------------------------------------------------------------------------
(* The daemon: one handler thread per connection. *)

Serving(c, o) == conns[c].handler \in {"checked", "acted"} /\ conns[c].request = o

\* handle_client after a request: the answer goes out, or the write fails and
\* the thread ends.
Answered(c, ok) ==
  IF conns[c].up
  THEN [conns[c] EXCEPT !.handler = "idle", !.request = NoOp, !.replies = Append(@, ok)]
  ELSE Unused

\* A mutant: the marker is not looked for.
AcceptAnyway(c) ==
  LET o == Head(conns[c].requests)
  IN /\ conns[c].handler = "idle" /\ conns[c].requests # <<>>
     /\ conns' = [conns EXCEPT ![c].handler = "checked", ![c].request = o, ![c].requests = Tail(@)]
     /\ raced' = IF \E d \in Conns : Serving(d, o) THEN raced \cup {o} ELSE raced
     /\ UNCHANGED <<slots, marked, breaks, kills, calls, applied, torn, retried, misled>>

\* once, first half: a marked operation is answered, another one will be run.
\* Nothing keeps two threads from doing so at the same time.
Accept(c) ==
  LET o == Head(conns[c].requests)
      taken == [conns[c] EXCEPT !.requests = Tail(@)]
  IN /\ conns[c].handler = "idle" /\ conns[c].requests # <<>>
     /\ conns' = [conns EXCEPT ![c] =
                    IF o \notin marked THEN [taken EXCEPT !.handler = "checked", !.request = o]
                    ELSE IF taken.up THEN [taken EXCEPT !.replies = Append(@, TRUE)]
                    ELSE Unused]
     /\ raced' = IF o \notin marked /\ \E d \in Conns : Serving(d, o) THEN raced \cup {o} ELSE raced
     /\ UNCHANGED <<slots, marked, breaks, kills, calls, applied, torn, retried, misled>>

\* The operation itself.
Act(c) ==
  /\ conns[c].handler = "checked"
  /\ applied' = [applied EXCEPT ![conns[c].request] = @ + 1]
  /\ conns' = [conns EXCEPT ![c].handler = "acted"]
  /\ UNCHANGED <<slots, marked, breaks, kills, calls, histories>>

\* The operation fails, changes nothing and leaves no marker.
Refuse(c) ==
  /\ conns[c].handler = "checked"
  /\ conns' = [conns EXCEPT ![c] = Answered(c, FALSE)]
  /\ UNCHANGED <<slots, marked, breaks, kills, calls, applied, histories>>

\* once, second half: mark_op_done, then the answer.
Mark(c) ==
  /\ conns[c].handler = "acted"
  /\ marked' = marked \cup {conns[c].request}
  /\ conns' = [conns EXCEPT ![c] = Answered(c, TRUE)]
  /\ UNCHANGED <<slots, breaks, kills, calls, applied, histories>>

\* The marker cannot be written: the answer is an error, the effect stays.
MarkFails(c) ==
  /\ conns[c].handler = "acted"
  /\ conns' = [conns EXCEPT ![c] = Answered(c, FALSE)]
  /\ torn' = [torn EXCEPT ![conns[c].request] = @ + 1]
  /\ UNCHANGED <<slots, marked, breaks, kills, calls, applied, retried, raced, misled>>

-----------------------------------------------------------------------------
(* Faults. *)

\* A connection breaks; what the daemon has not received is lost, or it has
\* received everything.
Break(c) ==
  /\ breaks < MaxBreaks /\ conns[c].up
  /\ \E lost \in BOOLEAN :
       conns' = [conns EXCEPT ![c].up = FALSE, ![c].replies = <<>>,
                              ![c].requests = IF lost THEN <<>> ELSE @]
  /\ breaks' = breaks + 1
  /\ UNCHANGED <<slots, marked, kills, calls, applied, histories>>

\* The daemon is killed and started again.
Kill ==
  /\ kills < MaxKills
  /\ conns' = [c \in Conns |-> Unused]
  /\ kills' = kills + 1
  /\ torn' = [o \in Ops |-> IF \E c \in Conns : conns[c].handler = "acted" /\ conns[c].request = o
                           THEN torn[o] + 1 ELSE torn[o]]
  /\ UNCHANGED <<slots, marked, breaks, calls, applied, retried, raced, misled>>

ClientStep(s) ==
  \/ Connect(s) \/ ConnectFails(s) \/ Send(s)
  \/ Receive(s) \/ AttemptFails(s) \/ Retry(s) \/ GiveUp(s)
DaemonStep(c) == Accept(c) \/ Act(c) \/ Refuse(c) \/ Mark(c) \/ MarkFails(c)

Next ==
  \/ \E o \in Ops, s \in Slots : Call(o, s)
  \/ \E s \in Slots : ClientStep(s)
  \/ \E c \in Conns : DaemonStep(c) \/ Break(c)
  \/ Kill

Spec == Init /\ [][Next]_vars

\* A thread in a call goes on, and so does a handler with something to do.
Fairness ==
  /\ \A s \in Slots : WF_vars(ClientStep(s))
  /\ \A c \in Conns : WF_vars(DaemonStep(c))

FairSpec == Spec /\ Fairness

-----------------------------------------------------------------------------
(* Properties. *)

\* The types, and one stream at a time: a slot's connections beyond its current
\* one have never been used.
TypeOK ==
  /\ slots \in [Slots -> [conn : 0..MaxConns, op : Ops \cup {NoOp}, attempt : 0..operation_retries,
                          pc : {"free", "connect", "send", "wait", "failed"}]]
  /\ \A c \in Conns :
       /\ conns[c].up \in BOOLEAN
       /\ conns[c].handler \in {"idle", "checked", "acted", "ended"}
       /\ conns[c].request \in Ops \cup {NoOp}
       /\ conns[c].requests \in Seq(Ops) /\ conns[c].replies \in Seq(BOOLEAN)
       /\ c[2] > slots[c[1]].conn => conns[c] = Unused
  /\ marked \subseteq Ops
  /\ calls \in [Ops -> {"idle", "called", "ok", "refused", "failed"}]
  /\ applied \in [Ops -> Nat] /\ torn \in [Ops -> Nat]
  /\ breaks \in 0..MaxBreaks /\ kills \in 0..MaxKills

Once == INSTANCE OnceOp WITH effects <- applied

\* Pool, retries and markers implement the promise of OnceOp through lost
\* requests and answers, timeouts, failed reconnects, handlers of old
\* connections that go on, and a daemon killed at any point: Ok means done, and
\* once, unless two attempts met in the daemon or an earlier call failed and
\* left its answer on the stream.
ImplementsOnce == Once!Spec

\* Every operation that was called returns: retries are bounded, a broken or
\* silent stream ends an attempt and a handler always answers or goes away.
OpsEnd == \A o \in Ops : calls[o] = "called" ~> calls[o] \in {"ok", "refused", "failed"}
=============================================================================
