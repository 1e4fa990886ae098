------------------------------- MODULE OnceOp -------------------------------
(***************************************************************************)
(* What a metadata operation promises its caller, whatever happens to the  *)
(* connections underneath.                                                 *)
(*   Ok means that it took effect, and that it will not do so again.       *)
(*   A refusal means that it had no effect and will have none, if it was   *)
(*   not retried.                                                          *)
(*   A failure says nothing: it may have taken effect, or may still.       *)
(*   It takes effect once, and once more only for each time that a handler *)
(*   of the daemon ended between the effect and the marker.                *)
(* Two things break the promise, and nothing else.  Two attempts may be    *)
(* served at the same time (raced), which takes a retry; then the          *)
(* operation may take effect again, after its Ok too.  And an answer may   *)
(* be taken for another operation's (misled), which takes an earlier call  *)
(* that failed.                                                            *)
(***************************************************************************)
EXTENDS Naturals

CONSTANT Ops    \* the operations of the callers

VARIABLES calls,    \* "idle", "called", "ok", "refused" or "failed"
          effects,  \* how often an operation took effect
          torn,     \* how often that left no marker
          retried, raced, misled

vars == <<calls, effects, torn, retried, raced, misled>>

Init ==
  /\ calls = [o \in Ops |-> "idle"]
  /\ effects = [o \in Ops |-> 0]
  /\ torn = [o \in Ops |-> 0]
  /\ retried = {} /\ raced = {} /\ misled = {}

Call(o) ==
  /\ calls[o] = "idle"
  /\ calls' = [calls EXCEPT ![o] = "called"]
  /\ UNCHANGED <<effects, torn, retried, raced, misled>>

Retry(o) ==
  /\ calls[o] = "called"
  /\ retried' = retried \cup {o}
  /\ UNCHANGED <<calls, effects, torn, raced, misled>>

Race(o) ==
  /\ o \in retried
  /\ raced' = raced \cup {o}
  /\ UNCHANGED <<calls, effects, torn, retried, misled>>

Mislead(o) ==
  /\ calls[o] = "called" /\ \E e \in Ops : calls[e] = "failed"
  /\ misled' = misled \cup {o}
  /\ UNCHANGED <<calls, effects, torn, retried, raced>>

TakeEffect(o) ==
  /\ calls[o] # "idle"
  /\ calls[o] = "ok" => o \in raced \cup misled
  /\ calls[o] = "refused" => o \in retried \cup misled
  /\ effects[o] = torn[o] \/ o \in raced
  /\ effects' = [effects EXCEPT ![o] = @ + 1]
  /\ UNCHANGED <<calls, torn, retried, raced, misled>>

Return(o, result) ==
  /\ calls[o] = "called"
  /\ result = "ok" => effects[o] > 0 \/ o \in misled
  /\ result = "refused" => effects[o] = torn[o] \/ o \in retried \cup misled
  /\ calls' = [calls EXCEPT ![o] = result]
  /\ UNCHANGED <<effects, torn, retried, raced, misled>>

Tear(S) ==
  /\ \A o \in S : effects[o] > torn[o] \/ o \in raced
  /\ \A o \in S : calls[o] = "ok" => o \in raced \cup misled
  /\ torn' = [o \in Ops |-> IF o \in S THEN torn[o] + 1 ELSE torn[o]]
  /\ UNCHANGED <<calls, effects, retried, raced, misled>>

Next ==
  \/ \E S \in SUBSET Ops : Tear(S)
  \/ \E o \in Ops :
       \/ Call(o) \/ Retry(o) \/ Race(o) \/ Mislead(o) \/ TakeEffect(o)
       \/ \E result \in {"ok", "refused", "failed"} : Return(o, result)

Spec == Init /\ [][Next]_vars
=============================================================================
