----------------------------- MODULE AtomicPut ------------------------------
(***************************************************************************)
(* What the upload of a file promises: the destination only ever gets,     *)
(* whole and unmixed, a content that some upload was started with, and an  *)
(* upload returns Ok only if its own content was put there since it was    *)
(* called.  An upload that failed may still land, and so may a repetition  *)
(* of one that did not.                                                    *)
(*                                                                         *)
(* One thing breaks the promise, for the uploads of one id: a request of   *)
(* that id changed the gathered file after it was checked and before it    *)
(* was put in place (touched).  It takes a request that its caller gave up *)
(* (late).                                                                 *)
(***************************************************************************)
CONSTANT Values     \* contents of the file

VARIABLES dest,     \* the destination
          source,   \* id of the upload that put it there
          begun,    \* contents that an upload was started with
          result,   \* of the last upload: "none", "open", "ok" or "failed"
          want, id, \* its content and its id
          landed,   \* whether that was put at the destination since it began
          touched,  \* ids whose file was changed after its check
          late      \* whether a request was ever given up

file == <<dest, source>>
upload == <<begun, result, want, id>>
vars == <<file, upload, landed, touched, late>>

Init ==
  /\ begun = {} /\ result = "none" /\ landed = FALSE
  /\ touched = {} /\ late = FALSE
  /\ dest \in Values /\ want \in Values

Begin(v) ==
  /\ result # "open" /\ result' = "open"
  /\ want' = v /\ landed' = FALSE
  /\ begun' = begun \cup {v}
  /\ UNCHANGED file

Land(v) ==
  /\ v \in begun
  /\ dest' = v
  /\ landed' = (landed \/ (result = "open" /\ want = v))
  /\ UNCHANGED upload

\* The file of a touched upload is put in place, whatever it holds.
Spoil ==
  /\ source' \in touched
  /\ landed => landed'
  /\ UNCHANGED upload

Return(r) ==
  /\ result = "open" /\ result' = r
  /\ r = "ok" => landed \/ id \in touched
  /\ UNCHANGED <<file, begun, want, id, landed>>

\* Requests are given up at any time; what was given up may touch a file.
GiveUp == late => late'
Touch == touched \subseteq touched' /\ (touched' # touched => late)

Next ==
  /\ \/ \E v \in Values : Begin(v) \/ Land(v)
     \/ Spoil
     \/ \E r \in {"ok", "failed"} : Return(r)
     \/ UNCHANGED <<file, upload, landed>>
  /\ GiveUp /\ Touch

Spec == Init /\ [][Next]_vars
=============================================================================
