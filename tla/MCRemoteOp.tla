----------------------------- MODULE MCRemoteOp -----------------------------
(* The pool and the daemon on small instances. *)
EXTENDS RemoteOp
=============================================================================
