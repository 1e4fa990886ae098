---------------------------- MODULE MCChangeFeed ----------------------------
(* The change feed on small instances: a log of two or three events. *)
EXTENDS ChangeFeed
=============================================================================
