--------------------------- MODULE MCMountJournal ---------------------------
(* The mount journal on small instances. *)
EXTENDS MountJournal
=============================================================================
