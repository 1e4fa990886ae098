---------------------------- MODULE MCWriteBack -----------------------------
(* The write path on small instances: one file of two or three cells. *)
EXTENDS WriteBack

MCFileOf == [fh \in Handles |-> CHOOSE f \in Files : TRUE]
=============================================================================
