------------------------------ MODULE MCInodes ------------------------------
(* The inode table on a small instance: two handlers, two names. *)
EXTENDS Inodes, TLC

Symmetry == Permutations(Names) \cup Permutations(Threads)
=============================================================================
