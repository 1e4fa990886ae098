---------------------------- MODULE MCBlockCache ----------------------------
(* The block cache on small instances.  Blocks are two units long; a file   *)
(* is one unit (its only block is short) or three (a full block and a short *)
(* one).                                                                    *)
EXTENDS BlockCache, TLC

\* The start of block 0, the seam of both blocks, and block 1 alone: with a file
\* of one unit the last one leaves a gap.
MCRanges == {<<0, 1>>, <<1, 3>>, <<2, 3>>}

Symmetry == Permutations(Workers) \cup Permutations(Files)
=============================================================================
