------------------------------ MODULE MCLidata ------------------------------
(* LIDATA records with more than one block of data, for TLC. *)
EXTENDS Lidata

\* Three times two blocks, and one block after another.
TwoBlocks == {<<3, 2, 1, 0, 2, 0, 0, 1, 0, 1, 0>>, <<2, 0, 1, 0, 1, 0, 2, 0, 0>>}
=============================================================================
