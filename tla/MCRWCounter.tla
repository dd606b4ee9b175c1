---------------------------- MODULE MCRWCounter ----------------------------
(* Small instances of RWCounter for TLC.                                   *)
EXTENDS RWCounter, TLC

Symmetry == Permutations(Readers)
=============================================================================
