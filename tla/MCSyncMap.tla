------------------------------ MODULE MCSyncMap ------------------------------
(* Small instances of SyncMap for TLC.                                     *)
EXTENDS SyncMap, TLC

Symmetry == Permutations(Threads) \cup Permutations(Keys)
=============================================================================
