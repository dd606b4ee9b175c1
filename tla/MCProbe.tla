------------------------------- MODULE MCProbe -------------------------------
(* Small instances of Probe for TLC.                                       *)
EXTENDS Probe, TLC

CONSTANTS p1

MCProcOf == [t \in Threads |-> p1]

Symmetry == Permutations(Threads)
=============================================================================
