-------------------------------- MODULE MCTop --------------------------------
(* A small instance of Top for TLC.                                        *)
EXTENDS Top

CONSTANTS o1, o2, c1, p1, k1

\* Both objects have one pid: a process ends, and its pid is used again.
MCOnePid == [o \in Objects |-> p1]
MCOwnerOf == [c \in Conns |-> o1]
MCKeyOf   == [c \in Conns |-> k1]
=============================================================================
