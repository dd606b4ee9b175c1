----------------------------- MODULE MCResolver -----------------------------
(* A small instance of Resolver for TLC.                                   *)
EXTENDS Resolver, TLC

CONSTANTS c1, c2, i1, i2, remote, loopback, other

Line(file, status, local, sport, dport) ==
    [file |-> file, status |-> status, local |-> local, sport |-> sport,
     remote |-> other, dport |-> dport]

\* Remote connections of which two have one port in common, a loopback one
\* over IPv6, one that is not established, and a datagram socket.
MCLines == {Line("tcp", "01", remote, 1, 9), Line("tcp", "01", remote, 2, 9),
            Line("tcp6", "01", loopback, 3, 8), Line("tcp", "02", remote, 1, 7),
            Line("udp", "07", remote, 4, 0)}

Symmetry == Permutations(Connections) \cup Permutations(Inodes)
=============================================================================
