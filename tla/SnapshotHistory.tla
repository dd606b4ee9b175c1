--------------------------- MODULE SnapshotHistory ---------------------------
(***************************************************************************)
(* What a counter promises to those who read its snapshots (LastSnapshot   *)
(* and Histories in src/engine/counter.go): the last few snapshots, oldest *)
(* first, each with the bytes counted since the one before it and the time *)
(* that they took.  A byte is reported once.                               *)
(***************************************************************************)
EXTENDS Integers, Sequences

CONSTANTS
    SnapShotCount,   \* how many snapshots are kept
    Modulus          \* counters are unsigned and wrap (2^64 in the program)

Directions == {"incoming", "outgoing"}
Bytes      == [Directions -> 0 .. Modulus - 1]

VARIABLES
    total,      \* bytes counted
    reported,   \* bytes up to the newest snapshot
    lastAt,     \* time of the newest snapshot, 0 before the first
    history     \* the snapshots, oldest first

vars == <<total, reported, lastAt, history>>

Minus(a, b) == [d \in Directions |-> (a[d] - b[d]) % Modulus]

Init == /\ total    = [d \in Directions |-> 0]
        /\ reported = total
        /\ lastAt   = 0
        /\ history  = <<>>

Count == /\ total' \in Bytes
         /\ \A d \in Directions : Minus(total, reported)[d] <= Minus(total', reported)[d]
         /\ UNCHANGED <<reported, lastAt, history>>

(* The first snapshot only marks where reporting begins.                   *)
Begin == /\ lastAt = 0
         /\ reported' \in Bytes
         /\ lastAt' \in Nat \ {0}
         /\ UNCHANGED <<total, history>>

Publish == /\ lastAt # 0
           /\ Len(history) < SnapShotCount
           /\ reported' \in Bytes
           /\ \A d \in Directions : Minus(reported', reported)[d] <= Minus(total, reported)[d]
           /\ lastAt' \in Nat /\ lastAt' >= lastAt
           /\ history' = Append(history, [bytes |-> Minus(reported', reported), at |-> lastAt',
                                          duration |-> lastAt' - lastAt])
           /\ UNCHANGED total

(* Only a full history forgets, and only its oldest snapshot.              *)
Forget == /\ Len(history) = SnapShotCount
          /\ history' = Tail(history)
          /\ UNCHANGED <<total, reported, lastAt>>

Next == Count \/ Begin \/ Publish \/ Forget

Spec == Init /\ [][Next]_vars
=============================================================================
