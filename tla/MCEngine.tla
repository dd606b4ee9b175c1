------------------------------ MODULE MCEngine ------------------------------
(* Small instances of Engine for TLC.                                      *)
EXTENDS Engine, TLC

CONSTANTS p1, f1, f2, i1, i2, here, lo, eth

(* The address "here" is the one of eth; "lo" is a loopback address, which *)
(* has no interface.                                                       *)
MCIfaceOf == [a \in Addresses |-> IF a = here THEN eth ELSE NoIface]

\* For a run without interfaces.
MCNoIfaceOf == [a \in Addresses |-> NoIface]

(* Bounds on how the goroutines interleave, which keep instances with two  *)
(* workers small.  Time passes, and in the liveness run the snapshot       *)
(* worker moves before it unlocks, only while at most one worker is in a   *)
(* handler; another may begin one at any moment.                           *)
Calm == Cardinality({w \in Workers : job[w].pc # "receive"}) <= 1

CalmTick     == Calm /\ Tick
CalmSnapshot == Calm /\ SnapshotStep
WorkerStep   == \E w \in Workers : Receive(w) \/ Handle(w)

TwoSpec == Init /\ [][WorkerStep \/ SnapshotStep \/ CalmTick]_vars

(* A goroutine that can run does run, time passes, and the ticker fires:   *)
(* startSnapShotWorker never leaves its loop.  Nothing makes an event      *)
(* arrive.                                                                 *)
LiveSpec == /\ Init /\ [][WorkerStep \/ CalmSnapshot \/ FinishPass \/ CalmTick]_vars
            /\ \A w \in Workers : WF_vars(Handle(w))
            /\ WF_vars(CalmSnapshot)
            /\ WF_vars(CalmTick)

\* Bound of the safety run: it ends where the first pass does.
FirstPass == snap.pc # "unlock"

Symmetry == Permutations(Workers) \cup Permutations(FDs) \cup Permutations(Inodes)
=============================================================================
