------------------------------ MODULE RWCounter ------------------------------
(***************************************************************************)
(* RWEventCounter (src/engine/counter.go) and the ring that holds its      *)
(* snapshots (src/pkg/ring/array_ring.go).  Workers add to the two atomic  *)
(* totals; the snapshot worker, under SnapshotLock, computes what was      *)
(* added since its last snapshot and overwrites the oldest slot of the     *)
(* ring, one memory write at a time; the web API and the terminal UI read  *)
(* the ring, with the lock (simpleView) or without it (everyone else).     *)
(***************************************************************************)
EXTENDS Integers, Sequences, FiniteSets

CONSTANTS
    SnapShotCount,   \* config.GlobalConfig.SnapShotCount, the length of a ring
    Modulus,         \* the totals are uint64: 2^64
    Sizes,           \* byte counts of read/write events
    Readers,         \* goroutines that read snapshots
    MaxTime,         \* bound: ticks of the clock
    MaxTakes         \* bound: calls of takeSnapshot

ASSUME CounterAssumption ==
    /\ SnapShotCount \in Nat \ {0}   \* NewArrayRing(0) has no slot to index
    /\ Modulus \in Nat \ {0}
    /\ Sizes \subseteq Nat
    /\ MaxTime \in Nat \ {0} /\ MaxTakes \in Nat
    /\ "free" \notin Readers /\ "snapshotWorker" \notin Readers

Directions == {"incoming", "outgoing"}
Bytes      == [Directions -> 0 .. Modulus - 1]
Slots      == 0 .. SnapShotCount - 1
Free       == "free"
Worker     == "snapshotWorker"
Nil        == [at |-> 0]          \* a nil *RWSnapshot
NoRing     == -1                  \* rw.ring before Init
NoBytes    == [d \in Directions |-> 0]
Zero       == [bytes |-> NoBytes, at |-> 0, duration |-> 0]   \* RWSnapshot{}

VARIABLES
    Total,          \* IncomingBytes and OutgoingBytes
    ring,           \* index of the current slot
    slots,          \* the array the ring shares with all its copies
    last,           \* lastIncomingBytes and lastOutgoingBytes
    lastSnapshotAt,
    lock,           \* holder of SnapshotLock
    take,           \* the snapshot worker: its step and its local variables
    reader,         \* each reader: its step and its local variables
    now,
    takes,
    newest          \* history: the last snapshot that was complete

vars    == <<Total, ring, slots, last, lastSnapshotAt, lock, take, reader, now, takes, newest>>
counter == <<ring, slots, last, lastSnapshotAt, newest>>

Idle == [pc |-> "idle", loaded |-> NoBytes, at |-> 0]
Away == [pc |-> "away", i |-> 0, start |-> 0, got |-> Zero]

Init == /\ Total = NoBytes
        /\ ring = NoRing
        /\ slots = [i \in Slots |-> [valuable |-> FALSE, value |-> Nil]]
        /\ last = NoBytes
        /\ lastSnapshotAt = 0
        /\ lock = Free
        /\ take = Idle
        /\ reader = [r \in Readers |-> Away]
        /\ now = 1
        /\ takes = 0
        /\ newest = Zero

(* RWEventCounter.Init, at some time after the counter can be found.       *)
CreateRing ==
    /\ ring = NoRing
    /\ ring' = 0
    /\ UNCHANGED <<Total, slots, last, lastSnapshotAt, lock, take, reader, now, takes, newest>>

(* Bound: a total does not gain 2^64 bytes between two snapshots.          *)
addByRWEvent ==
    /\ ring # NoRing
    /\ \E d \in Directions, n \in Sizes :
         /\ (Total[d] - last[d]) % Modulus < Modulus - n
         /\ Total' = [Total EXCEPT ![d] = (@ + n) % Modulus]
    /\ UNCHANGED <<counter, lock, take, reader, now, takes>>

Tick ==
    /\ now < MaxTime
    /\ now' = now + 1
    /\ UNCHANGED <<Total, counter, lock, take, reader, takes>>

(* Next of the ring.                                                       *)
NextSlot(i) == IF i + 1 = SnapShotCount THEN 0 ELSE i + 1

-----------------------------------------------------------------------------
(* The snapshot worker.                                                    *)

LockPass ==
    /\ take.pc = "idle" /\ lock = Free
    /\ lock' = Worker
    /\ take' = [Idle EXCEPT !.pc = "pass"]
    /\ UNCHANGED <<Total, counter, reader, now, takes>>

UnlockPass ==
    /\ take.pc = "pass"
    /\ lock' = Free
    /\ take' = Idle
    /\ UNCHANGED <<Total, counter, reader, now, takes>>

(* takeSnapshot, once a pass, several times for an interface that has      *)
(* several addresses, or not at all.                                       *)
StartTake ==
    /\ take.pc = "pass" /\ takes < MaxTakes
    /\ ring # NoRing
    /\ takes' = takes + 1
    /\ take' = [take EXCEPT !.pc = "loadOutgoing", !.at = now]
    /\ UNCHANGED <<Total, counter, lock, reader, now>>

LoadOutgoing ==
    /\ take.pc = "loadOutgoing"
    /\ take' = [take EXCEPT !.pc = "loadIncoming", !.loaded["outgoing"] = Total["outgoing"]]
    /\ UNCHANGED <<Total, counter, lock, reader, now, takes>>

(* The first snapshot only sets lastSnapshotAt.                            *)
LoadIncoming ==
    /\ take.pc = "loadIncoming"
    /\ take' = [take EXCEPT !.pc = IF lastSnapshotAt = 0 THEN "finish" ELSE "advance",
                            !.loaded["incoming"] = Total["incoming"]]
    /\ UNCHANGED <<Total, counter, lock, reader, now, takes>>

(* rw.ring = rw.ring.Next(): from here on readers look at the next slot.   *)
AdvanceRing ==
    /\ take.pc = "advance"
    /\ ring' = NextSlot(ring)
    /\ take' = [take EXCEPT !.pc = IF slots[ring'].value = Nil THEN "setValuable"
                                                               ELSE "writeOutgoing"]
    /\ UNCHANGED <<Total, slots, last, lastSnapshotAt, newest, lock, reader, now, takes>>

(* Mutant: the difference of the totals is signed.                         *)
SignedSnapshot == [bytes    |-> [d \in Directions |-> take.loaded[d] - last[d]],
                   at       |-> take.at,
                   duration |-> take.at - lastSnapshotAt]

Snapshot == [bytes    |-> [d \in Directions |-> (take.loaded[d] - last[d]) % Modulus],
             at       |-> take.at,
             duration |-> take.at - lastSnapshotAt]

(* One write to the slot, and on.                                          *)
Write(slot, pc) ==
    /\ slots' = [slots EXCEPT ![ring] = slot]
    /\ take' = [take EXCEPT !.pc = pc]
    /\ UNCHANGED <<Total, ring, last, lastSnapshotAt, newest, lock, reader, now, takes>>

(* SetValue writes the flag before the value.                              *)
SetValuable == take.pc = "setValuable" /\ Write([slots[ring] EXCEPT !.valuable = TRUE], "setValue")
SetValue    == take.pc = "setValue" /\ Write([slots[ring] EXCEPT !.value = Snapshot], "finish")

(* A snapshot that the slot already has is overwritten field by field.     *)
OverwriteSnapshot ==
    \/ /\ take.pc = "writeOutgoing"
       /\ Write([slots[ring] EXCEPT !.value.bytes["outgoing"] = Snapshot.bytes["outgoing"]],
                "writeIncoming")
    \/ /\ take.pc = "writeIncoming"
       /\ Write([slots[ring] EXCEPT !.value.bytes["incoming"] = Snapshot.bytes["incoming"]],
                "writeAt")
    \/ /\ take.pc = "writeAt"
       /\ Write([slots[ring] EXCEPT !.value.at = Snapshot.at], "writeDuration")
    \/ /\ take.pc = "writeDuration"
       /\ Write([slots[ring] EXCEPT !.value.duration = Snapshot.duration], "finish")

(* Mutant: the totals are loaded again, after the difference was taken.    *)
FinishTakeReloading ==
    /\ take.pc = "finish"
    /\ last' = Total
    /\ lastSnapshotAt' = take.at
    /\ newest' = IF lastSnapshotAt = 0 THEN newest ELSE Snapshot
    /\ take' = [Idle EXCEPT !.pc = "pass"]
    /\ UNCHANGED <<Total, ring, slots, lock, reader, now, takes>>

FinishTake ==
    /\ take.pc = "finish"
    /\ last' = take.loaded
    /\ lastSnapshotAt' = take.at
    /\ newest' = IF lastSnapshotAt = 0 THEN newest ELSE Snapshot
    /\ take' = [Idle EXCEPT !.pc = "pass"]
    /\ UNCHANGED <<Total, ring, slots, lock, reader, now, takes>>

SnapshotStep == \/ LockPass \/ UnlockPass \/ StartTake \/ LoadOutgoing \/ LoadIncoming
                \/ AdvanceRing \/ SetValuable \/ SetValue \/ OverwriteSnapshot \/ FinishTake

-----------------------------------------------------------------------------
(* The readers.                                                            *)

LastSnapshot == IF ring = NoRing \/ slots[ring].value = Nil THEN Zero ELSE slots[ring].value

(* Mutant of LockView: the lock is not taken.                              *)
ViewUnlocked(r) ==
    /\ reader[r].pc = "away"
    /\ reader' = [reader EXCEPT ![r].pc = "view"]
    /\ UNCHANGED <<Total, counter, lock, take, now, takes>>

(* simpleView reads LastSnapshot under the lock.                           *)
LockView(r) ==
    /\ reader[r].pc = "away" /\ lock = Free
    /\ lock' = r
    /\ reader' = [reader EXCEPT ![r].pc = "view"]
    /\ UNCHANGED <<Total, counter, take, now, takes>>

ViewLast(r) ==
    /\ reader[r].pc = "view"
    /\ reader' = [reader EXCEPT ![r].pc = "viewed", ![r].got = LastSnapshot]
    /\ UNCHANGED <<Total, counter, lock, take, now, takes>>

UnlockView(r) ==
    /\ reader[r].pc = "viewed"
    /\ lock' = Free
    /\ reader' = [reader EXCEPT ![r] = Away]
    /\ UNCHANGED <<Total, counter, take, now, takes>>

(* Histories, rw.ring.Next().Do(...), is called without the lock.          *)
StartHistories(r) ==
    /\ reader[r].pc = "away" /\ ring # NoRing
    /\ reader' = [reader EXCEPT ![r].pc = "valuable", ![r].i = NextSlot(ring),
                                ![r].start = NextSlot(ring)]
    /\ UNCHANGED <<Total, counter, lock, take, now, takes>>

(* To the next slot, or away with the results when the ring is through.    *)
Onward(r) ==
    LET next == NextSlot(reader[r].i)
    IN  reader' = [reader EXCEPT ![r] = IF next = @.start THEN Away
                                        ELSE [@ EXCEPT !.pc = "valuable", !.i = next]]

(* Do passes over a slot that was never set.                               *)
CheckValuable(r) ==
    /\ reader[r].pc = "valuable"
    /\ IF slots[reader[r].i].valuable
       THEN reader' = [reader EXCEPT ![r].pc = "value"]
       ELSE Onward(r)
    /\ UNCHANGED <<Total, counter, lock, take, now, takes>>

GetValue(r) ==
    /\ reader[r].pc = "value"
    /\ reader' = [reader EXCEPT ![r].pc = "clone", ![r].got = slots[reader[r].i].value]
    /\ UNCHANGED <<Total, counter, lock, take, now, takes>>

Clone(r) ==
    /\ reader[r].pc = "clone"
    /\ Onward(r)
    /\ UNCHANGED <<Total, counter, lock, take, now, takes>>

Read(r) == \/ LockView(r) \/ ViewLast(r) \/ UnlockView(r)
           \/ StartHistories(r) \/ CheckValuable(r) \/ GetValue(r) \/ Clone(r)

-----------------------------------------------------------------------------
Next == CreateRing \/ addByRWEvent \/ Tick \/ SnapshotStep \/ \E r \in Readers : Read(r)

Spec == Init /\ [][Next]_vars

-----------------------------------------------------------------------------
(* Properties.                                                             *)

TakePCs   == {"idle", "pass", "loadOutgoing", "loadIncoming", "advance", "setValuable",
              "setValue", "writeOutgoing", "writeIncoming", "writeAt", "writeDuration",
              "finish"}
ReaderPCs == {"away", "view", "viewed", "valuable", "value", "clone"}
Snapshots == [bytes : Bytes, at : Nat, duration : Nat]

(* The type invariant.                                                     *)
TypeOK ==
    /\ Total \in Bytes /\ last \in Bytes
    /\ ring \in Slots \cup {NoRing}
    /\ slots \in [Slots -> [valuable : BOOLEAN, value : Snapshots \cup {Nil}]]
    /\ lastSnapshotAt \in Nat
    /\ lock \in Readers \cup {Free, Worker}
    /\ take \in [pc : TakePCs, loaded : Bytes, at : Nat]
    /\ reader \in [Readers -> [pc : ReaderPCs, i : Slots, start : Slots, got : Snapshots \cup {Nil}]]
    /\ now \in 1 .. MaxTime
    /\ takes \in 0 .. MaxTakes
    /\ newest \in Snapshots

(* simpleView, which holds SnapshotLock, reports the newest complete       *)
(* snapshot, never a slot that is being overwritten.                       *)
LockedReadIsNewest == \A r \in Readers : reader[r].pc = "viewed" => reader[r].got = newest

(* The comment in ArrayRing.Do (array_ring.go:52): "skip non-valuable      *)
(* value callback in the loop".  The callback of Histories dereferences    *)
(* what it gets.                                                           *)
CallbackGetsValue == \A r \in Readers : reader[r].pc = "clone" => reader[r].got # Nil

(* The ring implements the history of the last snapshots.  The slot that   *)
(* is being written does not belong to it; the snapshot is in it as soon   *)
(* as its last field is written.                                           *)
Writing == take.pc \in {"setValuable", "setValue", "writeOutgoing", "writeIncoming", "writeAt",
                        "writeDuration"}

Kept(i) == slots[i].value # Nil /\ ~(Writing /\ i = ring)

Length == Cardinality({i \in Slots : Kept(i)})

(* The slot that was current j snapshots ago.                              *)
Ago(j) == IF j <= ring THEN ring - j ELSE ring - j + SnapShotCount

Newest == IF Writing THEN 1 ELSE 0

OldestFirst == [k \in 1 .. Length |-> slots[Ago(Newest + Length - k)].value]

Reported   == IF take.pc = "finish" THEN take.loaded ELSE last
ReportedAt == IF take.pc = "finish" THEN take.at ELSE lastSnapshotAt

History == INSTANCE SnapshotHistory WITH
    total <- Total, reported <- Reported, lastAt <- ReportedAt, history <- OldestFirst

ImplementsHistory == History!Spec
=============================================================================
