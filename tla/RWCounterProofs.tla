--------------------------- MODULE RWCounterProofs ---------------------------
(***************************************************************************)
(* Theorems about RWCounter, for any length of the ring, any modulus of    *)
(* the totals, any sizes and readers: what a reader with SnapshotLock      *)
(* gets, and that the ring implements SnapshotHistory.                     *)
(***************************************************************************)
EXTENDS RWCounter, SequenceTheorems, FiniteSetTheorems, TLAPS

-----------------------------------------------------------------------------
(* The inductive invariant.                                                *)

BetweenPCs == {"idle", "pass"}
WritePCs   == {"setValuable", "setValue", "writeOutgoing", "writeIncoming", "writeAt",
               "writeDuration"}

(* Before the first snapshot there is nothing in the ring.                 *)
FirstInv ==
    /\ ring = NoRing => take.pc \in BetweenPCs /\ lastSnapshotAt = 0
    /\ lastSnapshotAt = 0 => /\ newest = Zero
                             /\ \A i \in Slots : slots[i].value = Nil
                             /\ take.pc \notin WritePCs \cup {"advance"}

TimeInv ==
    /\ lastSnapshotAt <= now
    /\ take.pc \notin BetweenPCs => /\ 1 <= take.at /\ take.at <= now
                                    /\ lastSnapshotAt <= take.at

(* What was loaded lies between the last snapshot and the totals.          *)
LoadedInv ==
    \A d \in Directions :
        \/ take.pc \in BetweenPCs \cup {"loadOutgoing"}
        \/ take.pc = "loadIncoming" /\ d = "incoming"
        \/ (take.loaded[d] - last[d]) % Modulus <= (Total[d] - last[d]) % Modulus

(* How far the current slot is written.                                    *)
Written == slots[ring].value

SlotInv ==
    /\ take.pc \notin WritePCs \cup {"finish"} => LastSnapshot = newest
    /\ take.pc \in {"setValuable", "setValue"} => Written = Nil
    /\ take.pc \in WritePCs \ {"setValuable", "setValue"} => Written # Nil
    /\ take.pc \in {"writeIncoming", "writeAt", "writeDuration"} =>
         Written.bytes["outgoing"] = Snapshot.bytes["outgoing"]
    /\ take.pc \in {"writeAt", "writeDuration"} =>
         Written.bytes["incoming"] = Snapshot.bytes["incoming"]
    /\ take.pc = "writeDuration" => Written.at = Snapshot.at
    /\ take.pc = "finish" /\ lastSnapshotAt # 0 => Written = Snapshot

LockInv ==
    /\ lock = Worker <=> take.pc # "idle"
    /\ \A r \in Readers : reader[r].pc \in {"view", "viewed"} => lock = r

(* The slots that are kept are the newest ones, without a gap.             *)
RunOf(n) ==
    \A j \in 0 .. SnapShotCount - 1 : Kept(Ago(j)) <=> Newest <= j /\ j < Newest + n

RunInv == \E n \in 0 .. SnapShotCount - Newest : RunOf(n)

CounterInv == /\ TypeOK /\ FirstInv /\ TimeInv /\ LoadedInv /\ SlotInv /\ LockInv
              /\ LockedReadIsNewest

-----------------------------------------------------------------------------
(* Totals are unsigned and wrap.                                           *)

LEMMA ModType ==
    ASSUME NEW a \in Int
    PROVE  a % Modulus \in 0 .. Modulus - 1
  BY CounterAssumption

(* A difference of at most the modulus either way.                         *)
LEMMA ModCases ==
    ASSUME NEW a \in 0 .. Modulus - 1, NEW b \in 0 .. Modulus - 1
    PROVE  (a - b) % Modulus = IF b <= a THEN a - b ELSE a - b + Modulus
  BY CounterAssumption

(* Adding to a total moves it away from the last snapshot, by what was     *)
(* added: the totals do not gain a whole modulus in between.               *)
LEMMA AddMod ==
    ASSUME NEW a \in 0 .. Modulus - 1, NEW b \in 0 .. Modulus - 1, NEW n \in Nat,
           (a - b) % Modulus < Modulus - n
    PROVE  (((a + n) % Modulus) - b) % Modulus = ((a - b) % Modulus) + n
<1>1. n < Modulus
  BY CounterAssumption, ModCases
<1>2. (a + n) % Modulus = IF a + n < Modulus THEN a + n ELSE a + n - Modulus
  BY <1>1, CounterAssumption
<1>3. (a + n) % Modulus \in 0 .. Modulus - 1
  BY <1>2, <1>1, CounterAssumption
<1>4. (a - b) % Modulus = IF b <= a THEN a - b ELSE a - b + Modulus
  BY ModCases
<1>5. (((a + n) % Modulus) - b) % Modulus
        = IF b <= (a + n) % Modulus THEN ((a + n) % Modulus) - b
                                    ELSE ((a + n) % Modulus) - b + Modulus
  BY <1>3, ModCases
<1>6. Modulus \in Nat \ {0}
  BY CounterAssumption
<1>7. CASE a + n < Modulus
  <2>1. (a + n) % Modulus = a + n
    BY <1>2, <1>7
  <2>. QED
    BY <2>1, <1>1, <1>4, <1>5, <1>6, <1>7
<1>8. CASE ~(a + n < Modulus)
  <2>1. (a + n) % Modulus = a + n - Modulus
    BY <1>2, <1>8
  <2>. QED
    BY <2>1, <1>1, <1>4, <1>5, <1>6, <1>8
<1>. QED
  BY <1>7, <1>8

LEMMA NextSlotType ==
    ASSUME NEW i \in Slots
    PROVE  NextSlot(i) \in Slots
  BY CounterAssumption DEF NextSlot, Slots

-----------------------------------------------------------------------------
(* The invariant holds at the start and is kept by every step.             *)

LEMMA SnapshotType ==
    ASSUME TypeOK, TimeInv, take.pc \notin BetweenPCs
    PROVE  /\ Snapshot \in Snapshots
           /\ Snapshot # Nil
<1>1. \A d \in Directions : (take.loaded[d] - last[d]) % Modulus \in 0 .. Modulus - 1
  <2>1. \A d \in Directions : take.loaded[d] - last[d] \in Int
    BY DEF TypeOK, Bytes
  <2>. QED
    BY <2>1, ModType
<1>2. take.at - lastSnapshotAt \in Nat /\ take.at \in Nat
  BY DEF TypeOK, TimeInv
<1>. QED
  BY <1>1, <1>2 DEF Snapshot, Snapshots, Bytes, Nil

LEMMA NilIsNoSnapshot == Nil \notin Snapshots
  BY DEF Nil, Snapshots

LEMMA LastSnapshotType ==
    ASSUME TypeOK
    PROVE  LastSnapshot \in Snapshots
<1>1. Zero \in Snapshots
  BY CounterAssumption DEF Zero, NoBytes, Snapshots, Bytes
<1>. QED
  BY <1>1 DEF LastSnapshot, TypeOK

(* What the steps of the readers leave alone.                              *)
LEMMA ReadFrame ==
    ASSUME NEW r \in Readers, Read(r)
    PROVE  UNCHANGED <<Total, ring, slots, last, lastSnapshotAt, newest, take, now, takes>>
  BY DEF Read, LockView, ViewLast, UnlockView, StartHistories, CheckValuable, GetValue, Clone,
     counter

LEMMA InitInv == Init => CounterInv
<1>. SUFFICES ASSUME Init PROVE CounterInv
  OBVIOUS
<1>1. TypeOK
  <2>1. NoBytes \in Bytes /\ 0 \in Slots
    BY CounterAssumption DEF NoBytes, Bytes, Slots
  <2>2. Zero \in Snapshots
    BY <2>1 DEF Zero, Snapshots
  <2>3. reader \in [Readers -> [pc : ReaderPCs, i : Slots, start : Slots,
                                got : Snapshots \cup {Nil}]]
    BY <2>1, <2>2 DEF Init, Away, ReaderPCs
  <2>. QED
    BY <2>1, <2>2, <2>3, CounterAssumption DEF Init, TypeOK, NoRing, Idle, TakePCs
<1>2. FirstInv
  BY DEF Init, FirstInv, Idle, BetweenPCs, WritePCs
<1>3. TimeInv
  BY DEF Init, TimeInv, Idle, BetweenPCs
<1>4. LoadedInv
  BY DEF Init, LoadedInv, Idle, BetweenPCs
<1>5. SlotInv
  BY DEF Init, SlotInv, Idle, WritePCs, LastSnapshot
<1>6. LockInv
  BY DEF Init, LockInv, Idle, Away, Free, Worker
<1>7. LockedReadIsNewest
  BY DEF Init, LockedReadIsNewest, Away
<1>. QED
  BY <1>1, <1>2, <1>3, <1>4, <1>5, <1>6, <1>7 DEF CounterInv

LEMMA ReaderTypeStep ==
    ASSUME TypeOK, NEW r \in Readers, Read(r)
    PROVE  reader' \in [Readers -> [pc : ReaderPCs, i : Slots, start : Slots,
                                    got : Snapshots \cup {Nil}]]
<1>. DEFINE ReaderStates == [pc : ReaderPCs, i : Slots, start : Slots, got : Snapshots \cup {Nil}]
<1>1. reader \in [Readers -> ReaderStates]
  BY DEF TypeOK
<1>2. 0 \in Slots /\ Zero \in Snapshots
  BY CounterAssumption DEF Slots, Zero, NoBytes, Snapshots, Bytes
<1>3. Away \in ReaderStates
  BY <1>2 DEF Away, ReaderPCs
<1>4. SUFFICES \E x \in ReaderStates : reader' = [reader EXCEPT ![r] = x]
  BY <1>1
<1>5. reader[r] \in ReaderStates
  BY <1>1
<1>6. ASSUME Onward(r)
      PROVE  \E x \in ReaderStates : reader' = [reader EXCEPT ![r] = x]
  <2>1. NextSlot(reader[r].i) \in Slots
    BY <1>5, NextSlotType
  <2>. DEFINE X == IF NextSlot(reader[r].i) = reader[r].start THEN Away
                   ELSE [reader[r] EXCEPT !.pc = "valuable", !.i = NextSlot(reader[r].i)]
  <2>2. X \in ReaderStates
    BY <1>3, <1>5, <2>1 DEF ReaderPCs
  <2>3. reader' = [reader EXCEPT ![r] = X]
    BY <1>1, <1>6 DEF Onward
  <2>. QED
    BY <2>2, <2>3
<1>7. CASE LockView(r)
  <2>1. [reader[r] EXCEPT !.pc = "view"] \in ReaderStates
    BY <1>5 DEF ReaderPCs
  <2>. QED
    BY <2>1, <1>1, <1>7 DEF LockView
<1>8. CASE ViewLast(r)
  <2>1. [reader[r] EXCEPT !.pc = "viewed", !.got = LastSnapshot] \in ReaderStates
    BY <1>5, LastSnapshotType DEF ReaderPCs
  <2>. QED
    BY <2>1, <1>1, <1>8 DEF ViewLast
<1>9. CASE UnlockView(r)
  BY <1>3, <1>9 DEF UnlockView
<1>10. CASE StartHistories(r)
  <2>1. NextSlot(ring) \in Slots
    BY <1>10, NextSlotType DEF StartHistories, TypeOK
  <2>2. [reader[r] EXCEPT !.pc = "valuable", !.i = NextSlot(ring), !.start = NextSlot(ring)]
          \in ReaderStates
    BY <2>1, <1>5 DEF ReaderPCs
  <2>. QED
    BY <2>2, <1>1, <1>10 DEF StartHistories
<1>11. CASE CheckValuable(r)
  <2>1. CASE slots[reader[r].i].valuable
    <3>1. [reader[r] EXCEPT !.pc = "value"] \in ReaderStates
      BY <1>5 DEF ReaderPCs
    <3>. QED
      BY <3>1, <1>1, <1>11, <2>1 DEF CheckValuable
  <2>2. CASE ~slots[reader[r].i].valuable
    BY <1>6, <1>11, <2>2 DEF CheckValuable
  <2>. QED
    BY <2>1, <2>2
<1>12. CASE GetValue(r)
  <2>1. slots[reader[r].i].value \in Snapshots \cup {Nil}
    BY <1>5 DEF TypeOK
  <2>2. [reader[r] EXCEPT !.pc = "clone", !.got = slots[reader[r].i].value] \in ReaderStates
    BY <1>5, <2>1 DEF ReaderPCs
  <2>. QED
    BY <2>2, <1>1, <1>12 DEF GetValue
<1>13. CASE Clone(r)
  BY <1>6, <1>13 DEF Clone
<1>. QED
  BY <1>7, <1>8, <1>9, <1>10, <1>11, <1>12, <1>13 DEF Read

(* The worker's step and its local variables.                              *)
LEMMA TakeTypeStep ==
    ASSUME TypeOK, SnapshotStep
    PROVE  take' \in [pc : TakePCs, loaded : Bytes, at : Nat]
<1>. USE DEF TypeOK, TakePCs
<1>1. CASE LockPass \/ UnlockPass \/ FinishTake
  <2>1. NoBytes \in Bytes
    BY CounterAssumption DEF NoBytes, Bytes
  <2>. QED
    BY <1>1, <2>1 DEF LockPass, UnlockPass, FinishTake, Idle
<1>2. CASE StartTake
  <2>1. take' = [take EXCEPT !.pc = "loadOutgoing", !.at = now]
    BY <1>2 DEF StartTake
  <2>2. now \in Nat /\ take \in [pc : TakePCs, loaded : Bytes, at : Nat]
    BY CounterAssumption
  <2>. QED
    BY <2>1, <2>2
<1>3. CASE LoadOutgoing
  BY <1>3 DEF LoadOutgoing, Bytes, Directions
<1>4. CASE LoadIncoming
  BY <1>4 DEF LoadIncoming, Bytes, Directions
<1>5. CASE AdvanceRing
  BY <1>5 DEF AdvanceRing
<1>6. CASE SetValuable \/ SetValue \/ OverwriteSnapshot
  BY <1>6 DEF SetValuable, SetValue, OverwriteSnapshot, Write
<1>. QED
  BY <1>1, <1>2, <1>3, <1>4, <1>5, <1>6 DEF SnapshotStep

(* A write leaves a snapshot, or nil, in the current slot.                 *)
LEMMA WriteTypeStep ==
    ASSUME CounterInv, SetValuable \/ SetValue \/ OverwriteSnapshot
    PROVE  slots' \in [Slots -> [valuable : BOOLEAN, value : Snapshots \cup {Nil}]]
<1>. DEFINE SlotStates == [valuable : BOOLEAN, value : Snapshots \cup {Nil}]
<1>1. take.pc \in WritePCs
  BY DEF SetValuable, SetValue, OverwriteSnapshot, WritePCs
<1>2. ring \in Slots
  BY <1>1 DEF CounterInv, TypeOK, FirstInv, WritePCs, BetweenPCs
<1>3. slots \in [Slots -> SlotStates]
  BY DEF CounterInv, TypeOK
<1>4. Snapshot \in Snapshots
  BY <1>1, SnapshotType DEF CounterInv, WritePCs, BetweenPCs
<1>5. SUFFICES \E x \in SlotStates : slots' = [slots EXCEPT ![ring] = x]
  BY <1>2, <1>3
<1>6. slots[ring] \in SlotStates
  BY <1>2, <1>3
<1>7. CASE SetValuable
  <2>1. [slots[ring] EXCEPT !.valuable = TRUE] \in SlotStates
    BY <1>6
  <2>. QED
    BY <2>1, <1>7 DEF SetValuable, Write
<1>8. CASE SetValue
  <2>1. [slots[ring] EXCEPT !.value = Snapshot] \in SlotStates
    BY <1>4, <1>6
  <2>. QED
    BY <2>1, <1>8 DEF SetValue, Write
<1>9. CASE OverwriteSnapshot
  <2>1. slots[ring].value \in Snapshots
    BY <1>6, <1>9 DEF OverwriteSnapshot, CounterInv, SlotInv, Written, WritePCs
  <2>2. /\ [slots[ring] EXCEPT !.value.bytes["outgoing"] = Snapshot.bytes["outgoing"]] \in SlotStates
        /\ [slots[ring] EXCEPT !.value.bytes["incoming"] = Snapshot.bytes["incoming"]] \in SlotStates
        /\ [slots[ring] EXCEPT !.value.at = Snapshot.at] \in SlotStates
        /\ [slots[ring] EXCEPT !.value.duration = Snapshot.duration] \in SlotStates
    BY <1>4, <1>6, <2>1 DEF Snapshots, Bytes, Directions
  <2>. QED
    BY <2>2, <1>9 DEF OverwriteSnapshot, Write
<1>. QED
  BY <1>7, <1>8, <1>9

LEMMA TypeStep == CounterInv /\ Next => TypeOK'
<1>. SUFFICES ASSUME CounterInv, Next PROVE TypeOK'
  OBVIOUS
<1>1. TypeOK
  BY DEF CounterInv
<1>2. CASE CreateRing
  BY <1>1, <1>2, CounterAssumption DEF TypeOK, CreateRing, Slots
<1>3. CASE addByRWEvent
  <2>1. PICK d \in Directions, n \in Sizes :
             Total' = [Total EXCEPT ![d] = (Total[d] + n) % Modulus]
    BY <1>3 DEF addByRWEvent
  <2>2. Total[d] + n \in Int
    BY <1>1, CounterAssumption DEF TypeOK, Bytes
  <2>3. Total' \in Bytes
    BY <1>1, <2>1, <2>2, ModType DEF TypeOK, Bytes
  <2>. QED
    BY <1>1, <1>3, <2>3 DEF TypeOK, addByRWEvent, counter
<1>4. CASE Tick
  BY <1>1, <1>4, CounterAssumption DEF TypeOK, Tick, counter
<1>5. CASE SnapshotStep
  <2>1. take' \in [pc : TakePCs, loaded : Bytes, at : Nat]
    BY <1>1, <1>5, TakeTypeStep
  <2>2. CASE LockPass \/ UnlockPass \/ LoadOutgoing \/ LoadIncoming
    BY <1>1, <2>1, <2>2 DEF TypeOK, LockPass, UnlockPass, LoadOutgoing, LoadIncoming, counter
  <2>3. CASE StartTake
    BY <1>1, <2>1, <2>3, CounterAssumption DEF TypeOK, StartTake, counter
  <2>4. CASE AdvanceRing
    <3>1. ring \in Slots
      BY <2>4, <1>1 DEF CounterInv, FirstInv, TypeOK, AdvanceRing, BetweenPCs
    <3>2. NextSlot(ring) \in Slots
      BY <3>1, NextSlotType
    <3>. QED
      BY <1>1, <2>1, <2>4, <3>2 DEF TypeOK, AdvanceRing
  <2>5. CASE SetValuable \/ SetValue \/ OverwriteSnapshot
    <3>1. slots' \in [Slots -> [valuable : BOOLEAN, value : Snapshots \cup {Nil}]]
      BY <2>5, WriteTypeStep
    <3>2. UNCHANGED <<Total, ring, last, lastSnapshotAt, newest, lock, reader, now, takes>>
      BY <2>5 DEF SetValuable, SetValue, OverwriteSnapshot, Write
    <3>. QED
      BY <1>1, <2>1, <3>1, <3>2 DEF TypeOK
  <2>6. CASE FinishTake
    <3>1. Snapshot \in Snapshots
      BY <2>6, SnapshotType DEF CounterInv, FinishTake, BetweenPCs
    <3>2. newest' \in Snapshots
      BY <3>1, <1>1, <2>6 DEF TypeOK, FinishTake
    <3>. QED
      BY <1>1, <2>1, <2>6, <3>2 DEF TypeOK, FinishTake
  <2>. QED
    BY <1>5, <2>2, <2>3, <2>4, <2>5, <2>6 DEF SnapshotStep
<1>6. ASSUME NEW r \in Readers, Read(r) PROVE TypeOK'
  <2>1. lock' \in Readers \cup {Free, Worker}
    BY <1>1, <1>6 DEF TypeOK, Read, LockView, ViewLast, UnlockView, StartHistories,
       CheckValuable, GetValue, Clone
  <2>. QED
    BY <1>1, <1>6, <2>1, ReaderTypeStep, ReadFrame DEF TypeOK
<1>. QED
  BY <1>2, <1>3, <1>4, <1>5, <1>6 DEF Next

LEMMA FirstStep == CounterInv /\ Next => FirstInv'
<1>. SUFFICES ASSUME CounterInv, Next PROVE FirstInv'
  OBVIOUS
<1>. USE DEF CounterInv, FirstInv, BetweenPCs, WritePCs
<1>1. CASE CreateRing
  BY <1>1 DEF CreateRing, NoRing
<1>2. CASE addByRWEvent \/ Tick \/ \E r \in Readers : Read(r)
  <2>1. UNCHANGED <<ring, slots, lastSnapshotAt, newest, take>>
    BY <1>2, ReadFrame DEF addByRWEvent, Tick, counter
  <2>. QED
    BY <2>1
<1>3. CASE LockPass \/ UnlockPass \/ StartTake \/ LoadOutgoing \/ LoadIncoming
  <2>1. UNCHANGED <<ring, slots, lastSnapshotAt, newest>>
    BY <1>3 DEF LockPass, UnlockPass, StartTake, LoadOutgoing, LoadIncoming, counter
  <2>2. /\ ring = NoRing => take'.pc \in BetweenPCs
        /\ lastSnapshotAt = 0 => take'.pc \notin WritePCs \cup {"advance"}
    <3>1. CASE LockPass \/ UnlockPass
      BY <3>1 DEF LockPass, UnlockPass, Idle
    <3>2. CASE StartTake \/ LoadOutgoing
      BY <3>2 DEF StartTake, LoadOutgoing, TypeOK
    <3>3. CASE LoadIncoming
      <4>1. take'.pc = IF lastSnapshotAt = 0 THEN "finish" ELSE "advance"
        BY <3>3 DEF LoadIncoming, TypeOK
      <4>. QED
        BY <3>3, <4>1 DEF LoadIncoming
    <3>. QED
      BY <1>3, <3>1, <3>2, <3>3
  <2>. QED
    BY <2>1, <2>2
<1>4. CASE AdvanceRing
  <2>1. ring \in Slots /\ lastSnapshotAt # 0
    BY <1>4 DEF AdvanceRing, TypeOK
  <2>2. ring' # NoRing
    BY <1>4, <2>1, NextSlotType, CounterAssumption DEF AdvanceRing, Slots, NoRing
  <2>. QED
    BY <1>4, <2>1, <2>2 DEF AdvanceRing
<1>5. CASE SetValuable \/ SetValue \/ OverwriteSnapshot
  <2>1. take.pc \in WritePCs
    BY <1>5 DEF SetValuable, SetValue, OverwriteSnapshot
  <2>2. UNCHANGED <<ring, lastSnapshotAt>>
    BY <1>5 DEF SetValuable, SetValue, OverwriteSnapshot, Write
  <2>. QED
    BY <2>1, <2>2
<1>6. CASE FinishTake
  <2>1. lastSnapshotAt' # 0 /\ ring # NoRing /\ ring' = ring
    BY <1>6 DEF FinishTake, TimeInv
  <2>. QED
    BY <2>1
<1>. QED
  BY <1>1, <1>2, <1>3, <1>4, <1>5, <1>6 DEF Next, SnapshotStep

LEMMA TimeStep == CounterInv /\ Next => TimeInv'
<1>. SUFFICES ASSUME CounterInv, Next PROVE TimeInv'
  OBVIOUS
<1>. USE DEF CounterInv, TimeInv, BetweenPCs, TypeOK
<1>1. CASE CreateRing \/ addByRWEvent \/ \E r \in Readers : Read(r)
  <2>1. UNCHANGED <<lastSnapshotAt, now, take>>
    BY <1>1, ReadFrame DEF CreateRing, addByRWEvent, counter
  <2>. QED
    BY <2>1
<1>2. CASE Tick
  BY <1>2 DEF Tick, counter
<1>3. CASE LockPass \/ UnlockPass \/ FinishTake
  <2>1. lastSnapshotAt' <= now' /\ take'.pc \in BetweenPCs
    BY <1>3 DEF LockPass, UnlockPass, FinishTake, Idle, counter
  <2>. QED
    BY <2>1
<1>4. CASE StartTake
  BY <1>4 DEF StartTake, counter
<1>5. CASE LoadOutgoing \/ LoadIncoming \/ AdvanceRing \/ SetValuable \/ SetValue \/ OverwriteSnapshot
  <2>1. UNCHANGED <<lastSnapshotAt, now>> /\ take'.at = take.at /\ take.pc \notin BetweenPCs
    BY <1>5 DEF LoadOutgoing, LoadIncoming, AdvanceRing, SetValuable, SetValue,
       OverwriteSnapshot, Write, counter
  <2>. QED
    BY <2>1
<1>. QED
  BY <1>1, <1>2, <1>3, <1>4, <1>5 DEF Next, SnapshotStep

LEMMA LoadedStep == CounterInv /\ Next => LoadedInv'
<1>. SUFFICES ASSUME CounterInv, Next, NEW d \in Directions
              PROVE  (\/ take.pc \in BetweenPCs \cup {"loadOutgoing"}
                      \/ take.pc = "loadIncoming" /\ d = "incoming"
                      \/ (take.loaded[d] - last[d]) % Modulus
                           <= (Total[d] - last[d]) % Modulus)'
  BY DEF LoadedInv
<1>. DEFINE Between(l, t) == (l - last[d]) % Modulus <= (t - last[d]) % Modulus
<1>0. /\ Total \in Bytes /\ last \in Bytes /\ take.loaded \in Bytes
      /\ Total[d] \in 0 .. Modulus - 1 /\ last[d] \in 0 .. Modulus - 1
      /\ take.loaded[d] \in 0 .. Modulus - 1
      /\ take \in [pc : TakePCs, loaded : Bytes, at : Nat]
  BY DEF CounterInv, TypeOK, Bytes
<1>1. \/ take.pc \in BetweenPCs \cup {"loadOutgoing"}
      \/ take.pc = "loadIncoming" /\ d = "incoming"
      \/ Between(take.loaded[d], Total[d])
  BY DEF CounterInv, LoadedInv
<1>2. Between(Total[d], Total[d])
  BY <1>0, ModType
<1>3. CASE CreateRing \/ Tick \/ \E r \in Readers : Read(r)
  <2>1. UNCHANGED <<Total, last, take>>
    BY <1>3, ReadFrame DEF CreateRing, Tick, counter
  <2>. QED
    BY <1>1, <2>1
<1>4. CASE addByRWEvent
  <2>1. PICK c \in Directions, n \in Sizes :
             /\ (Total[c] - last[c]) % Modulus < Modulus - n
             /\ Total' = [Total EXCEPT ![c] = (Total[c] + n) % Modulus]
    BY <1>4 DEF addByRWEvent
  <2>2. UNCHANGED <<last, take>>
    BY <1>4 DEF addByRWEvent, counter
  <2>3. CASE c # d
    <3>1. Total'[d] = Total[d]
      BY <2>1, <2>3, <1>0 DEF Bytes
    <3>. QED
      BY <1>1, <2>2, <3>1
  <2>4. CASE c = d
    <3>1. n \in Nat
      BY CounterAssumption
    <3>2. Total'[d] = (Total[d] + n) % Modulus
      BY <2>1, <2>4, <1>0 DEF Bytes
    <3>3. (Total'[d] - last[d]) % Modulus = ((Total[d] - last[d]) % Modulus) + n
      BY <2>1, <2>4, <3>1, <3>2, <1>0, AddMod
    <3>4. (Total[d] - last[d]) % Modulus \in Int /\ (take.loaded[d] - last[d]) % Modulus \in Int
      BY <1>0, ModType
    <3>5. Between(take.loaded[d], Total[d]) => Between(take.loaded[d], Total'[d])
      BY <3>1, <3>3, <3>4
    <3>. QED
      BY <1>1, <2>2, <3>5
  <2>. QED
    BY <2>3, <2>4
<1>5. CASE LockPass \/ UnlockPass \/ StartTake \/ FinishTake
  <2>1. take'.pc \in BetweenPCs \cup {"loadOutgoing"}
    <3>1. CASE LockPass \/ UnlockPass \/ FinishTake
      BY <3>1 DEF LockPass, UnlockPass, FinishTake, Idle, BetweenPCs
    <3>2. CASE StartTake
      BY <1>0, <3>2 DEF StartTake
    <3>. QED
      BY <1>5, <3>1, <3>2
  <2>. QED
    BY <2>1
<1>6. CASE LoadOutgoing
  <2>1. take'.pc = "loadIncoming" /\ UNCHANGED <<Total, last>>
    BY <1>0, <1>6 DEF LoadOutgoing, counter
  <2>2. CASE d = "incoming"
    BY <2>1, <2>2
  <2>3. CASE d = "outgoing"
    <3>1. take'.loaded[d] = Total[d]
      BY <1>0, <1>6, <2>3 DEF LoadOutgoing, Bytes
    <3>. QED
      BY <1>2, <2>1, <3>1
  <2>. QED
    BY <2>2, <2>3 DEF Directions
<1>7. CASE LoadIncoming
  <2>1. take.pc = "loadIncoming" /\ UNCHANGED <<Total, last>>
    BY <1>7 DEF LoadIncoming, counter
  <2>2. CASE d = "incoming"
    <3>1. take'.loaded[d] = Total[d]
      BY <1>0, <1>7, <2>2 DEF LoadIncoming, Bytes
    <3>. QED
      BY <1>2, <2>1, <3>1
  <2>3. CASE d = "outgoing"
    <3>1. take'.loaded[d] = take.loaded[d]
      BY <1>0, <1>7, <2>3 DEF LoadIncoming, Bytes
    <3>. QED
      BY <1>1, <2>1, <2>3, <3>1 DEF BetweenPCs
  <2>. QED
    BY <2>2, <2>3 DEF Directions
<1>8. CASE AdvanceRing \/ SetValuable \/ SetValue \/ OverwriteSnapshot
  <2>1. take.pc \notin BetweenPCs \cup {"loadOutgoing", "loadIncoming"}
    BY <1>8 DEF AdvanceRing, SetValuable, SetValue, OverwriteSnapshot, BetweenPCs
  <2>2. take'.loaded = take.loaded /\ UNCHANGED <<Total, last>>
    BY <1>0, <1>8 DEF AdvanceRing, SetValuable, SetValue, OverwriteSnapshot, Write
  <2>. QED
    BY <1>1, <2>1, <2>2
<1>. QED
  BY <1>3, <1>4, <1>5, <1>6, <1>7, <1>8 DEF Next, SnapshotStep

(* The steps that write a slot, one after the other.                       *)
LEMMA SlotWriteStep ==
    ASSUME CounterInv, SetValuable \/ SetValue \/ OverwriteSnapshot
    PROVE  SlotInv'
<1>1. take.pc \in WritePCs
  BY DEF SetValuable, SetValue, OverwriteSnapshot, WritePCs
<1>2. ring \in Slots /\ lastSnapshotAt # 0
  BY <1>1 DEF CounterInv, TypeOK, FirstInv, WritePCs, BetweenPCs
<1>3. /\ slots \in [Slots -> [valuable : BOOLEAN, value : Snapshots \cup {Nil}]]
      /\ slots[ring] \in [valuable : BOOLEAN, value : Snapshots \cup {Nil}]
      /\ take \in [pc : TakePCs, loaded : Bytes, at : Nat]
  BY <1>2 DEF CounterInv, TypeOK
<1>4. Snapshot \in Snapshots /\ Snapshot # Nil
  BY <1>1, SnapshotType DEF CounterInv, WritePCs, BetweenPCs
<1>5. UNCHANGED <<ring, last, lastSnapshotAt, newest>>
  BY DEF SetValuable, SetValue, OverwriteSnapshot, Write
<1>6. take'.loaded = take.loaded /\ take'.at = take.at
  BY <1>3 DEF SetValuable, SetValue, OverwriteSnapshot, Write
<1>7. Snapshot' = Snapshot
  BY <1>5, <1>6 DEF Snapshot
<1>8. ASSUME NEW slot, NEW pc, Write(slot, pc) PROVE Written' = slot.value /\ take'.pc = pc
  BY <1>2, <1>3, <1>5, <1>8 DEF Write, Written
<1>9. CASE SetValuable
  <2>1. Written' = Written /\ take'.pc = "setValue" /\ take.pc = "setValuable"
    BY <1>3, <1>8, <1>9 DEF SetValuable, Written
  <2>. QED
    BY <2>1 DEF CounterInv, SlotInv, WritePCs
<1>10. CASE SetValue
  <2>1. Written' = Snapshot /\ take'.pc = "finish"
    BY <1>3, <1>8, <1>10 DEF SetValue
  <2>. QED
    BY <1>7, <2>1 DEF SlotInv, WritePCs
<1>11. CASE OverwriteSnapshot
  <2>1. Written \in Snapshots
    BY <1>3, <1>11 DEF OverwriteSnapshot, CounterInv, SlotInv, Written, WritePCs
  <2>2. CASE take.pc = "writeOutgoing"
    <3>1. Write([slots[ring] EXCEPT !.value.bytes["outgoing"] = Snapshot.bytes["outgoing"]],
                "writeIncoming")
      BY <1>11, <2>2 DEF OverwriteSnapshot
    <3>2. /\ Written' = [Written EXCEPT !.bytes["outgoing"] = Snapshot.bytes["outgoing"]]
          /\ take'.pc = "writeIncoming"
      BY <1>3, <1>8, <3>1 DEF Written
    <3>3. Written' # Nil /\ Written'.bytes["outgoing"] = Snapshot.bytes["outgoing"]
      BY <2>1, <3>2 DEF Snapshots, Bytes, Directions, Nil
    <3>. QED
      BY <1>7, <3>2, <3>3 DEF SlotInv, WritePCs
  <2>3. CASE take.pc = "writeIncoming"
    <3>1. Write([slots[ring] EXCEPT !.value.bytes["incoming"] = Snapshot.bytes["incoming"]],
                "writeAt")
      BY <1>11, <2>3 DEF OverwriteSnapshot
    <3>2. /\ Written' = [Written EXCEPT !.bytes["incoming"] = Snapshot.bytes["incoming"]]
          /\ take'.pc = "writeAt"
      BY <1>3, <1>8, <3>1 DEF Written
    <3>3. Written.bytes["outgoing"] = Snapshot.bytes["outgoing"]
      BY <2>3 DEF CounterInv, SlotInv
    <3>4. /\ Written' # Nil
          /\ Written'.bytes["outgoing"] = Snapshot.bytes["outgoing"]
          /\ Written'.bytes["incoming"] = Snapshot.bytes["incoming"]
      BY <2>1, <3>2, <3>3 DEF Snapshots, Bytes, Directions, Nil
    <3>. QED
      BY <1>7, <3>2, <3>4 DEF SlotInv, WritePCs
  <2>4. CASE take.pc = "writeAt"
    <3>1. Write([slots[ring] EXCEPT !.value.at = Snapshot.at], "writeDuration")
      BY <1>11, <2>4 DEF OverwriteSnapshot
    <3>2. Written' = [Written EXCEPT !.at = Snapshot.at] /\ take'.pc = "writeDuration"
      BY <1>3, <1>8, <3>1 DEF Written
    <3>3. Written' # Nil /\ Written'.bytes = Written.bytes /\ Written'.at = Snapshot.at
      BY <2>1, <3>2 DEF Snapshots, Nil
    <3>. QED
      BY <1>7, <2>4, <3>2, <3>3 DEF CounterInv, SlotInv, WritePCs
  <2>5. CASE take.pc = "writeDuration"
    <3>1. Write([slots[ring] EXCEPT !.value.duration = Snapshot.duration], "finish")
      BY <1>11, <2>5 DEF OverwriteSnapshot
    <3>2. Written' = [Written EXCEPT !.duration = Snapshot.duration] /\ take'.pc = "finish"
      BY <1>3, <1>8, <3>1 DEF Written
    <3>3. /\ Written.at = Snapshot.at
          /\ Written.bytes["outgoing"] = Snapshot.bytes["outgoing"]
          /\ Written.bytes["incoming"] = Snapshot.bytes["incoming"]
      BY <2>5 DEF CounterInv, SlotInv
    <3>4. Written.bytes = Snapshot.bytes
      BY <1>4, <2>1, <3>3 DEF Snapshots, Bytes, Directions
    <3>5. Written' = Snapshot
      BY <1>4, <2>1, <3>2, <3>3, <3>4 DEF Snapshots
    <3>. QED
      BY <1>7, <3>2, <3>5 DEF SlotInv, WritePCs
  <2>. QED
    BY <1>11, <2>2, <2>3, <2>4, <2>5 DEF OverwriteSnapshot
<1>. QED
  BY <1>9, <1>10, <1>11

LEMMA SlotStep == CounterInv /\ Next => SlotInv'
<1>. SUFFICES ASSUME CounterInv, Next PROVE SlotInv'
  OBVIOUS
<1>0. SlotInv /\ take \in [pc : TakePCs, loaded : Bytes, at : Nat]
  BY DEF CounterInv, TypeOK
<1>1. CASE CreateRing
  <2>1. take.pc \in BetweenPCs /\ newest = Zero
    BY <1>1 DEF CreateRing, CounterInv, FirstInv
  <2>2. 0 \in Slots /\ slots[0].value = Nil
    BY <1>1, CounterAssumption DEF CreateRing, CounterInv, FirstInv, Slots
  <2>3. LastSnapshot' = Zero /\ UNCHANGED <<take, newest>>
    BY <1>1, <2>2 DEF CreateRing, LastSnapshot
  <2>. QED
    BY <2>1, <2>3 DEF SlotInv, BetweenPCs, WritePCs
<1>2. CASE addByRWEvent \/ Tick \/ \E r \in Readers : Read(r)
  <2>1. UNCHANGED <<ring, slots, last, lastSnapshotAt, newest, take>>
    BY <1>2, ReadFrame DEF addByRWEvent, Tick, counter
  <2>2. UNCHANGED <<Written, Snapshot, LastSnapshot>>
    BY <2>1 DEF Written, Snapshot, LastSnapshot
  <2>. QED
    BY <1>0, <2>1, <2>2 DEF SlotInv
<1>3. CASE LockPass \/ UnlockPass \/ StartTake \/ LoadOutgoing \/ LoadIncoming
  <2>1. UNCHANGED <<ring, slots, last, lastSnapshotAt, newest>>
    BY <1>3 DEF LockPass, UnlockPass, StartTake, LoadOutgoing, LoadIncoming, counter
  <2>2. take.pc \notin WritePCs \cup {"finish"}
    BY <1>3 DEF LockPass, UnlockPass, StartTake, LoadOutgoing, LoadIncoming, WritePCs
  <2>3. /\ take'.pc \notin WritePCs
        /\ take'.pc = "finish" => lastSnapshotAt = 0
    <3>1. CASE LockPass \/ UnlockPass
      BY <3>1 DEF LockPass, UnlockPass, Idle, WritePCs
    <3>2. CASE StartTake \/ LoadOutgoing
      BY <1>0, <3>2 DEF StartTake, LoadOutgoing, WritePCs
    <3>3. CASE LoadIncoming
      <4>1. take'.pc = IF lastSnapshotAt = 0 THEN "finish" ELSE "advance"
        BY <1>0, <3>3 DEF LoadIncoming
      <4>. QED
        BY <4>1 DEF WritePCs
    <3>. QED
      BY <1>3, <3>1, <3>2, <3>3
  <2>4. LastSnapshot' = LastSnapshot
    BY <2>1 DEF LastSnapshot
  <2>. QED
    BY <1>0, <2>1, <2>2, <2>3, <2>4 DEF SlotInv, WritePCs
<1>4. CASE AdvanceRing
  <2>1. take'.pc = IF Written' = Nil THEN "setValuable" ELSE "writeOutgoing"
    BY <1>0, <1>4 DEF AdvanceRing, Written
  <2>. QED
    BY <2>1 DEF SlotInv, WritePCs
<1>5. CASE SetValuable \/ SetValue \/ OverwriteSnapshot
  BY <1>5, SlotWriteStep
<1>6. CASE FinishTake
  <2>1. /\ take.pc = "finish" /\ take'.pc = "pass" /\ UNCHANGED <<ring, slots>>
        /\ newest' = IF lastSnapshotAt = 0 THEN newest ELSE Snapshot
    BY <1>6 DEF FinishTake, Idle
  <2>2. LastSnapshot' = LastSnapshot
    BY <2>1 DEF LastSnapshot
  <2>3. ring # NoRing /\ ring \in Slots
    BY <2>1 DEF CounterInv, FirstInv, TypeOK, BetweenPCs
  <2>4. CASE lastSnapshotAt = 0
    <3>1. newest = Zero /\ slots[ring].value = Nil
      BY <2>3, <2>4 DEF CounterInv, FirstInv
    <3>. QED
      BY <2>1, <2>2, <2>4, <3>1 DEF SlotInv, LastSnapshot, WritePCs
  <2>5. CASE lastSnapshotAt # 0
    <3>1. slots[ring].value = Snapshot
      BY <1>0, <2>1, <2>5 DEF SlotInv, Written
    <3>2. Snapshot # Nil
      BY <2>1, SnapshotType DEF CounterInv, BetweenPCs
    <3>3. LastSnapshot = Snapshot
      BY <2>3, <3>1, <3>2 DEF LastSnapshot
    <3>. QED
      BY <2>1, <2>2, <2>5, <3>3 DEF SlotInv, WritePCs
  <2>. QED
    BY <2>4, <2>5
<1>. QED
  BY <1>1, <1>2, <1>3, <1>4, <1>5, <1>6 DEF Next, SnapshotStep

(* Who holds SnapshotLock.  That a reader that has looked still has the    *)
(* newest snapshot rests on the lock: no take ends while it is held.       *)
LEMMA LockStep == CounterInv /\ Next => LockInv' /\ LockedReadIsNewest'
<1>. SUFFICES ASSUME CounterInv, Next PROVE LockInv' /\ LockedReadIsNewest'
  OBVIOUS
<1>0. /\ take \in [pc : TakePCs, loaded : Bytes, at : Nat]
      /\ reader \in [Readers -> [pc : ReaderPCs, i : Slots, start : Slots,
                                 got : Snapshots \cup {Nil}]]
      /\ lock \in Readers \cup {Free, Worker}
  BY DEF CounterInv, TypeOK
<1>1. /\ lock = Worker <=> take.pc # "idle"
      /\ \A r \in Readers : reader[r].pc \in {"view", "viewed"} => lock = r
      /\ \A r \in Readers : reader[r].pc = "viewed" => reader[r].got = newest
  BY DEF CounterInv, LockInv, LockedReadIsNewest
<1>2. Free \notin Readers /\ Worker \notin Readers /\ Free # Worker
  BY CounterAssumption DEF Free, Worker
<1>. USE DEF LockInv, LockedReadIsNewest
<1>3. CASE CreateRing \/ addByRWEvent \/ Tick
  <2>1. UNCHANGED <<lock, take, reader, newest>>
    BY <1>3 DEF CreateRing, addByRWEvent, Tick, counter
  <2>. QED
    BY <1>1, <2>1
<1>4. CASE LockPass
  <2>1. lock = Free /\ lock' = Worker /\ take'.pc = "pass" /\ UNCHANGED <<reader, newest>>
    BY <1>4 DEF LockPass, Idle, counter
  <2>2. \A r \in Readers : reader[r].pc \notin {"view", "viewed"}
    BY <1>1, <1>2, <2>1
  <2>. QED
    BY <2>1, <2>2
<1>5. CASE UnlockPass
  <2>1. lock = Worker /\ lock' = Free /\ take'.pc = "idle" /\ UNCHANGED <<reader, newest>>
    BY <1>1, <1>5 DEF UnlockPass, Idle, counter
  <2>2. \A r \in Readers : reader[r].pc \notin {"view", "viewed"}
    BY <1>1, <1>2, <2>1
  <2>. QED
    BY <1>2, <2>1, <2>2
<1>6. CASE StartTake \/ LoadOutgoing \/ LoadIncoming \/ AdvanceRing \/ SetValuable \/ SetValue
           \/ OverwriteSnapshot
  <2>1. UNCHANGED <<lock, reader, newest>>
    BY <1>6 DEF StartTake, LoadOutgoing, LoadIncoming, AdvanceRing, SetValuable, SetValue,
       OverwriteSnapshot, Write, counter
  <2>2. take.pc # "idle"
    BY <1>6 DEF StartTake, LoadOutgoing, LoadIncoming, AdvanceRing, SetValuable, SetValue,
       OverwriteSnapshot
  <2>3. take'.pc # "idle"
    <3>1. CASE StartTake \/ LoadOutgoing
      BY <1>0, <3>1 DEF StartTake, LoadOutgoing
    <3>2. CASE LoadIncoming
      <4>1. take'.pc = IF lastSnapshotAt = 0 THEN "finish" ELSE "advance"
        BY <1>0, <3>2 DEF LoadIncoming
      <4>. QED
        BY <4>1
    <3>3. CASE AdvanceRing
      <4>1. take'.pc = IF slots[ring'].value = Nil THEN "setValuable" ELSE "writeOutgoing"
        BY <1>0, <3>3 DEF AdvanceRing
      <4>. QED
        BY <4>1
    <3>4. CASE SetValuable \/ SetValue \/ OverwriteSnapshot
      BY <1>0, <3>4 DEF SetValuable, SetValue, OverwriteSnapshot, Write
    <3>. QED
      BY <1>6, <3>1, <3>2, <3>3, <3>4
  <2>. QED
    BY <1>1, <2>1, <2>2, <2>3
<1>7. CASE FinishTake
  <2>1. /\ take.pc = "finish" /\ take'.pc = "pass" /\ UNCHANGED <<lock, reader>>
    BY <1>7 DEF FinishTake, Idle
  <2>2. \A r \in Readers : reader[r].pc \notin {"view", "viewed"}
    BY <1>1, <1>2, <2>1
  <2>. QED
    BY <1>1, <2>1, <2>2
<1>8. ASSUME NEW r \in Readers, Read(r) PROVE LockInv' /\ LockedReadIsNewest'
  <2>1. UNCHANGED <<ring, slots, newest, take>>
    BY <1>8, ReadFrame
  <2>2. \A s \in Readers \ {r} : reader'[s] = reader[s]
    BY <1>0, <1>8 DEF Read, LockView, ViewLast, UnlockView, StartHistories, CheckValuable,
       GetValue, Clone, Onward
  <2>3. CASE LockView(r)
    <3>1. lock = Free /\ lock' = r /\ reader'[r].pc = "view"
      BY <1>0, <2>3 DEF LockView
    <3>2. \A s \in Readers : reader[s].pc \notin {"view", "viewed"}
      BY <1>1, <1>2, <3>1
    <3>. QED
      BY <1>1, <1>2, <2>1, <2>2, <3>1, <3>2
  <2>4. CASE ViewLast(r)
    <3>1. /\ reader[r].pc = "view" /\ reader'[r].pc = "viewed" /\ reader'[r].got = LastSnapshot
          /\ lock' = lock
      BY <1>0, <2>4 DEF ViewLast
    <3>2. lock = r
      BY <1>1, <3>1
    <3>3. take.pc = "idle"
      BY <1>1, <1>2, <3>2
    <3>4. LastSnapshot = newest
      BY <3>3 DEF CounterInv, SlotInv, WritePCs
    <3>. QED
      BY <1>1, <2>1, <2>2, <3>1, <3>2, <3>4
  <2>5. CASE UnlockView(r)
    <3>1. reader[r].pc = "viewed" /\ reader'[r].pc = "away" /\ lock' = Free
      BY <1>0, <2>5 DEF UnlockView, Away
    <3>2. \A s \in Readers \ {r} : reader[s].pc \notin {"view", "viewed"}
      BY <1>1, <3>1
    <3>. QED
      BY <1>1, <1>2, <2>1, <2>2, <3>1, <3>2
  <2>6. CASE StartHistories(r) \/ CheckValuable(r) \/ GetValue(r) \/ Clone(r)
    <3>1. lock' = lock
      BY <2>6 DEF StartHistories, CheckValuable, GetValue, Clone
    <3>2. Onward(r) => reader'[r].pc \in {"away", "valuable"}
      BY <1>0 DEF Onward, Away
    <3>3. reader'[r].pc \notin {"view", "viewed"}
      BY <1>0, <2>6, <3>2 DEF StartHistories, CheckValuable, GetValue, Clone
    <3>. QED
      BY <1>1, <2>1, <2>2, <3>1, <3>3
  <2>. QED
    BY <1>8, <2>3, <2>4, <2>5, <2>6 DEF Read
<1>. QED
  BY <1>3, <1>4, <1>5, <1>6, <1>7, <1>8 DEF Next, SnapshotStep

LEMMA StepInv == CounterInv /\ [Next]_vars => CounterInv'
<1>1. CounterInv /\ Next => CounterInv'
  BY TypeStep, FirstStep, TimeStep, LoadedStep, SlotStep, LockStep DEF CounterInv
<1>2. CounterInv /\ UNCHANGED vars => CounterInv'
  BY DEF CounterInv, TypeOK, FirstInv, TimeInv, LoadedInv, SlotInv, LockInv,
     LockedReadIsNewest, Written, Snapshot, LastSnapshot, vars
<1>. QED
  BY <1>1, <1>2

LEMMA InvHolds == Spec => []CounterInv
  BY InitInv, StepInv, PTL DEF Spec

(* The state of a counter has its types.  In particular a snapshot is      *)
(* never of negative duration, and never more than the totals can hold.    *)
THEOREM CounterTypeCorrect == Spec => []TypeOK
<1>1. CounterInv => TypeOK
  BY DEF CounterInv
<1>. QED
  BY <1>1, InvHolds, PTL

(* simpleView (src/web/api/simple_export.go), which holds SnapshotLock, gets the *)
(* newest complete snapshot, whatever the snapshot worker is at.           *)
THEOREM LockedReadsAreNewest == Spec => []LockedReadIsNewest
<1>1. CounterInv => LockedReadIsNewest
  BY DEF CounterInv
<1>. QED
  BY <1>1, InvHolds, PTL

-----------------------------------------------------------------------------
(* The ring implements SnapshotHistory.                                    *)

(* Ago for any current slot r, and the history of a run of n snapshots     *)
(* that ends b slots before r.                                             *)
Back(r, j) == IF j <= r THEN r - j ELSE r - j + SnapShotCount

Run(r, ss, b, n) == [k \in 1 .. n |-> ss[Back(r, b + n - k)].value]

Rings == Slots \cup {NoRing}

LEMMA BackType ==
    ASSUME NEW r \in Rings, NEW j \in 0 .. SnapShotCount - 1
    PROVE  Back(r, j) \in Slots
  BY CounterAssumption DEF Back, Slots, Rings, NoRing

LEMMA BackInjective ==
    ASSUME NEW r \in Rings, NEW j \in 0 .. SnapShotCount - 1, NEW k \in 0 .. SnapShotCount - 1,
           Back(r, j) = Back(r, k)
    PROVE  j = k
  BY CounterAssumption DEF Back, Slots, Rings, NoRing

LEMMA BackOnto ==
    ASSUME NEW r \in Rings, NEW i \in Slots
    PROVE  \E j \in 0 .. SnapShotCount - 1 : Back(r, j) = i
<1>1. CASE i <= r
  <2>1. r - i \in 0 .. SnapShotCount - 1 /\ Back(r, r - i) = i
    BY <1>1, CounterAssumption DEF Back, Slots, Rings, NoRing
  <2>. QED
    BY <2>1
<1>2. CASE ~(i <= r)
  <2>1. r - i + SnapShotCount \in 0 .. SnapShotCount - 1 /\ Back(r, r - i + SnapShotCount) = i
    BY <1>2, CounterAssumption DEF Back, Slots, Rings, NoRing
  <2>. QED
    BY <2>1
<1>. QED
  BY <1>1, <1>2

(* One slot further, everything is one slot further back.                  *)
LEMMA BackNext ==
    ASSUME NEW r \in Slots
    PROVE  /\ \A j \in 1 .. SnapShotCount - 1 : Back(NextSlot(r), j) = Back(r, j - 1)
           /\ Back(NextSlot(r), 0) = Back(r, SnapShotCount - 1)
           /\ Back(r, 0) = r
  BY CounterAssumption DEF Back, Slots, NextSlot

(* A set of slots that are n in a row has n elements.                      *)
LEMMA RunLength ==
    ASSUME NEW r \in Rings, NEW S \in SUBSET Slots,
           NEW b \in 0 .. 1, NEW n \in 0 .. SnapShotCount - b,
           \A j \in 0 .. SnapShotCount - 1 : Back(r, j) \in S <=> b <= j /\ j < b + n
    PROVE  Cardinality(S) = n
<1>0. SnapShotCount \in Nat \ {0} /\ n \in Nat
  BY CounterAssumption
<1>. DEFINE f == [k \in 1 .. n |-> Back(r, b + k - 1)]
<1>1. \A k \in 1 .. n : /\ b + k - 1 \in 0 .. SnapShotCount - 1
                        /\ b <= b + k - 1 /\ b + k - 1 < b + n
  BY <1>0
<1>2. f \in [1 .. n -> S]
  BY <1>1
<1>3. ASSUME NEW k \in 1 .. n, NEW m \in 1 .. n, f[k] = f[m] PROVE k = m
  <2>1. b + k - 1 = b + m - 1
    BY <1>1, <1>3, BackInjective
  <2>. QED
    BY <1>0, <2>1
<1>4. ASSUME NEW i \in S PROVE \E k \in 1 .. n : f[k] = i
  <2>1. PICK j \in 0 .. SnapShotCount - 1 : Back(r, j) = i
    BY BackOnto
  <2>2. b <= j /\ j < b + n
    BY <2>1
  <2>3. j - b + 1 \in 1 .. n /\ b + (j - b + 1) - 1 = j
    BY <1>0, <2>2
  <2>. QED
    BY <2>1, <2>3
<1>5. f \in Bijection(1 .. n, S)
  BY <1>2, <1>3, <1>4 DEF Bijection, Injection, Surjection, IsInjective
<1>. QED
  BY <1>0, <1>5, FS_CountingElements DEF ExistsBijection

(* While the kept slots are a run, the history is that run.                *)
LEMMA HistoryIsRun ==
    ASSUME TypeOK, NEW n \in 0 .. SnapShotCount - Newest, RunOf(n)
    PROVE  OldestFirst = Run(ring, slots, Newest, n)
<1>1. ring \in Rings /\ Newest \in 0 .. 1
  BY DEF TypeOK, Rings, Newest
<1>. DEFINE S == {i \in Slots : Kept(i)}
<1>2. \A j : Ago(j) = Back(ring, j)
  BY DEF Ago, Back
<1>3. \A j \in 0 .. SnapShotCount - 1 : Back(ring, j) \in S <=> Newest <= j /\ j < Newest + n
  BY <1>1, <1>2, BackType DEF RunOf
<1>4. Length = n
  <2>. HIDE DEF S
  <2>1. S \in SUBSET Slots
    BY DEF S
  <2>2. Cardinality(S) = n
    BY <1>1, <1>3, <2>1, RunLength
  <2>. QED
    BY <2>2 DEF Length, S
<1>. QED
  BY <1>2, <1>4 DEF OldestFirst, Run

HistoryFollowsRun ==
    \A n \in 0 .. SnapShotCount - Newest :
      RunOf(n) => OldestFirst = Run(ring, slots, Newest, n)

LEMMA HistoryFollows == TypeOK => HistoryFollowsRun
  BY HistoryIsRun DEF HistoryFollowsRun

LEMMA HistoryFollowsNext == TypeOK' => HistoryFollowsRun'
  BY HistoryFollows, PTL

(* Sequences that differ in their last, or their first, element.           *)
LEMMA IsSequence ==
    ASSUME NEW V, NEW n \in Nat, NEW f \in [1 .. n -> V]
    PROVE  f \in Seq(V) /\ Len(f) = n
<1>1. f \in Seq(V)
  BY SeqDef
<1>. QED
  BY <1>1, LenProperties

LEMMA IsAppend ==
    ASSUME NEW V, NEW n \in Nat, NEW f \in [1 .. n -> V], NEW g \in [1 .. n + 1 -> V],
           \A k \in 1 .. n : g[k] = f[k]
    PROVE  g = Append(f, g[n + 1])
<1>1. f \in Seq(V) /\ Len(f) = n /\ g \in Seq(V) /\ Len(g) = n + 1
  BY IsSequence
<1>. DEFINE h == Append(f, g[n + 1])
<1>2. /\ h \in Seq(V) /\ Len(h) = n + 1
      /\ \A k \in 1 .. n + 1 : h[k] = IF k <= n THEN f[k] ELSE g[n + 1]
  BY <1>1, AppendProperties
<1>3. \A k \in 1 .. n + 1 : g[k] = h[k]
  BY <1>2
<1>. QED
  BY <1>1, <1>2, <1>3, SeqEqual

LEMMA IsTail ==
    ASSUME NEW V, NEW n \in Nat, NEW f \in [1 .. n + 1 -> V], NEW g \in [1 .. n -> V],
           \A k \in 1 .. n : g[k] = f[k + 1]
    PROVE  g = Tail(f)
<1>1. f \in Seq(V) /\ Len(f) = n + 1 /\ g \in Seq(V) /\ Len(g) = n
  BY IsSequence
<1>2. f # <<>>
  BY <1>1, EmptySeq
<1>3. /\ Tail(f) \in Seq(V) /\ Len(Tail(f)) = n
      /\ \A k \in 1 .. n : Tail(f)[k] = f[k + 1]
  BY <1>1, <1>2, HeadTailProperties
<1>4. \A k \in 1 .. n : g[k] = Tail(f)[k]
  BY <1>3
<1>. QED
  BY <1>1, <1>3, <1>4, SeqEqual

LEMMA RunType ==
    ASSUME NEW r \in Rings, NEW b \in 0 .. 1, NEW n \in 0 .. SnapShotCount - b,
           NEW ss \in [Slots -> [valuable : BOOLEAN, value : Snapshots \cup {Nil}]]
    PROVE  Run(r, ss, b, n) \in [1 .. n -> Snapshots \cup {Nil}]
<1>1. \A k \in 1 .. n : b + n - k \in 0 .. SnapShotCount - 1
  BY CounterAssumption
<1>2. \A k \in 1 .. n : Back(r, b + n - k) \in Slots
  BY <1>1, BackType
<1>. QED
  BY <1>2 DEF Run

(* A write to the current slot that is not, or not yet, its last one.      *)
LEMMA SameRun ==
    ASSUME NEW r \in Slots, NEW n \in 0 .. SnapShotCount - 1,
           NEW ss, NEW tt, \A i \in Slots \ {r} : tt[i] = ss[i]
    PROVE  Run(r, tt, 1, n) = Run(r, ss, 1, n)
<1>1. \A k \in 1 .. n : 1 + n - k \in 1 .. SnapShotCount - 1 /\ 1 + n - k \in 0 .. SnapShotCount - 1
  BY CounterAssumption
<1>2. \A j \in 1 .. SnapShotCount - 1 : Back(r, j) \in Slots /\ Back(r, j) # r
  BY CounterAssumption DEF Back, Slots
<1>. QED
  BY <1>1, <1>2 DEF Run

(* The last write: the current slot becomes part of the run.               *)
LEMMA RunGrows ==
    ASSUME NEW r \in Slots, NEW n \in 0 .. SnapShotCount - 1,
           NEW ss \in [Slots -> [valuable : BOOLEAN, value : Snapshots \cup {Nil}]],
           NEW tt \in [Slots -> [valuable : BOOLEAN, value : Snapshots \cup {Nil}]],
           \A i \in Slots \ {r} : tt[i] = ss[i]
    PROVE  Run(r, tt, 0, n + 1) = Append(Run(r, ss, 1, n), tt[r].value)
<1>. DEFINE V == Snapshots \cup {Nil}
            f == Run(r, ss, 1, n)
            g == Run(r, tt, 0, n + 1)
<1>0. r \in Rings /\ SnapShotCount \in Nat \ {0} /\ n \in Nat
  BY CounterAssumption DEF Rings
<1>1. f \in [1 .. n -> V] /\ g \in [1 .. n + 1 -> V]
  BY <1>0, RunType
<1>2. \A k \in 1 .. n : g[k] = f[k]
  <2>1. f = Run(r, tt, 1, n)
    BY SameRun
  <2>2. \A k \in 1 .. n : 0 + (n + 1) - k = 1 + n - k /\ k \in 1 .. n + 1
    BY <1>0
  <2>. QED
    BY <2>1, <2>2 DEF Run
<1>3. g[n + 1] = tt[r].value
  <2>1. 0 + (n + 1) - (n + 1) = 0 /\ n + 1 \in 1 .. n + 1
    BY <1>0
  <2>. QED
    BY <2>1, BackNext DEF Run
<1>4. g = Append(f, g[n + 1])
  <2>. HIDE DEF f, g, V
  <2>. QED
    BY <1>0, <1>1, <1>2, IsAppend
<1>. QED
  BY <1>3, <1>4

(* The ring moves on: a full run loses its oldest slot, any other keeps    *)
(* them all.                                                               *)
LEMMA RunMoves ==
    ASSUME NEW r \in Slots, NEW n \in 0 .. SnapShotCount,
           NEW ss \in [Slots -> [valuable : BOOLEAN, value : Snapshots \cup {Nil}]]
    PROVE  /\ n < SnapShotCount => Run(NextSlot(r), ss, 1, n) = Run(r, ss, 0, n)
           /\ n = SnapShotCount => Run(NextSlot(r), ss, 1, n - 1) = Tail(Run(r, ss, 0, n))
<1>0. SnapShotCount \in Nat \ {0} /\ n \in Nat /\ r \in Rings /\ NextSlot(r) \in Rings
  BY CounterAssumption, NextSlotType DEF Rings
<1>1. CASE n < SnapShotCount
  <2>1. \A k \in 1 .. n : 1 + n - k \in 1 .. SnapShotCount - 1 /\ (1 + n - k) - 1 = 0 + n - k
    BY <1>0, <1>1
  <2>2. \A k \in 1 .. n : Back(NextSlot(r), 1 + n - k) = Back(r, 0 + n - k)
    BY <2>1, BackNext
  <2>. QED
    BY <1>1, <2>2 DEF Run
<1>2. CASE n = SnapShotCount
  <2>. DEFINE V == Snapshots \cup {Nil}
              f == Run(r, ss, 0, n)
              g == Run(NextSlot(r), ss, 1, n - 1)
  <2>1. n - 1 \in Nat /\ n - 1 \in 0 .. SnapShotCount - 1 /\ (n - 1) + 1 = n
    BY <1>0, <1>2
  <2>2. f \in [1 .. (n - 1) + 1 -> V] /\ g \in [1 .. n - 1 -> V]
    BY <1>0, <2>1, RunType
  <2>3. \A k \in 1 .. n - 1 : g[k] = f[k + 1]
    <3>1. \A k \in 1 .. n - 1 : /\ 1 + (n - 1) - k \in 1 .. SnapShotCount - 1
                                /\ (1 + (n - 1) - k) - 1 = 0 + n - (k + 1)
                                /\ k + 1 \in 1 .. n
      BY <1>0, <1>2
    <3>2. \A k \in 1 .. n - 1 : Back(NextSlot(r), 1 + (n - 1) - k) = Back(r, 0 + n - (k + 1))
      BY <3>1, BackNext
    <3>. QED
      BY <3>1, <3>2 DEF Run
  <2>4. g = Tail(f)
    <3>. HIDE DEF f, g, V
    <3>. QED
      BY <2>1, <2>2, <2>3, IsTail
  <2>. QED
    BY <1>2, <2>4
<1>. QED
  BY <1>0, <1>1, <1>2

-----------------------------------------------------------------------------
(* What each step does to the run of kept slots and to the history.        *)

SlotStates == [valuable : BOOLEAN, value : Snapshots \cup {Nil}]

LEMMA RunInit == Init => RunInv
<1>. SUFFICES ASSUME Init PROVE RunInv
  OBVIOUS
<1>1. Newest = 0
  BY DEF Init, Newest, Writing, Idle
<1>2. \A j \in 0 .. SnapShotCount - 1 : ~Kept(Ago(j))
  <2>1. ring \in Rings /\ \A j : Ago(j) = Back(ring, j)
    BY DEF Init, Rings, Ago, Back
  <2>2. \A i \in Slots : ~Kept(i)
    BY DEF Init, Kept
  <2>. QED
    BY <2>1, <2>2, BackType
<1>3. 0 \in 0 .. SnapShotCount - Newest /\ RunOf(0)
  BY <1>1, <1>2, CounterAssumption DEF RunOf
<1>. QED
  BY <1>3 DEF RunInv

LEMMA RunFrame ==
    ASSUME TypeOK, TypeOK', RunInv, UNCHANGED <<ring, slots>>, Writing' <=> Writing
    PROVE  RunInv' /\ OldestFirst' = OldestFirst
<1>1. PICK n \in 0 .. SnapShotCount - Newest : RunOf(n)
  BY DEF RunInv
<1>2. Newest' = Newest /\ \A i : Kept(i)' <=> Kept(i)
  BY DEF Newest, Kept
<1>3. RunOf(n)'
  BY <1>1, <1>2 DEF RunOf, Ago
<1>4. OldestFirst = Run(ring, slots, Newest, n)
  BY <1>1, HistoryIsRun
<1>5. OldestFirst' = Run(ring', slots', Newest', n)
  BY <1>2, <1>3, HistoryFollowsNext DEF HistoryFollowsRun
<1>. QED
  BY <1>2, <1>3, <1>4, <1>5 DEF RunInv

LEMMA RunCreate ==
    ASSUME CounterInv, CounterInv', CreateRing
    PROVE  RunInv' /\ OldestFirst' = <<>> /\ OldestFirst = <<>>
<1>1. /\ \A i \in Slots : slots[i].value = Nil
      /\ take.pc \in BetweenPCs /\ slots' = slots /\ take' = take
      /\ ring \in Rings /\ ring' \in Rings
  BY DEF CounterInv, FirstInv, CreateRing, TypeOK, Rings
<1>2. Newest = 0 /\ Newest' = 0 /\ 0 \in 0 .. SnapShotCount - 0
  BY <1>1, CounterAssumption DEF Newest, Writing, BetweenPCs
<1>3. \A i \in Slots : ~Kept(i) /\ ~Kept(i)'
  BY <1>1 DEF Kept
<1>4. \A j \in 0 .. SnapShotCount - 1 : Ago(j) \in Slots /\ Ago(j)' \in Slots
  BY <1>1, BackType DEF Ago, Back
<1>5. RunOf(0) /\ RunOf(0)'
  BY <1>2, <1>3, <1>4 DEF RunOf, Kept
<1>6. OldestFirst = Run(ring, slots, 0, 0)
  BY <1>2, <1>5, HistoryIsRun DEF CounterInv
<1>7. OldestFirst' = Run(ring', slots', 0, 0)
  BY <1>2, <1>5, HistoryFollowsNext DEF HistoryFollowsRun, CounterInv
<1>8. \A r, ss : Run(r, ss, 0, 0) = <<>>
  BY DEF Run
<1>. QED
  BY <1>2, <1>5, <1>6, <1>7, <1>8 DEF RunInv

LEMMA RunAdvances ==
    ASSUME CounterInv, CounterInv', RunInv, AdvanceRing
    PROVE  /\ RunInv'
           /\ \/ OldestFirst' = OldestFirst
              \/ Len(OldestFirst) = SnapShotCount /\ OldestFirst' = Tail(OldestFirst)
<1>0. SnapShotCount \in Nat \ {0}
  BY CounterAssumption
<1>1. /\ take.pc = "advance" /\ ring' = NextSlot(ring) /\ slots' = slots
      /\ take'.pc \in {"setValuable", "writeOutgoing"}
  <2>1. take'.pc = IF slots[ring'].value = Nil THEN "setValuable" ELSE "writeOutgoing"
    BY DEF AdvanceRing, CounterInv, TypeOK
  <2>. QED
    BY <2>1 DEF AdvanceRing
<1>2. ring \in Slots /\ ring \in Rings /\ slots \in [Slots -> SlotStates]
  BY <1>1 DEF CounterInv, FirstInv, TypeOK, BetweenPCs, SlotStates, Rings
<1>3. Newest = 0 /\ Newest' = 1 /\ Writing' /\ ~Writing
  BY <1>1 DEF Newest, Writing
<1>4. PICK n \in 0 .. SnapShotCount : RunOf(n)
  BY <1>0, <1>3 DEF RunInv
<1>. DEFINE m == IF n = SnapShotCount THEN n - 1 ELSE n
<1>5. m \in 0 .. SnapShotCount - 1
  BY <1>0
<1>6. RunOf(m)'
  <2>. SUFFICES ASSUME NEW j \in 0 .. SnapShotCount - 1
                PROVE  Kept(Ago(j))' <=> 1 <= j /\ j < 1 + m
    BY <1>3 DEF RunOf
  <2>1. \A k : Ago(k) = Back(ring, k) /\ Ago(k)' = Back(NextSlot(ring), k)
    BY <1>1 DEF Ago, Back
  <2>2. CASE j = 0
    <3>1. NextSlot(ring) = Back(NextSlot(ring), 0)
      BY <1>2, NextSlotType, BackNext
    <3>2. ~Kept(Ago(j))'
      BY <1>1, <1>3, <2>1, <2>2, <3>1 DEF Kept
    <3>. QED
      BY <2>2, <3>2
  <2>3. CASE j # 0
    <3>1. j \in 1 .. SnapShotCount - 1 /\ j - 1 \in 0 .. SnapShotCount - 1
      BY <2>3, <1>0
    <3>2. Ago(j)' = Back(ring, j - 1) /\ Back(ring, j - 1) = Ago(j - 1)
      BY <1>2, <2>1, <3>1, BackNext
    <3>3. Ago(j)' # NextSlot(ring)
      <4>1. NextSlot(ring) = Back(NextSlot(ring), 0) /\ NextSlot(ring) \in Rings
        BY <1>2, NextSlotType, BackNext DEF Rings
      <4>. QED
        BY <1>0, <2>1, <2>3, <4>1, BackInjective
    <3>4. Kept(Ago(j))' <=> Kept(Ago(j - 1))
      BY <1>1, <1>3, <3>2, <3>3 DEF Kept
    <3>5. Kept(Ago(j - 1)) <=> 0 <= j - 1 /\ j - 1 < 0 + n
      BY <1>3, <1>4, <3>1 DEF RunOf
    <3>. QED
      BY <1>0, <3>1, <3>4, <3>5
  <2>. QED
    BY <2>2, <2>3
<1>7. OldestFirst = Run(ring, slots, 0, n)
  <2>1. TypeOK /\ n \in 0 .. SnapShotCount - Newest
    BY <1>0, <1>3 DEF CounterInv
  <2>. QED
    BY <1>3, <1>4, <2>1, HistoryIsRun
<1>8. OldestFirst' = Run(NextSlot(ring), slots, 1, m)
  BY <1>1, <1>3, <1>5, <1>6, HistoryFollowsNext DEF HistoryFollowsRun, CounterInv
<1>9. RunInv'
  BY <1>3, <1>5, <1>6 DEF RunInv
<1>10. CASE n = SnapShotCount
  <2>1. Run(NextSlot(ring), slots, 1, n - 1) = Tail(Run(ring, slots, 0, n))
    BY <1>2, <1>10, RunMoves DEF SlotStates
  <2>2. Run(ring, slots, 0, n) \in [1 .. n -> Snapshots \cup {Nil}]
    BY <1>0, <1>2, RunType DEF SlotStates
  <2>3. Len(OldestFirst) = SnapShotCount
    BY <1>7, <1>10, <2>2, IsSequence
  <2>. QED
    BY <1>7, <1>8, <1>9, <1>10, <2>1, <2>3
<1>11. CASE n # SnapShotCount
  <2>1. Run(NextSlot(ring), slots, 1, n) = Run(ring, slots, 0, n)
    BY <1>0, <1>2, <1>11, RunMoves DEF SlotStates
  <2>. QED
    BY <1>7, <1>8, <1>9, <1>11, <2>1
<1>. QED
  BY <1>10, <1>11

(* What the steps that write a slot have in common.                        *)
LEMMA RunWriteFrame ==
    ASSUME CounterInv, CounterInv', SetValuable \/ SetValue \/ OverwriteSnapshot
    PROVE  /\ take.pc \in WritePCs /\ Writing /\ Newest = 1 /\ lastSnapshotAt # 0
           /\ ring \in Slots /\ ring \in Rings
           /\ UNCHANGED <<Total, ring, last, lastSnapshotAt>>
           /\ take'.loaded = take.loaded /\ take'.at = take.at
           /\ slots \in [Slots -> SlotStates] /\ slots' \in [Slots -> SlotStates]
           /\ \A i \in Slots \ {ring} : slots'[i] = slots[i]
           /\ SetValue => take'.pc = "finish"
           /\ OverwriteSnapshot /\ take.pc = "writeDuration" => take'.pc = "finish"
           /\ ~SetValue /\ take.pc # "writeDuration" => take'.pc \in WritePCs
<1>1. take.pc \in WritePCs
  BY DEF SetValuable, SetValue, OverwriteSnapshot, WritePCs
<1>2. Writing /\ Newest = 1
  BY <1>1 DEF Writing, Newest, WritePCs
<1>3. ring \in Slots /\ ring \in Rings /\ lastSnapshotAt # 0
  BY <1>1 DEF CounterInv, TypeOK, FirstInv, WritePCs, BetweenPCs, Rings
<1>4. slots \in [Slots -> SlotStates] /\ slots' \in [Slots -> SlotStates]
  BY DEF CounterInv, TypeOK, SlotStates
<1>5. take \in [pc : TakePCs, loaded : Bytes, at : Nat]
  BY DEF CounterInv, TypeOK
<1>6. /\ UNCHANGED <<Total, ring, last, lastSnapshotAt>>
      /\ take'.loaded = take.loaded /\ take'.at = take.at
      /\ \A i \in Slots \ {ring} : slots'[i] = slots[i]
  BY <1>3, <1>4, <1>5 DEF SetValuable, SetValue, OverwriteSnapshot, Write
<1>7. /\ SetValue => take'.pc = "finish"
      /\ OverwriteSnapshot /\ take.pc = "writeDuration" => take'.pc = "finish"
      /\ ~SetValue /\ take.pc # "writeDuration" => take'.pc \in WritePCs
  BY <1>5 DEF SetValuable, SetValue, OverwriteSnapshot, Write, WritePCs
<1>. QED
  BY <1>1, <1>2, <1>3, <1>4, <1>6, <1>7

LEMMA RunWrites ==
    ASSUME CounterInv, CounterInv', RunInv, SetValuable \/ SetValue \/ OverwriteSnapshot,
           take'.pc \in WritePCs
    PROVE  RunInv' /\ OldestFirst' = OldestFirst
<1>0. SnapShotCount \in Nat \ {0}
  BY CounterAssumption
<1>1. /\ Writing /\ Newest = 1 /\ ring \in Slots /\ ring' = ring
      /\ \A i \in Slots \ {ring} : slots'[i] = slots[i]
  BY RunWriteFrame
<1>2. Writing' /\ Newest' = 1
  BY DEF Writing, Newest, WritePCs
<1>3. PICK n \in 0 .. SnapShotCount - 1 : RunOf(n)
  BY <1>1 DEF RunInv
<1>4. \A i \in Slots : Kept(i)' <=> Kept(i)
  BY <1>1, <1>2 DEF Kept
<1>5. RunOf(n)'
  <2>1. \A j \in 0 .. SnapShotCount - 1 : Ago(j) \in Slots /\ Ago(j)' = Ago(j)
    BY <1>1, BackType DEF Ago, Back, Rings
  <2>2. \A j \in 0 .. SnapShotCount - 1 : Kept(Ago(j))' <=> Kept(Ago(j))
    BY <1>1, <1>2, <1>4, <2>1 DEF Kept
  <2>. QED
    BY <1>1, <1>2, <1>3, <2>2 DEF RunOf
<1>6. OldestFirst = Run(ring, slots, 1, n)
  <2>1. TypeOK /\ n \in 0 .. SnapShotCount - Newest
    BY <1>1 DEF CounterInv
  <2>. QED
    BY <1>1, <1>3, <2>1, HistoryIsRun
<1>7. OldestFirst' = Run(ring, slots', 1, n)
  BY <1>1, <1>2, <1>5, HistoryFollowsNext DEF HistoryFollowsRun, CounterInv
<1>8. Run(ring, slots', 1, n) = Run(ring, slots, 1, n)
  BY <1>1, SameRun
<1>. QED
  BY <1>2, <1>5, <1>6, <1>7, <1>8 DEF RunInv

LEMMA RunPublishes ==
    ASSUME CounterInv, CounterInv', RunInv, SetValuable \/ SetValue \/ OverwriteSnapshot,
           take'.pc = "finish"
    PROVE  /\ RunInv'
           /\ Len(OldestFirst) < SnapShotCount
           /\ OldestFirst' = Append(OldestFirst, Snapshot)
<1>0. SnapShotCount \in Nat \ {0}
  BY CounterAssumption
<1>1. /\ Writing /\ Newest = 1 /\ ring \in Slots /\ ring \in Rings
      /\ UNCHANGED <<ring, last, lastSnapshotAt>> /\ lastSnapshotAt # 0
      /\ take'.loaded = take.loaded /\ take'.at = take.at
      /\ slots \in [Slots -> SlotStates] /\ slots' \in [Slots -> SlotStates]
      /\ \A i \in Slots \ {ring} : slots'[i] = slots[i]
  BY RunWriteFrame
<1>2. ~Writing' /\ Newest' = 0
  BY DEF Writing, Newest
<1>3. PICK n \in 0 .. SnapShotCount - 1 : RunOf(n)
  BY <1>1 DEF RunInv
<1>4. Snapshot' = Snapshot /\ slots'[ring].value = Snapshot /\ Snapshot # Nil
  <2>1. Snapshot' = Snapshot
    BY <1>1 DEF Snapshot
  <2>2. Written' = Snapshot'
    BY <1>1 DEF CounterInv, SlotInv
  <2>3. take.pc \notin BetweenPCs
    BY <1>1 DEF Writing, BetweenPCs
  <2>. QED
    BY <1>1, <2>1, <2>2, <2>3, SnapshotType DEF CounterInv, Written
<1>5. n + 1 \in 0 .. SnapShotCount
  BY <1>0
<1>6. RunOf(n + 1)'
  <2>. SUFFICES ASSUME NEW j \in 0 .. SnapShotCount - 1
                PROVE  Kept(Ago(j))' <=> 0 <= j /\ j < 0 + (n + 1)
    BY <1>2 DEF RunOf
  <2>1. Ago(j) = Back(ring, j) /\ Ago(j)' = Back(ring, j) /\ Back(ring, j) \in Slots
    BY <1>1, BackType DEF Ago, Back
  <2>2. CASE j = 0
    <3>1. Back(ring, j) = ring
      BY <1>1, <2>2, BackNext
    <3>2. Kept(Ago(j))'
      BY <1>1, <1>2, <1>4, <2>1, <3>1 DEF Kept
    <3>. QED
      BY <1>0, <2>2, <3>2
  <2>3. CASE j # 0
    <3>1. Back(ring, j) # ring
      <4>1. Back(ring, 0) = ring
        BY <1>1, BackNext
      <4>. QED
        BY <1>0, <1>1, <2>3, <4>1, BackInjective
    <3>2. Kept(Ago(j))' <=> Kept(Ago(j))
      BY <1>1, <1>2, <2>1, <3>1 DEF Kept
    <3>3. Kept(Ago(j)) <=> 1 <= j /\ j < 1 + n
      BY <1>1, <1>3 DEF RunOf
    <3>. QED
      BY <1>0, <2>3, <3>2, <3>3
  <2>. QED
    BY <2>2, <2>3
<1>7. OldestFirst = Run(ring, slots, 1, n)
  <2>1. TypeOK /\ n \in 0 .. SnapShotCount - Newest
    BY <1>1 DEF CounterInv
  <2>. QED
    BY <1>1, <1>3, <2>1, HistoryIsRun
<1>8. OldestFirst' = Run(ring, slots', 0, n + 1)
  <2>1. n + 1 \in 0 .. SnapShotCount - Newest'
    BY <1>0, <1>2
  <2>. QED
    BY <1>1, <1>2, <1>6, <2>1, HistoryFollowsNext DEF HistoryFollowsRun, CounterInv
<1>9. Run(ring, slots', 0, n + 1) = Append(Run(ring, slots, 1, n), Snapshot)
  BY <1>1, <1>4, RunGrows DEF SlotStates
<1>10. Len(OldestFirst) < SnapShotCount
  <2>1. Run(ring, slots, 1, n) \in [1 .. n -> Snapshots \cup {Nil}]
    BY <1>0, <1>1, RunType DEF SlotStates
  <2>2. Len(OldestFirst) = n
    BY <1>0, <1>7, <2>1, IsSequence
  <2>. QED
    BY <1>0, <2>2
<1>11. RunInv'
  BY <1>0, <1>2, <1>5, <1>6 DEF RunInv
<1>. QED
  BY <1>7, <1>8, <1>9, <1>10, <1>11

-----------------------------------------------------------------------------
(* Every step of the counter is a step of SnapshotHistory, or none.        *)

(* Bytes counted beside a take: what was loaded stays behind the totals.   *)
LEMMA AddBeyond ==
    ASSUME NEW a \in 0 .. Modulus - 1, NEW b \in 0 .. Modulus - 1, NEW l \in 0 .. Modulus - 1,
           NEW n \in Nat, (a - b) % Modulus < Modulus - n,
           (l - b) % Modulus <= (a - b) % Modulus
    PROVE  (a - l) % Modulus <= (((a + n) % Modulus) - l) % Modulus
<1>0. Modulus \in Nat \ {0}
  BY CounterAssumption
<1>1. /\ (a - b) % Modulus = IF b <= a THEN a - b ELSE a - b + Modulus
      /\ (l - b) % Modulus = IF b <= l THEN l - b ELSE l - b + Modulus
      /\ (a - l) % Modulus = IF l <= a THEN a - l ELSE a - l + Modulus
  BY ModCases
<1>2. (a - l) % Modulus <= (a - b) % Modulus
  BY <1>0, <1>1
<1>3. (a - l) % Modulus < Modulus - n /\ (a - l) % Modulus \in Int
  BY <1>0, <1>1, <1>2
<1>4. (((a + n) % Modulus) - l) % Modulus = ((a - l) % Modulus) + n
  BY <1>3, AddMod
<1>. QED
  BY <1>3, <1>4

LEMMA CountStep ==
    ASSUME CounterInv, CounterInv', RunInv, addByRWEvent
    PROVE  RunInv' /\ History!Count
<1>1. PICK c \in Directions, n \in Sizes :
           /\ (Total[c] - last[c]) % Modulus < Modulus - n
           /\ Total' = [Total EXCEPT ![c] = (Total[c] + n) % Modulus]
  BY DEF addByRWEvent
<1>2. UNCHANGED <<ring, slots, last, lastSnapshotAt, take>>
  BY DEF addByRWEvent, counter
<1>3. RunInv' /\ OldestFirst' = OldestFirst
  BY <1>2, RunFrame DEF CounterInv, Writing
<1>4. Reported' = Reported /\ ReportedAt' = ReportedAt
  BY <1>2 DEF Reported, ReportedAt
<1>5. Total \in Bytes /\ Total' \in Bytes /\ last \in Bytes /\ take.loaded \in Bytes
  BY DEF CounterInv, TypeOK
<1>6. ASSUME NEW d \in Directions
      PROVE  (Total[d] - Reported[d]) % Modulus <= (Total'[d] - Reported[d]) % Modulus
  <2>1. /\ Total[d] \in 0 .. Modulus - 1 /\ last[d] \in 0 .. Modulus - 1
        /\ Reported[d] \in 0 .. Modulus - 1
    BY <1>5 DEF Bytes, Reported
  <2>2. (Reported[d] - last[d]) % Modulus <= (Total[d] - last[d]) % Modulus
    <3>1. CASE take.pc = "finish"
      BY <3>1 DEF CounterInv, LoadedInv, BetweenPCs, Reported
    <3>2. CASE take.pc # "finish"
      <4>1. (last[d] - last[d]) % Modulus = 0 /\ (Total[d] - last[d]) % Modulus \in Nat
        <5>1. last[d] - last[d] = 0 /\ Total[d] - last[d] \in Int
          BY <2>1
        <5>2. 0 % Modulus = 0
          BY CounterAssumption
        <5>. QED
          BY <5>1, <5>2, ModType
      <4>. QED
        BY <3>2, <4>1 DEF Reported
    <3>. QED
      BY <3>1, <3>2
  <2>3. CASE c = d
    <3>1. Total'[d] = (Total[d] + n) % Modulus
      BY <1>1, <1>5, <2>3 DEF Bytes
    <3>2. n \in Nat
      BY CounterAssumption
    <3>. QED
      BY <1>1, <2>1, <2>2, <2>3, <3>1, <3>2, AddBeyond
  <2>4. CASE c # d
    <3>1. Total'[d] = Total[d]
      BY <1>1, <1>5, <2>4 DEF Bytes
    <3>2. (Total[d] - Reported[d]) % Modulus \in Int
      BY <2>1, ModType
    <3>. QED
      BY <3>1, <3>2
  <2>. QED
    BY <2>3, <2>4
<1>. QED
  BY <1>3, <1>4, <1>5, <1>6
     DEF History!Count, History!Bytes, History!Directions, History!Minus, Bytes, Directions

LEMMA SnapshotRefines ==
    ASSUME CounterInv, CounterInv', RunInv, SnapshotStep
    PROVE  RunInv' /\ (History!Next \/ UNCHANGED History!vars)
<1>0. take \in [pc : TakePCs, loaded : Bytes, at : Nat] /\ TypeOK /\ TypeOK'
  BY DEF CounterInv, TypeOK
<1>. USE DEF History!vars
<1>1. CASE LockPass \/ UnlockPass \/ StartTake \/ LoadOutgoing
  <2>1. UNCHANGED <<Total, ring, slots, last, lastSnapshotAt>>
    BY <1>1 DEF LockPass, UnlockPass, StartTake, LoadOutgoing, counter
  <2>2. take.pc \notin WritePCs \cup {"finish"} /\ take'.pc \notin WritePCs \cup {"finish"}
    <3>1. CASE LockPass \/ UnlockPass
      BY <3>1 DEF LockPass, UnlockPass, Idle, WritePCs
    <3>2. CASE StartTake \/ LoadOutgoing
      BY <1>0, <3>2 DEF StartTake, LoadOutgoing, WritePCs
    <3>. QED
      BY <1>1, <3>1, <3>2
  <2>3. RunInv' /\ OldestFirst' = OldestFirst
    BY <1>0, <2>1, <2>2, RunFrame DEF Writing, WritePCs
  <2>4. Reported' = Reported /\ ReportedAt' = ReportedAt
    BY <2>1, <2>2 DEF Reported, ReportedAt
  <2>. QED
    BY <2>1, <2>3, <2>4
<1>2. CASE LoadIncoming
  <2>1. /\ UNCHANGED <<Total, ring, slots, last, lastSnapshotAt>> /\ take.pc = "loadIncoming"
        /\ take'.pc = IF lastSnapshotAt = 0 THEN "finish" ELSE "advance"
        /\ take'.at = take.at
    BY <1>0, <1>2 DEF LoadIncoming, counter
  <2>2. RunInv' /\ OldestFirst' = OldestFirst
    BY <1>0, <2>1, RunFrame DEF Writing
  <2>3. CASE lastSnapshotAt = 0
    <3>1. Reported' = take'.loaded /\ take'.loaded \in Bytes
      BY <2>1, <2>3 DEF Reported, CounterInv, TypeOK
    <3>2. ReportedAt' = take.at /\ take.at \in Nat \ {0} /\ ReportedAt = 0
      BY <1>0, <2>1, <2>3 DEF ReportedAt, CounterInv, TimeInv, BetweenPCs
    <3>3. History!Begin
      BY <2>1, <2>2, <3>1, <3>2
         DEF History!Begin, History!Bytes, History!Directions, Bytes, Directions
    <3>. QED
      BY <2>2, <3>3 DEF History!Next
  <2>4. CASE lastSnapshotAt # 0
    <3>1. Reported' = Reported /\ ReportedAt' = ReportedAt
      BY <2>1, <2>4 DEF Reported, ReportedAt
    <3>. QED
      BY <2>1, <2>2, <3>1
  <2>. QED
    BY <2>3, <2>4
<1>3. CASE AdvanceRing
  <2>1. /\ UNCHANGED <<Total, last, lastSnapshotAt>> /\ take.pc = "advance"
        /\ take'.pc = IF slots[ring'].value = Nil THEN "setValuable" ELSE "writeOutgoing"
    BY <1>0, <1>3 DEF AdvanceRing
  <2>2. Reported' = Reported /\ ReportedAt' = ReportedAt
    BY <2>1 DEF Reported, ReportedAt
  <2>3. /\ RunInv'
        /\ \/ OldestFirst' = OldestFirst
           \/ Len(OldestFirst) = SnapShotCount /\ OldestFirst' = Tail(OldestFirst)
    BY <1>3, RunAdvances
  <2>. QED
    BY <2>1, <2>2, <2>3 DEF History!Next, History!Forget
<1>4. CASE SetValuable \/ SetValue \/ OverwriteSnapshot
  <2>1. /\ take.pc \in WritePCs /\ lastSnapshotAt # 0
        /\ UNCHANGED <<Total, last, lastSnapshotAt>>
        /\ take'.loaded = take.loaded /\ take'.at = take.at
        /\ take'.pc \in WritePCs \cup {"finish"}
    BY <1>4, RunWriteFrame DEF SetValuable, WritePCs, SetValue, OverwriteSnapshot
  <2>2. Reported = last /\ ReportedAt = lastSnapshotAt
    BY <2>1 DEF Reported, ReportedAt, WritePCs
  <2>3. CASE take'.pc \in WritePCs
    <3>1. RunInv' /\ OldestFirst' = OldestFirst
      BY <1>4, <2>3, RunWrites
    <3>2. Reported' = last /\ ReportedAt' = lastSnapshotAt
      BY <2>1, <2>3 DEF Reported, ReportedAt, WritePCs
    <3>. QED
      BY <2>1, <2>2, <3>1, <3>2
  <2>4. CASE take'.pc = "finish"
    <3>1. /\ RunInv' /\ Len(OldestFirst) < SnapShotCount
          /\ OldestFirst' = Append(OldestFirst, Snapshot)
      BY <1>4, <2>4, RunPublishes
    <3>2. Reported' = take.loaded /\ ReportedAt' = take.at
      BY <2>1, <2>4 DEF Reported, ReportedAt
    <3>3. take.loaded \in Bytes /\ take.at \in Nat /\ take.at >= lastSnapshotAt
      BY <1>0, <2>1 DEF CounterInv, TimeInv, TypeOK, WritePCs, BetweenPCs
    <3>4. \A d \in Directions :
            (take.loaded[d] - last[d]) % Modulus <= (Total[d] - last[d]) % Modulus
      BY <2>1 DEF CounterInv, LoadedInv, WritePCs, BetweenPCs
    <3>5. Snapshot = [bytes    |-> History!Minus(Reported', Reported),
                      at       |-> ReportedAt',
                      duration |-> ReportedAt' - ReportedAt]
      BY <2>2, <3>2 DEF Snapshot, History!Minus, History!Directions, Directions
    <3>6. \A d \in Directions :
            History!Minus(Reported', Reported)[d] <= History!Minus(Total, Reported)[d]
      BY <2>2, <3>2, <3>4 DEF History!Minus, History!Directions, Directions
    <3>7. History!Publish
      <4>1. Reported' \in History!Bytes
        BY <3>2, <3>3 DEF History!Bytes, History!Directions, Bytes, Directions
      <4>2. ReportedAt # 0 /\ ReportedAt' \in Nat /\ ReportedAt' >= ReportedAt
        BY <2>1, <2>2, <3>2, <3>3
      <4>3. OldestFirst' = Append(OldestFirst, [bytes    |-> History!Minus(Reported', Reported),
                                                at       |-> ReportedAt',
                                                duration |-> ReportedAt' - ReportedAt])
        BY <3>1, <3>5
      <4>. QED
        BY <2>1, <3>1, <3>6, <4>1, <4>2, <4>3 DEF History!Publish, History!Directions, Directions
    <3>. QED
      BY <3>1, <3>7 DEF History!Next
  <2>. QED
    BY <2>1, <2>3, <2>4
<1>5. CASE FinishTake
  <2>1. /\ UNCHANGED <<Total, ring, slots>> /\ take.pc = "finish" /\ take'.pc = "pass"
        /\ last' = take.loaded /\ lastSnapshotAt' = take.at
    BY <1>5 DEF FinishTake, Idle
  <2>2. RunInv' /\ OldestFirst' = OldestFirst
    BY <1>0, <2>1, RunFrame DEF Writing
  <2>3. Reported' = Reported /\ ReportedAt' = ReportedAt
    BY <2>1 DEF Reported, ReportedAt
  <2>. QED
    BY <2>1, <2>2, <2>3
<1>. QED
  BY <1>1, <1>2, <1>3, <1>4, <1>5 DEF SnapshotStep

LEMMA RefinesStep ==
    CounterInv /\ CounterInv' /\ RunInv /\ [Next]_vars => RunInv' /\ [History!Next]_(History!vars)
<1>. SUFFICES ASSUME CounterInv, CounterInv', RunInv, [Next]_vars
              PROVE  RunInv' /\ (History!Next \/ UNCHANGED History!vars)
  OBVIOUS
<1>1. CASE CreateRing
  <2>1. UNCHANGED <<Total, Reported, ReportedAt>>
    BY <1>1 DEF CreateRing, Reported, ReportedAt
  <2>. QED
    BY <1>1, <2>1, RunCreate DEF History!vars
<1>2. CASE addByRWEvent
  BY <1>2, CountStep DEF History!Next
<1>3. CASE SnapshotStep
  BY <1>3, SnapshotRefines
<1>4. CASE Tick \/ (\E r \in Readers : Read(r)) \/ UNCHANGED vars
  <2>1. UNCHANGED <<Total, ring, slots, last, lastSnapshotAt, take>>
    BY <1>4, ReadFrame DEF Tick, counter, vars
  <2>2. RunInv' /\ OldestFirst' = OldestFirst
    BY <2>1, RunFrame DEF CounterInv, Writing
  <2>. QED
    BY <2>1, <2>2 DEF Reported, ReportedAt, History!vars
<1>. QED
  BY <1>1, <1>2, <1>3, <1>4 DEF Next

(* What Histories and LastSnapshot show (src/engine/counter.go) is the     *)
(* history of the last SnapShotCount snapshots: each has the bytes counted *)
(* between it and the one before, so a byte is in one snapshot, also when  *)
(* a total has wrapped around or events come in during a take; and only a  *)
(* full ring forgets, its oldest snapshot.                                 *)
THEOREM RingKeepsHistory == Spec => ImplementsHistory
<1>1. Init => History!Init
  <2>. SUFFICES ASSUME Init PROVE History!Init
    OBVIOUS
  <2>1. CounterInv /\ RunInv
    BY InitInv, RunInit
  <2>2. Newest = 0 /\ \A i \in Slots : ~Kept(i)
    BY DEF Init, Newest, Writing, Idle, Kept
  <2>3. {i \in Slots : Kept(i)} = {}
    BY <2>2
  <2>4. Length = 0
    BY <2>3, FS_EmptySet DEF Length
  <2>5. OldestFirst = <<>>
    BY <2>4 DEF OldestFirst
  <2>. QED
    BY <2>5 DEF Init, History!Init, History!Directions, NoBytes, Directions, Reported, ReportedAt,
       Idle
<1>. QED
  BY <1>1, InvHolds, RunInit, RefinesStep, PTL
     DEF Spec, ImplementsHistory, History!Spec

=============================================================================
