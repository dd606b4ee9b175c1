------------------------------- MODULE SyncMap -------------------------------
(***************************************************************************)
(* The concurrent map of src/pkg/sync/map.go, which ProcessesMap,          *)
(* Connections, ConnectionsMap and interfacesMap are.  Lookups go to the   *)
(* read-only map without a lock; a new key goes to the dirty map under mu, *)
(* and the dirty map is promoted to read-only after enough misses.         *)
(*                                                                         *)
(* A step is one atomic access to what is shared without mu: m.read or the *)
(* pointer of an entry.  What only the holder of mu touches changes with   *)
(* the access next to it.  A loop of a load and a compare-and-swap is one  *)
(* step: the rounds before its last change nothing.                        *)
(***************************************************************************)
EXTENDS Integers, FiniteSets

CONSTANTS
    Keys,
    Threads,
    Ops,        \* the operations the threads call
    MaxCalls    \* bound: how many calls the threads make

ASSUME MapAssumption ==
    /\ MaxCalls \in Nat
    /\ Ops \subseteq {"Load", "Store", "LoadOrStore", "LoadAndDelete", "Range"}

Calls == 1 .. MaxCalls
(* A call stores its number, and the entry it allocates has that name.     *)
Entries == Calls
None     == 0     \* no entry; nil, in the pointer of an entry
Expunged == -1
NoMap    == [k \in Keys |-> None]
Free     == "free"
ASSUME NamesAssumption == None \notin Keys /\ Free \notin Threads

VARIABLES
    read,    \* m.read: the map m and the flag amended
    dirty,   \* m.dirty, with whether it is nil
    misses,
    mu,      \* holder of m.mu
    p,       \* entry -> its pointer: a value, nil or expunged
    th,      \* thread -> its step and local variables
    calls,   \* how many calls were made
    seen,    \* history: thread -> the values its key had since the call began
    always   \* history: thread -> the keys present since its Range began

vars == <<read, dirty, misses, mu, p, th, calls, seen, always>>

NoDirty == [nil |-> TRUE, m |-> NoMap]
Idle    == [pc |-> "idle", op |-> "none", key |-> None, n |-> None, e |-> None, result |-> None,
            m |-> NoMap, todo |-> {}, visited |-> {}]

Init == /\ read = [m |-> NoMap, amended |-> FALSE]
        /\ dirty = NoDirty
        /\ misses = 0
        /\ mu = Free
        /\ p = [e \in Entries |-> None]
        /\ th = [t \in Threads |-> Idle]
        /\ calls = 0
        /\ seen = [t \in Threads |-> {}]
        /\ always = [t \in Threads |-> {}]

-----------------------------------------------------------------------------
KeysOf(m) == {k \in Keys : m[k] # None}

(* The entry a lookup finds, and the value the key has.                    *)
EntryOf(k) == IF read.m[k] # None THEN read.m[k] ELSE dirty.m[k]
Value(k)   == IF EntryOf(k) # None /\ p[EntryOf(k)] # Expunged THEN p[EntryOf(k)] ELSE None

Goto(t, pc)  == th' = [th EXCEPT ![t].pc = pc]
Finish(t, v) == th' = [th EXCEPT ![t].pc = "return", ![t].result = v]

(* missLocked, with the dirty map d.                                       *)
MissLocked(d) ==
    IF misses + 1 < Cardinality(KeysOf(d.m))
    THEN /\ misses' = misses + 1
         /\ dirty' = d
         /\ UNCHANGED read
    ELSE /\ read' = [m |-> d.m, amended |-> FALSE]
         /\ dirty' = NoDirty
         /\ misses' = 0

Call(t) ==
    /\ th[t].pc = "idle"
    /\ calls < MaxCalls
    /\ calls' = calls + 1
    /\ \E op \in Ops :
         IF op = "Range" THEN th' = [th EXCEPT ![t] = [Idle EXCEPT !.pc = "range", !.op = op]]
         ELSE \E k \in Keys :
                th' = [th EXCEPT ![t] = [Idle EXCEPT !.pc = "read", !.op = op, !.key = k, !.n = calls']]
    /\ UNCHANGED <<read, dirty, misses, mu, p>>

(* The lookup without the lock.                                            *)
ReadFast(t) ==
    LET e == read.m[th[t].key]
    IN  /\ th[t].pc = "read"
        /\ IF e # None
           THEN th' = [th EXCEPT ![t].pc = "fast", ![t].e = e]
           ELSE IF read.amended \/ th[t].op \in {"Store", "LoadOrStore"}
                THEN Goto(t, "lock")
                ELSE Finish(t, None)
        /\ UNCHANGED <<read, dirty, misses, mu, p, calls>>

(* e.load, and e.delete                                                    *)
LoadEntry(t) ==
    /\ th[t].pc \in {"fast", "entry"} /\ th[t].op = "Load"
    /\ Finish(t, IF p[th[t].e] = Expunged THEN None ELSE p[th[t].e])
    /\ UNCHANGED <<read, dirty, misses, mu, p, calls>>

DeleteEntry(t) ==
    LET e == th[t].e
    IN  /\ th[t].pc \in {"fast", "entry"} /\ th[t].op = "LoadAndDelete"
        /\ IF p[e] \in {None, Expunged}
           THEN Finish(t, None) /\ UNCHANGED p
           ELSE Finish(t, p[e]) /\ p' = [p EXCEPT ![e] = None]
        /\ UNCHANGED <<read, dirty, misses, mu, calls>>

(* e.tryStore                                                              *)
TryStore(t) ==
    LET e == th[t].e
    IN  /\ th[t].pc = "fast" /\ th[t].op = "Store"
        /\ IF p[e] = Expunged
           THEN Goto(t, "lock") /\ UNCHANGED p
           ELSE Finish(t, th[t].n) /\ p' = [p EXCEPT ![e] = th[t].n]
        /\ UNCHANGED <<read, dirty, misses, mu, calls>>

(* e.tryLoadOrStore                                                        *)
TryLoadOrStore(t) ==
    LET e == th[t].e
    IN  /\ th[t].pc = "fast" /\ th[t].op = "LoadOrStore"
        /\ CASE p[e] = Expunged -> Goto(t, "lock") /\ UNCHANGED p
             [] p[e] = None     -> Finish(t, th[t].n) /\ p' = [p EXCEPT ![e] = th[t].n]
             [] OTHER           -> Finish(t, p[e]) /\ UNCHANGED p
        /\ UNCHANGED <<read, dirty, misses, mu, calls>>

-----------------------------------------------------------------------------
(* Mutant of LookLocked: the read-only map, which may be new by the time   *)
(* the lock is taken, is not looked at again.                              *)
LookDirtyOnly(t) ==
    LET k == th[t].key
        e == dirty.m[k]
    IN  /\ th[t].pc = "lock" /\ th[t].op \in {"Load", "LoadAndDelete"}
        /\ mu = Free
        /\ MissLocked(IF th[t].op = "Load" THEN dirty ELSE [dirty EXCEPT !.m[k] = None])
        /\ IF e # None
           THEN th' = [th EXCEPT ![t].pc = "entry", ![t].e = e]
           ELSE Finish(t, None)
        /\ UNCHANGED <<mu, p, calls>>

(* With the lock: Load and LoadAndDelete look again, and leave it.         *)
LookLocked(t) ==
    LET k == th[t].key
        e == EntryOf(k)
    IN  /\ th[t].pc = "lock" /\ th[t].op \in {"Load", "LoadAndDelete"}
        /\ mu = Free
        /\ IF read.m[k] = None /\ read.amended
           THEN MissLocked(IF th[t].op = "Load" THEN dirty ELSE [dirty EXCEPT !.m[k] = None])
           ELSE UNCHANGED <<read, dirty, misses>>
        /\ IF e # None
           THEN th' = [th EXCEPT ![t].pc = "entry", ![t].e = e]
           ELSE Finish(t, None)
        /\ UNCHANGED <<mu, p, calls>>

(* Store and LoadOrStore: an entry of the read-only map, ...               *)
FindReadLocked(t) ==
    /\ th[t].pc = "lock" /\ th[t].op \in {"Store", "LoadOrStore"}
    /\ mu = Free
    /\ read.m[th[t].key] # None
    /\ mu' = t
    /\ th' = [th EXCEPT ![t].pc = "unexpunge", ![t].e = read.m[th[t].key]]
    /\ UNCHANGED <<read, dirty, misses, p, calls>>

Unexpunge(t) ==
    LET e == th[t].e
    IN  /\ th[t].pc = "unexpunge"
        /\ IF p[e] = Expunged
           THEN /\ p' = [p EXCEPT ![e] = None]
                /\ dirty' = [dirty EXCEPT !.m[th[t].key] = e]
           ELSE UNCHANGED <<p, dirty>>
        /\ Goto(t, "store")
        /\ UNCHANGED <<read, misses, mu, calls>>

(* ... an entry of the dirty map, ...                                      *)
FindDirtyLocked(t) ==
    /\ th[t].pc = "lock" /\ th[t].op \in {"Store", "LoadOrStore"}
    /\ mu = Free
    /\ read.m[th[t].key] = None /\ dirty.m[th[t].key] # None
    /\ mu' = t
    /\ th' = [th EXCEPT ![t].pc = "store", ![t].e = dirty.m[th[t].key]]
    /\ UNCHANGED <<read, dirty, misses, p, calls>>

(* Mutant of StoreLocked: it returns with the lock when the key is there.  *)
StoreKeepsLock(t) ==
    LET e == th[t].e
    IN  /\ th[t].pc = "store"
        /\ IF th[t].op = "Store" \/ p[e] = None
           THEN Finish(t, th[t].n) /\ p' = [p EXCEPT ![e] = th[t].n] /\ mu' = Free
           ELSE Finish(t, p[e]) /\ UNCHANGED <<p, mu>>
        /\ UNCHANGED <<read, dirty, misses, calls>>

(* storeLocked, or tryLoadOrStore and, for the dirty map, missLocked.      *)
StoreLocked(t) ==
    LET e == th[t].e
    IN  /\ th[t].pc = "store"
        /\ IF th[t].op = "Store" \/ p[e] = None
           THEN Finish(t, th[t].n) /\ p' = [p EXCEPT ![e] = th[t].n]
           ELSE Finish(t, p[e]) /\ UNCHANGED p
        /\ IF th[t].op = "LoadOrStore" /\ read.m[th[t].key] = None
           THEN MissLocked(dirty)
           ELSE UNCHANGED <<read, dirty, misses>>
        /\ mu' = Free
        /\ UNCHANGED calls

(* ... or a new key.  The first one since the last promotion makes         *)
(* dirtyLocked copy the read-only map, without its deleted entries.        *)
FindNothingLocked(t) ==
    /\ th[t].pc = "lock" /\ th[t].op \in {"Store", "LoadOrStore"}
    /\ mu = Free
    /\ read.m[th[t].key] = None /\ dirty.m[th[t].key] = None
    /\ mu' = t
    /\ IF ~read.amended /\ dirty.nil
       THEN /\ dirty' = [dirty EXCEPT !.nil = FALSE]
            /\ th' = [th EXCEPT ![t].pc = "copy", ![t].todo = KeysOf(read.m)]
       ELSE Goto(t, "insert") /\ UNCHANGED dirty
    /\ UNCHANGED <<read, misses, p, calls>>

(* Mutant of CopyEntry: a deleted entry is left out, but not expunged.     *)
CopyLiveEntry(t) ==
    /\ th[t].pc = "copy"
    /\ \E k \in th[t].todo :
         /\ dirty' = IF p[read.m[k]] = None THEN dirty ELSE [dirty EXCEPT !.m[k] = read.m[k]]
         /\ th' = [th EXCEPT ![t].todo = @ \ {k}]
    /\ UNCHANGED <<read, misses, mu, p, calls>>

(* tryExpungeLocked                                                        *)
CopyEntry(t) ==
    /\ th[t].pc = "copy"
    /\ \E k \in th[t].todo :
         LET e == read.m[k]
         IN  /\ IF p[e] \in {None, Expunged}
                THEN p' = [p EXCEPT ![e] = Expunged] /\ UNCHANGED dirty
                ELSE dirty' = [dirty EXCEPT !.m[k] = e] /\ UNCHANGED p
             /\ th' = [th EXCEPT ![t].todo = @ \ {k}]
    /\ UNCHANGED <<read, misses, mu, calls>>

Insert(t) ==
    LET n == th[t].n
    IN  /\ \/ th[t].pc = "insert"
           \/ th[t].pc = "copy" /\ th[t].todo = {}
        /\ read' = [read EXCEPT !.amended = TRUE]
        /\ dirty' = [dirty EXCEPT !.m[th[t].key] = n]
        /\ p' = [p EXCEPT ![n] = n]
        /\ mu' = Free
        /\ Finish(t, n)
        /\ UNCHANGED <<misses, calls>>

-----------------------------------------------------------------------------
(* Mutant of StartRange: an incomplete read-only map is walked.            *)
StartRangeAnyway(t) ==
    /\ th[t].pc = "range"
    /\ th' = [th EXCEPT ![t].pc = "walk", ![t].m = read.m, ![t].todo = KeysOf(read.m)]
    /\ UNCHANGED <<read, dirty, misses, mu, p, calls>>

(* Range: take a complete read-only map, ...                               *)
StartRange(t) ==
    /\ th[t].pc = "range"
    /\ IF read.amended
       THEN Goto(t, "promote")
       ELSE th' = [th EXCEPT ![t].pc = "walk", ![t].m = read.m, ![t].todo = KeysOf(read.m)]
    /\ UNCHANGED <<read, dirty, misses, mu, p, calls>>

Promote(t) ==
    /\ th[t].pc = "promote"
    /\ mu = Free
    /\ IF read.amended
       THEN /\ read' = [m |-> dirty.m, amended |-> FALSE]
            /\ dirty' = NoDirty
            /\ misses' = 0
       ELSE UNCHANGED <<read, dirty, misses>>
    /\ th' = [th EXCEPT ![t].pc = "walk", ![t].m = read'.m, ![t].todo = KeysOf(read'.m)]
    /\ UNCHANGED <<mu, p, calls>>

(* ... and visit what its entries hold by the time they are reached.       *)
WalkEntry(t) ==
    /\ th[t].pc = "walk"
    /\ \E k \in th[t].todo :
         th' = [th EXCEPT ![t].todo = @ \ {k},
                  ![t].visited = IF p[th[t].m[k]] \in {None, Expunged} THEN @ ELSE @ \cup {k}]
    /\ UNCHANGED <<read, dirty, misses, mu, p, calls>>

FinishRange(t) ==
    /\ th[t].pc = "walk" /\ th[t].todo = {}
    /\ Goto(t, "return")
    /\ UNCHANGED <<read, dirty, misses, mu, p, calls>>

Return(t) ==
    /\ th[t].pc = "return"
    /\ th' = [th EXCEPT ![t] = Idle]
    /\ UNCHANGED <<read, dirty, misses, mu, p, calls>>

-----------------------------------------------------------------------------
Work(t) == \/ ReadFast(t) \/ LoadEntry(t) \/ DeleteEntry(t) \/ TryStore(t) \/ TryLoadOrStore(t)
           \/ LookLocked(t) \/ FindReadLocked(t) \/ Unexpunge(t) \/ FindDirtyLocked(t)
           \/ StoreLocked(t) \/ FindNothingLocked(t) \/ CopyEntry(t) \/ Insert(t)
           \/ StartRange(t) \/ Promote(t) \/ WalkEntry(t) \/ FinishRange(t) \/ Return(t)

(* The history variables follow every step.                                *)
Contents == [k \in Keys |-> Value(k)]
Present  == {k \in Keys : Value(k) # None}

Remember ==
    /\ seen' = [t \in Threads |->
                  IF th'[t].key = None THEN {}
                  ELSE (IF th[t].key = None THEN {} ELSE seen[t]) \cup {Contents'[th'[t].key]}]
    /\ always' = [t \in Threads |-> CASE th'[t].op # "Range" -> {}
                                      [] th[t].op # "Range"  -> Present'
                                      [] OTHER               -> always[t] \cap Present']

Next == /\ \E t \in Threads : Call(t) \/ Work(t)
        /\ Remember

Spec == Init /\ [][Next]_vars

-----------------------------------------------------------------------------
(* Properties.                                                             *)

(* The comment of entry.p (map.go:85-93): a nil pointer means that the     *)
(* entry is deleted and that m.dirty is nil or has it; expunged means that *)
(* m.dirty is not nil and lacks it; another one is in both.                *)
EntriesAsDocumented ==
    mu = Free =>
        \A k \in KeysOf(read.m) :
            LET e == read.m[k]
            IN  /\ p[e] = None => dirty.nil \/ dirty.m[k] = e
                /\ p[e] = Expunged => ~dirty.nil /\ dirty.m[k] = None
                /\ p[e] > 0 => dirty.nil \/ dirty.m[k] = e

(* Range visits every key that is present from its beginning to its end:   *)
(* the snapshot worker passes over no process and no connection.           *)
RangeVisitsAll ==
    \A t \in Threads : th[t].op = "Range" /\ th[t].pc = "return" => always[t] \subseteq th[t].visited

(* The lock is held by a call that is going to release it: no path keeps   *)
(* it, which would stop every goroutine that needs the lock.               *)
LockIsReleased == mu # Free => th[mu].pc \in {"unexpunge", "store", "copy", "insert"}

(* The map implements ConcurrentMap.  A call that deletes from the dirty   *)
(* map has taken effect when the entry is out of it.                       *)
Unlinked(t) == th[t].op = "LoadAndDelete" /\ th[t].pc = "entry" /\ EntryOf(th[t].key) # th[t].e

CallOf(t) ==
    IF th[t].key = None THEN [op |-> "none"]
    ELSE [op |-> th[t].op, key |-> th[t].key, value |-> th[t].n,
          returns |-> IF th[t].pc = "return" THEN {th[t].result}
                      ELSE IF Unlinked(t) /\ p[th[t].e] > 0 THEN {p[th[t].e]} ELSE {}]

Abstract == INSTANCE ConcurrentMap WITH
    Values <- Calls,
    Absent <- None,
    Ops    <- Ops \ {"Range"},
    map    <- Contents,
    call   <- [t \in Threads |-> CallOf(t)],
    seen   <- seen

ImplementsMap == Abstract!Spec
=============================================================================
