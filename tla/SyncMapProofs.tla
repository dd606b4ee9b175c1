---------------------------- MODULE SyncMapProofs ----------------------------
(***************************************************************************)
(* Theorems about SyncMap, for any number of threads, keys and calls: what *)
(* the comments of src/pkg/sync/map.go say of its entries, what Range      *)
(* visits, and that the map implements ConcurrentMap.                      *)
(***************************************************************************)
EXTENDS SyncMap, TLAPS

-----------------------------------------------------------------------------
(* The inductive invariant.                                                *)

(* A call is at one of these steps before it takes effect or sees that it  *)
(* has none, ...                                                           *)
KeyPCs   == {"read", "fast", "entry", "lock", "unexpunge", "store", "copy", "insert"}
(* ... and at these when it has found an entry, or holds mu.               *)
EntryPCs == {"fast", "entry", "unexpunge", "store"}
LockPCs  == {"unexpunge", "store", "copy", "insert"}
RangePCs == {"range", "promote", "walk"}

KeyOps == {"Load", "Store", "LoadOrStore", "LoadAndDelete"}
Maps   == [Keys -> Entries \cup {None}]
Values == Calls \cup {None}

ThreadStates ==
    [pc : KeyPCs \cup RangePCs \cup {"idle", "return"}, op : KeyOps \cup {"Range", "none"},
     key : Keys \cup {None}, n : Values, e : Entries \cup {None}, result : Values,
     m : Maps, todo : SUBSET Keys, visited : SUBSET Keys]

(* Which fields of a thread are set at which step.                         *)
ThreadOK(x) ==
    /\ x.key = None <=> x.op \in {"Range", "none"}
    /\ x.pc \in KeyPCs => x.key \in Keys /\ x.n \in Calls
    /\ x.pc \in EntryPCs => x.e \in Entries
    /\ x.pc \in LockPCs => x.op \in {"Store", "LoadOrStore"}
    /\ x.pc = "entry" => x.op \in {"Load", "LoadAndDelete"}
    /\ x.pc \in RangePCs => x.op = "Range"
    /\ x.pc = "idle" => x.op = "none"
    /\ x.pc = "walk" => \A k \in x.todo : x.m[k] # None

CoreOK ==
    /\ read \in [m : Maps, amended : BOOLEAN]
    /\ dirty \in [nil : BOOLEAN, m : Maps]
    /\ misses \in Nat
    /\ mu \in Threads \cup {Free}
    /\ p \in [Entries -> Values \cup {Expunged}]
    /\ th \in [Threads -> ThreadStates]
    /\ calls \in 0 .. MaxCalls
    /\ \A t \in Threads : ThreadOK(th[t])

HistoryOK ==
    /\ seen \in [Threads -> SUBSET Values]
    /\ always \in [Threads -> SUBSET Keys]

(* The calls that are at a step of LockPCs hold mu, and nobody else does.  *)
LockInv == \A t \in Threads : th[t].pc \in LockPCs <=> mu = t

(* An entry belongs to one key for good, and is named after a call that    *)
(* has no use for its name any more.                                       *)
OwnedBy(own) ==
    /\ \A k \in Keys : read.m[k] # None => own[read.m[k]] = k
    /\ \A k \in Keys : dirty.m[k] # None => own[dirty.m[k]] = k
    /\ \A t \in Threads : th[t].pc \in EntryPCs => own[th[t].e] = th[t].key
    /\ \A t \in Threads : th[t].pc \in KeyPCs => th[t].n <= calls /\ own[th[t].n] = None
    /\ \A t, u \in Threads : th[t].pc \in KeyPCs /\ th[u].pc \in KeyPCs /\ t # u
                               => th[t].n # th[u].n
    /\ \A e \in Entries : e > calls => own[e] = None

OwnInv == \E own \in [Entries -> Keys \cup {None}] : OwnedBy(own)

(* The dirty map is there when the read-only map is incomplete, or is      *)
(* about to be.                                                            *)
DirtyAt(t) ==
    /\ th[t].pc = "copy" => ~read.amended /\ ~dirty.nil
    /\ th[t].pc \in {"unexpunge", "store"} /\ ~read.amended => dirty.nil
    /\ th[t].pc = "insert" => read.amended

DirtyInv ==
    /\ read.amended => ~dirty.nil
    /\ dirty.nil => \A k \in Keys : dirty.m[k] = None
    /\ ~read.amended => \A k \in Keys : dirty.m[k] # None => read.m[k] # None
    /\ mu = Free /\ ~read.amended => dirty.nil
    /\ \A t \in Threads : DirtyAt(t)

(* The entries of the two maps: those that dirtyLocked has not reached     *)
(* (Copying), and the others, which are expunged or in both.               *)
Copying(k) == \E t \in Threads : th[t].pc = "copy" /\ k \in th[t].todo

EntryInv ==
    /\ \A k \in Keys : read.m[k] # None /\ dirty.m[k] # None => read.m[k] = dirty.m[k]
    /\ \A k \in Keys : dirty.m[k] # None => p[dirty.m[k]] # Expunged
    /\ \A k \in Keys : read.m[k] # None /\ dirty.nil => p[read.m[k]] # Expunged
    /\ \A k \in Keys : read.m[k] # None /\ ~dirty.nil /\ p[read.m[k]] # Expunged /\ ~Copying(k)
                         => dirty.m[k] = read.m[k]
    /\ \A k \in Keys : Copying(k) => /\ read.m[k] # None /\ p[read.m[k]] # Expunged
                                     /\ dirty.m[k] = None

(* What a call knows of the entry that it has found.                       *)
Deletes(t) == th[t].pc = "entry" /\ th[t].op = "LoadAndDelete"

FoundAt(t) ==
    LET k == th[t].key
        e == th[t].e
    IN  /\ th[t].pc = "unexpunge" => read.m[k] = e
        /\ th[t].pc = "store" => EntryOf(k) = e /\ p[e] # Expunged
        /\ th[t].pc \in {"copy", "insert"} => read.m[k] = None /\ dirty.m[k] = None
        /\ th[t].pc = "fast" => read.m[k] = e \/ p[e] = Expunged

(* An entry that a deletion has taken out of the dirty map is its own.     *)
TakenOut(t) ==
    /\ dirty.m[th[t].key] # th[t].e
    /\ \A u \in Threads : u # t /\ Deletes(u) => th[u].e # th[t].e

FoundInv ==
    \A t \in Threads :
        /\ FoundAt(t)
        /\ Deletes(t) => read.m[th[t].key] = th[t].e \/ p[th[t].e] = Expunged \/ TakenOut(t)

(* What a call returns without changing the map, its key has had.          *)
ValueOf(e) == IF p[e] = Expunged THEN None ELSE p[e]

SeenInv ==
    \A t \in Threads :
        /\ th[t].key # None => Contents[th[t].key] \in seen[t]
        /\ th[t].key = None => seen[t] = {}
        /\ th[t].pc \in {"fast", "entry"} =>
             /\ ValueOf(th[t].e) \in seen[t]
             /\ EntryOf(th[t].key) # th[t].e => None \in seen[t]

(* A key that Range has to visit still has the entry that Range knows.     *)
RangeAt(t) ==
    /\ always[t] \subseteq Present
    /\ th[t].pc = "walk" => \A k \in always[t] \ th[t].visited :
                                k \in th[t].todo /\ th[t].m[k] = EntryOf(k)
    /\ th[t].pc = "return" => always[t] \subseteq th[t].visited

RangeInv == \A t \in Threads : th[t].op = "Range" => RangeAt(t)

MapInv == CoreOK /\ LockInv /\ OwnInv /\ DirtyInv /\ EntryInv /\ FoundInv
Inv    == MapInv /\ HistoryOK /\ SeenInv /\ RangeInv

-----------------------------------------------------------------------------
(* Types.                                                                  *)

LEMMA Names == /\ \A k \in Keys : k # None
               /\ \A t \in Threads : t # Free
               /\ \A n \in Calls : n # None /\ n # Expunged
               /\ Expunged # None
               /\ Entries = Calls
  BY NamesAssumption, MapAssumption DEF Calls, Entries, None, Expunged

LEMMA EmptyMap == NoMap \in Maps /\ \A k \in Keys : NoMap[k] = None
  BY DEF NoMap, Maps

(* What a step does to the threads.                                        *)
Others(t) == \A u \in Threads \ {t} : th'[u] = th[u]

(* x is y, but for its step and its result.                                *)
SameCall(x, y) ==
    /\ x.op = y.op /\ x.key = y.key /\ x.n = y.n /\ x.e = y.e
    /\ x.m = y.m /\ x.todo = y.todo /\ x.visited = y.visited

Moved(t, q)    == th'[t].pc = q /\ SameCall(th'[t], th[t]) /\ Others(t)
Ended(t, v)    == Moved(t, "return") /\ th'[t].result = v
Found(t, q, e) == /\ th'[t].pc = q /\ th'[t].e = e
                  /\ th'[t].op = th[t].op /\ th'[t].key = th[t].key /\ th'[t].n = th[t].n
                  /\ Others(t)

ThreadsOK == th \in [Threads -> ThreadStates] /\ \A u \in Threads : ThreadOK(th[u])

LEMMA ThreadStep ==
    ASSUME CoreOK, NEW t \in Threads, NEW x \in ThreadStates, ThreadOK(x),
           th' = [th EXCEPT ![t] = x]
    PROVE  ThreadsOK' /\ th'[t] = x /\ Others(t)
  BY DEF CoreOK, ThreadsOK, Others

LEMMA GotoOK ==
    ASSUME CoreOK, NEW t \in Threads, NEW q \in KeyPCs \cup RangePCs \cup {"return"}, Goto(t, q),
           ASSUME NEW x, x.pc = q, SameCall(x, th[t]) PROVE ThreadOK(x)
    PROVE  ThreadsOK' /\ Moved(t, q)
<1> DEFINE x == [th[t] EXCEPT !.pc = q]
<1>1. th[t] \in ThreadStates
  BY DEF CoreOK
<1>2. x \in ThreadStates
  BY <1>1 DEF ThreadStates
<1>3. x.pc = q /\ SameCall(x, th[t])
  BY <1>1 DEF ThreadStates, SameCall
<1>4. th' = [th EXCEPT ![t] = x]
  BY DEF Goto
<1> HIDE DEF x
<1>5. ThreadOK(x)
  BY <1>3
<1> QED
  BY <1>2, <1>3, <1>4, <1>5, ThreadStep DEF Moved

LEMMA FinishOK ==
    ASSUME CoreOK, NEW t \in Threads, NEW v \in Values, Finish(t, v), th[t].pc \in KeyPCs
    PROVE  ThreadsOK' /\ Ended(t, v)
<1> DEFINE x == [th[t] EXCEPT !.pc = "return", !.result = v]
<1>1. th[t] \in ThreadStates /\ ThreadOK(th[t])
  BY DEF CoreOK
<1>2. x \in ThreadStates
  BY <1>1 DEF ThreadStates
<1>3. x.pc = "return" /\ x.result = v /\ SameCall(x, th[t])
  BY <1>1 DEF ThreadStates, SameCall
<1>4. ThreadOK(x)
  BY <1>1, <1>3 DEF ThreadOK, SameCall, KeyPCs, EntryPCs, LockPCs, RangePCs
<1>5. th' = [th EXCEPT ![t] = x]
  BY DEF Finish
<1> HIDE DEF x
<1> QED
  BY <1>2, <1>3, <1>4, <1>5, ThreadStep DEF Moved, Ended

(* A lookup that has found the entry e.                                    *)
LEMMA FoundOK ==
    ASSUME CoreOK, NEW t \in Threads, NEW e \in Entries, NEW q \in EntryPCs,
           th' = [th EXCEPT ![t].pc = q, ![t].e = e],
           th[t].pc \in {"read", "lock"},
           q \in LockPCs => th[t].op \in {"Store", "LoadOrStore"},
           q = "entry" => th[t].op \in {"Load", "LoadAndDelete"}
    PROVE  ThreadsOK' /\ Found(t, q, e)
<1> DEFINE x == [th[t] EXCEPT !.pc = q, !.e = e]
<1>1. th[t] \in ThreadStates /\ ThreadOK(th[t])
  BY DEF CoreOK
<1>2. x \in ThreadStates
  BY <1>1 DEF ThreadStates, KeyPCs, EntryPCs
<1>3. /\ x.pc = q /\ x.e = e /\ x.op = th[t].op /\ x.key = th[t].key /\ x.n = th[t].n
  BY <1>1 DEF ThreadStates
<1>4. ThreadOK(x)
  BY <1>1, <1>3 DEF ThreadOK, KeyPCs, EntryPCs, LockPCs, RangePCs
<1>5. th' = [th EXCEPT ![t] = x]
  OBVIOUS
<1> HIDE DEF x
<1> QED
  BY <1>2, <1>3, <1>4, <1>5, ThreadStep DEF Found

(* missLocked keeps the maps, or promotes the dirty one.                   *)
Promoted(d) == read' = [m |-> d.m, amended |-> FALSE] /\ dirty' = NoDirty
Missed(d)   == read' = read /\ dirty' = d

TablesOK == read \in [m : Maps, amended : BOOLEAN] /\ dirty \in [nil : BOOLEAN, m : Maps]
            /\ misses \in Nat

LEMMA MissOK ==
    ASSUME CoreOK, NEW d \in [nil : BOOLEAN, m : Maps], MissLocked(d)
    PROVE  TablesOK' /\ (Missed(d) \/ Promoted(d))
<1>1. NoDirty \in [nil : BOOLEAN, m : Maps]
  BY EmptyMap DEF NoDirty
<1>2. CASE Promoted(d) /\ misses' = 0
  BY <1>1, <1>2 DEF Promoted, TablesOK
<1>3. CASE Missed(d) /\ misses' = misses + 1
  BY <1>3 DEF Missed, TablesOK, CoreOK
<1> QED
  BY <1>2, <1>3 DEF MissLocked, Promoted, Missed

LEMMA ValuesOK ==
    ASSUME CoreOK
    PROVE  /\ \A k \in Keys : EntryOf(k) \in Entries \cup {None} /\ Value(k) \in Values
           /\ \A e \in Entries : p[e] \in Values \/ p[e] = Expunged
           /\ Contents \in [Keys -> Values] /\ \A k \in Keys : Contents[k] = Value(k)
<1>1. \A k \in Keys : EntryOf(k) \in Entries \cup {None}
  BY DEF CoreOK, EntryOf, Maps
<1>2. \A e \in Entries : p[e] \in Values \/ p[e] = Expunged
  BY DEF CoreOK
<1>3. \A k \in Keys : Value(k) \in Values
  BY <1>1, <1>2 DEF Value, Values
<1> QED
  BY <1>1, <1>2, <1>3 DEF Contents

-----------------------------------------------------------------------------
(* What the steps do: CoreOK holds again, and th changes like this.        *)

LEMMA CoreAgain ==
    ASSUME ThreadsOK', TablesOK', mu' \in Threads \cup {Free}, calls' \in 0 .. MaxCalls,
           p' \in [Entries -> Values \cup {Expunged}]
    PROVE  CoreOK'
  BY DEF CoreOK, ThreadsOK, TablesOK

LEMMA CoreParts ==
    ASSUME CoreOK
    PROVE  /\ ThreadsOK /\ TablesOK /\ mu \in Threads \cup {Free} /\ calls \in 0 .. MaxCalls
           /\ p \in [Entries -> Values \cup {Expunged}]
           /\ read.m \in Maps /\ dirty.m \in Maps
  BY DEF CoreOK, ThreadsOK, TablesOK

LEMMA TablesAgain ==
    ASSUME CoreOK, UNCHANGED <<read, dirty, misses>>
    PROVE  TablesOK'
  BY CoreParts DEF TablesOK

LEMMA Fields ==
    ASSUME CoreOK, NEW t \in Threads
    PROVE  /\ th[t] \in ThreadStates /\ ThreadOK(th[t])
           /\ th[t].pc \in KeyPCs => /\ th[t].key \in Keys /\ th[t].key # None
                                     /\ th[t].n \in Calls /\ th[t].op \in KeyOps
           /\ th[t].pc \in EntryPCs => th[t].e \in Entries
<1>1. th[t] \in ThreadStates /\ ThreadOK(th[t])
  BY DEF CoreOK
<1>2. th[t].op \in KeyOps \cup {"Range", "none"}
  BY <1>1 DEF ThreadStates
<1> QED
  BY <1>1, <1>2, Names DEF ThreadOK

LEMMA CallDoes ==
    ASSUME CoreOK, NEW t \in Threads, Call(t)
    PROVE  /\ CoreOK' /\ Others(t)
           /\ th'[t].op \in Ops
           /\ \/ th'[t].op = "Range" /\ th'[t].pc = "range" /\ th'[t].key = None
              \/ /\ th'[t].pc = "read" /\ th'[t].n = calls' /\ th'[t].key \in Keys
                 /\ th'[t].op \in Ops \ {"Range"}
<1>1. calls' \in Calls /\ calls' \in 0 .. MaxCalls
  <2>1. calls \in 0 .. MaxCalls /\ calls < MaxCalls /\ calls' = calls + 1
    BY DEF Call, CoreOK
  <2> QED
    BY <2>1, MapAssumption DEF Calls
<1>2. PICK op \in Ops :
         IF op = "Range" THEN th' = [th EXCEPT ![t] = [Idle EXCEPT !.pc = "range", !.op = op]]
         ELSE \E k \in Keys :
                th' = [th EXCEPT ![t] = [Idle EXCEPT !.pc = "read", !.op = op, !.key = k, !.n = calls']]
  BY DEF Call
<1>3. op \in KeyOps \cup {"Range"}
  BY MapAssumption DEF KeyOps
<1>4. Idle \in ThreadStates
  BY EmptyMap DEF Idle, ThreadStates, Values, KeyOps
<1>5. CASE op = "Range"
  <2> DEFINE x == [Idle EXCEPT !.pc = "range", !.op = op]
  <2>1. x.pc = "range" /\ x.op = "Range" /\ x.key = None
    BY <1>5 DEF Idle
  <2>2. x \in ThreadStates
    BY <1>4, <1>5 DEF ThreadStates, RangePCs
  <2>3. th' = [th EXCEPT ![t] = x]
    BY <1>2, <1>5
  <2> HIDE DEF x
  <2>4. ThreadOK(x)
    BY <2>1 DEF ThreadOK, KeyPCs, EntryPCs, LockPCs, RangePCs
  <2>5. ThreadsOK' /\ Others(t) /\ th'[t] = x
    BY <2>2, <2>3, <2>4, ThreadStep
  <2>6. CoreOK'
    BY <2>5, <1>1, CoreParts, CoreAgain, TablesAgain DEF Call
  <2> QED
    BY <2>1, <2>5, <2>6, <1>5
<1>6. CASE op # "Range"
  <2>1. PICK k \in Keys : th' = [th EXCEPT ![t] = [Idle EXCEPT !.pc = "read", !.op = op, !.key = k,
                                                               !.n = calls']]
    BY <1>2, <1>6
  <2> DEFINE x == [Idle EXCEPT !.pc = "read", !.op = op, !.key = k, !.n = calls']
  <2>2. x.pc = "read" /\ x.op = op /\ x.key = k /\ x.n = calls'
    BY DEF Idle
  <2>3. x \in ThreadStates
    BY <1>1, <1>3, <1>4 DEF ThreadStates, KeyPCs, Values
  <2>4. th' = [th EXCEPT ![t] = x]
    BY <2>1
  <2> HIDE DEF x
  <2>5. ThreadOK(x)
    BY <1>1, <1>3, <1>6, <2>2, Names DEF ThreadOK, KeyPCs, EntryPCs, LockPCs, RangePCs, KeyOps
  <2>6. ThreadsOK' /\ Others(t) /\ th'[t] = x
    BY <2>3, <2>4, <2>5, ThreadStep
  <2>7. CoreOK'
    BY <2>6, <1>1, CoreParts, CoreAgain, TablesAgain DEF Call
  <2> QED
    BY <2>2, <2>6, <2>7, <1>6
<1> QED
  BY <1>5, <1>6

LEMMA ReadFastDoes ==
    ASSUME CoreOK, NEW t \in Threads, ReadFast(t)
    PROVE  /\ CoreOK'
           /\ LET e == read.m[th[t].key]
              IN  \/ e # None /\ Found(t, "fast", e)
                  \/ e = None /\ Moved(t, "lock")
                  \/ e = None /\ ~read.amended /\ Ended(t, None) /\ th[t].op \in {"Load", "LoadAndDelete"}
<1> DEFINE e == read.m[th[t].key]
<1>1. /\ th[t].pc = "read" /\ ThreadOK(th[t]) /\ th[t].key \in Keys /\ th[t].op \in KeyOps
      /\ UNCHANGED <<read, dirty, misses, mu, p, calls>>
  BY Fields DEF ReadFast, KeyPCs
<1>2. CASE e # None
  <2>1. e \in Entries
    BY <1>1, <1>2, CoreParts DEF Maps
  <2>2. th' = [th EXCEPT ![t].pc = "fast", ![t].e = e]
    BY <1>2 DEF ReadFast
  <2> QED
    BY <1>1, <1>2, <2>1, <2>2, FoundOK, CoreParts, CoreAgain, TablesAgain DEF EntryPCs, LockPCs
<1>3. CASE e = None /\ (read.amended \/ th[t].op \in {"Store", "LoadOrStore"})
  <2>1. Goto(t, "lock")
    BY <1>3 DEF ReadFast
  <2>2. ASSUME NEW x, x.pc = "lock", SameCall(x, th[t]) PROVE ThreadOK(x)
    BY <1>1, <2>2 DEF ThreadOK, SameCall, KeyPCs, EntryPCs, LockPCs, RangePCs
  <2>3. ThreadsOK' /\ Moved(t, "lock")
    BY <2>1, <2>2, GotoOK DEF KeyPCs
  <2> QED
    BY <1>1, <1>3, <2>3, CoreParts, CoreAgain, TablesAgain
<1>4. CASE e = None /\ ~(read.amended \/ th[t].op \in {"Store", "LoadOrStore"})
  <2>1. Finish(t, None)
    BY <1>4 DEF ReadFast
  <2>2. ThreadsOK' /\ Ended(t, None)
    BY <1>1, <2>1, FinishOK DEF KeyPCs, Values
  <2> QED
    BY <1>1, <1>4, <2>2, CoreParts, CoreAgain, TablesAgain DEF KeyOps
<1> QED
  BY <1>2, <1>3, <1>4

LEMMA LoadEntryDoes ==
    ASSUME CoreOK, NEW t \in Threads, LoadEntry(t)
    PROVE  CoreOK' /\ Ended(t, ValueOf(th[t].e))
<1>1. th[t].e \in Entries /\ th[t].pc \in KeyPCs /\ UNCHANGED <<read, dirty, misses, mu, p, calls>>
  BY Fields DEF LoadEntry, KeyPCs, EntryPCs
<1>2. ValueOf(th[t].e) \in Values
  BY <1>1, ValuesOK DEF ValueOf, Values
<1>3. Finish(t, ValueOf(th[t].e))
  BY DEF LoadEntry, ValueOf
<1> QED
  BY <1>1, <1>2, <1>3, FinishOK, CoreParts, CoreAgain, TablesAgain

LEMMA DeleteEntryDoes ==
    ASSUME CoreOK, NEW t \in Threads, DeleteEntry(t)
    PROVE  /\ CoreOK'
           /\ Ended(t, ValueOf(th[t].e))
           /\ ValueOf(th[t].e) = None => p' = p
           /\ ValueOf(th[t].e) # None => p' = [p EXCEPT ![th[t].e] = None]
<1> DEFINE e == th[t].e
<1>1. e \in Entries /\ th[t].pc \in KeyPCs /\ UNCHANGED <<read, dirty, misses, mu, calls>>
  BY Fields DEF DeleteEntry, KeyPCs, EntryPCs
<1>2. p[e] \in Values \/ p[e] = Expunged
  BY <1>1, ValuesOK
<1>3. CASE p[e] \in {None, Expunged}
  <2>1. ValueOf(e) = None /\ Finish(t, None) /\ p' = p
    BY <1>3 DEF DeleteEntry, ValueOf
  <2> QED
    BY <1>1, <2>1, FinishOK, CoreParts, CoreAgain, TablesAgain DEF Values
<1>4. CASE p[e] \notin {None, Expunged}
  <2>1. ValueOf(e) = p[e] /\ Finish(t, p[e]) /\ p' = [p EXCEPT ![e] = None]
    BY <1>4 DEF DeleteEntry, ValueOf
  <2>2. p' \in [Entries -> Values \cup {Expunged}]
    BY <2>1, CoreParts DEF Values
  <2> QED
    BY <1>1, <1>2, <1>4, <2>1, <2>2, FinishOK, CoreParts, CoreAgain, TablesAgain
<1> QED
  BY <1>3, <1>4

(* A store to an entry.                                                    *)
LEMMA StoreOK ==
    ASSUME CoreOK, NEW t \in Threads, th[t].pc \in {"fast", "store", "insert", "copy"},
           NEW e \in Entries, p' = [p EXCEPT ![e] = th[t].n]
    PROVE  p' \in [Entries -> Values \cup {Expunged}]
  BY Fields, CoreParts DEF Values, KeyPCs

LEMMA GoLock ==
    ASSUME CoreOK, NEW t \in Threads, th[t].pc \in {"read", "fast"}, Goto(t, "lock")
    PROVE  ThreadsOK' /\ Moved(t, "lock")
<1>1. ASSUME NEW x, x.pc = "lock", SameCall(x, th[t]) PROVE ThreadOK(x)
  BY Fields, <1>1 DEF ThreadOK, SameCall, KeyPCs, EntryPCs, LockPCs, RangePCs
<1> QED
  BY <1>1, GotoOK DEF KeyPCs

LEMMA TryStoreDoes ==
    ASSUME CoreOK, NEW t \in Threads, TryStore(t)
    PROVE  /\ CoreOK'
           /\ \/ p[th[t].e] = Expunged /\ p' = p /\ Moved(t, "lock")
              \/ /\ p[th[t].e] # Expunged /\ p' = [p EXCEPT ![th[t].e] = th[t].n]
                 /\ Ended(t, th[t].n)
<1>1. /\ th[t].e \in Entries /\ th[t].n \in Values /\ th[t].pc = "fast"
      /\ UNCHANGED <<read, dirty, misses, mu, calls>>
  BY Fields DEF TryStore, KeyPCs, EntryPCs, Values
<1>2. CASE p[th[t].e] = Expunged
  BY <1>1, <1>2, GoLock, CoreParts, CoreAgain, TablesAgain DEF TryStore
<1>3. CASE p[th[t].e] # Expunged
  BY <1>1, <1>3, FinishOK, StoreOK, CoreParts, CoreAgain, TablesAgain DEF TryStore, KeyPCs
<1> QED
  BY <1>2, <1>3

LEMMA TryLoadOrStoreDoes ==
    ASSUME CoreOK, NEW t \in Threads, TryLoadOrStore(t)
    PROVE  /\ CoreOK'
           /\ \/ p[th[t].e] = Expunged /\ p' = p /\ Moved(t, "lock")
              \/ /\ p[th[t].e] = None /\ p' = [p EXCEPT ![th[t].e] = th[t].n]
                 /\ Ended(t, th[t].n)
              \/ /\ p[th[t].e] \notin {None, Expunged} /\ p' = p
                 /\ Ended(t, p[th[t].e])
<1>1. /\ th[t].e \in Entries /\ th[t].n \in Values /\ th[t].pc = "fast"
      /\ UNCHANGED <<read, dirty, misses, mu, calls>>
  BY Fields DEF TryLoadOrStore, KeyPCs, EntryPCs, Values
<1>2. CASE p[th[t].e] = Expunged
  <2>1. Goto(t, "lock") /\ p' = p
    BY <1>2, Names DEF TryLoadOrStore
  <2> QED
    BY <1>1, <1>2, <2>1, GoLock, CoreParts, CoreAgain, TablesAgain
<1>3. CASE p[th[t].e] = None
  <2>1. Finish(t, th[t].n) /\ p' = [p EXCEPT ![th[t].e] = th[t].n]
    BY <1>3, Names DEF TryLoadOrStore
  <2> QED
    BY <1>1, <1>3, <2>1, FinishOK, StoreOK, CoreParts, CoreAgain, TablesAgain DEF KeyPCs
<1>4. CASE p[th[t].e] \notin {None, Expunged}
  <2>1. Finish(t, p[th[t].e]) /\ p' = p
    BY <1>4 DEF TryLoadOrStore
  <2>2. p[th[t].e] \in Values
    BY <1>1, <1>4, ValuesOK
  <2> QED
    BY <1>1, <1>4, <2>1, <2>2, FinishOK, CoreParts, CoreAgain, TablesAgain DEF KeyPCs
<1> QED
  BY <1>2, <1>3, <1>4

(* LookLocked: the key loses its entry in the dirty map to a deletion.     *)
Looked(t) == IF th[t].op = "Load" THEN dirty ELSE [dirty EXCEPT !.m[th[t].key] = None]

LEMMA LookLockedDoes ==
    ASSUME CoreOK, NEW t \in Threads, LookLocked(t)
    PROVE  /\ CoreOK'
           /\ LET k == th[t].key
                  e == EntryOf(k)
              IN  /\ \/ e # None /\ Found(t, "entry", e)
                     \/ e = None /\ Ended(t, None)
                  /\ \/ read.m[k] = None /\ read.amended /\ (Missed(Looked(t)) \/ Promoted(Looked(t)))
                     \/ ~(read.m[k] = None /\ read.amended) /\ UNCHANGED <<read, dirty>>
<1> DEFINE k == th[t].key
           e == EntryOf(k)
<1>1. /\ k \in Keys /\ th[t].pc = "lock" /\ th[t].op \in {"Load", "LoadAndDelete"}
      /\ UNCHANGED <<mu, p, calls>>
  BY Fields DEF LookLocked, KeyPCs
<1>2. Looked(t) \in [nil : BOOLEAN, m : Maps]
  BY <1>1, CoreParts DEF Looked, TablesOK, Maps
<1>3. /\ TablesOK'
      /\ \/ read.m[k] = None /\ read.amended /\ (Missed(Looked(t)) \/ Promoted(Looked(t)))
         \/ ~(read.m[k] = None /\ read.amended) /\ UNCHANGED <<read, dirty>>
  <2>1. CASE read.m[k] = None /\ read.amended
    <3>1. MissLocked(Looked(t))
      BY <2>1 DEF LookLocked, Looked
    <3> QED
      BY <1>2, <2>1, <3>1, MissOK
  <2>2. CASE ~(read.m[k] = None /\ read.amended)
    <3>1. UNCHANGED <<read, dirty, misses>>
      BY <2>2 DEF LookLocked
    <3> QED
      BY <2>2, <3>1, TablesAgain
  <2> QED
    BY <2>1, <2>2
<1>4. /\ ThreadsOK'
      /\ \/ e # None /\ Found(t, "entry", e)
         \/ e = None /\ Ended(t, None)
  <2>1. CASE e # None
    <3>1. e \in Entries
      BY <1>1, <2>1, ValuesOK
    <3>2. th' = [th EXCEPT ![t].pc = "entry", ![t].e = e]
      BY <2>1 DEF LookLocked
    <3>3. "entry" \in EntryPCs /\ "entry" \notin LockPCs
      BY DEF EntryPCs, LockPCs
    <3> QED
      BY <1>1, <2>1, <3>1, <3>2, <3>3, FoundOK
  <2>2. CASE e = None
    <3>1. Finish(t, None)
      BY <2>2 DEF LookLocked
    <3> QED
      BY <1>1, <2>2, <3>1, FinishOK DEF KeyPCs, Values
  <2> QED
    BY <2>1, <2>2
<1> QED
  BY <1>1, <1>3, <1>4, CoreParts, CoreAgain

LEMMA FindLockedDoes ==
    ASSUME CoreOK, NEW t \in Threads, FindReadLocked(t) \/ FindDirtyLocked(t)
    PROVE  /\ CoreOK' /\ mu = Free /\ mu' = t
           /\ th[t].pc = "lock" /\ th[t].op \in {"Store", "LoadOrStore"}
           /\ EntryOf(th[t].key) # None
           /\ UNCHANGED <<read, dirty, misses, p, calls>>
           /\ \/ FindReadLocked(t) /\ read.m[th[t].key] # None /\ Found(t, "unexpunge", EntryOf(th[t].key))
              \/ FindDirtyLocked(t) /\ read.m[th[t].key] = None /\ Found(t, "store", EntryOf(th[t].key))
<1> DEFINE k == th[t].key
           e == EntryOf(k)
<1>1. /\ k \in Keys /\ th[t].pc = "lock" /\ th[t].op \in {"Store", "LoadOrStore"}
      /\ mu = Free /\ mu' = t
      /\ UNCHANGED <<read, dirty, misses, p, calls>>
  BY Fields DEF FindReadLocked, FindDirtyLocked, KeyPCs
<1>2. e # None => e \in Entries
  BY <1>1, ValuesOK
<1>3. CASE FindReadLocked(t)
  <2>1. /\ read.m[k] # None /\ e # None
        /\ th' = [th EXCEPT ![t].pc = "unexpunge", ![t].e = e]
    BY <1>3 DEF FindReadLocked, EntryOf
  <2>2. ThreadsOK' /\ Found(t, "unexpunge", e)
    BY <1>1, <1>2, <2>1, FoundOK DEF EntryPCs
  <2> QED
    BY <1>1, <1>3, <2>1, <2>2, CoreParts, CoreAgain, TablesAgain
<1>4. CASE FindDirtyLocked(t)
  <2>1. /\ read.m[k] = None /\ e # None
        /\ th' = [th EXCEPT ![t].pc = "store", ![t].e = e]
    BY <1>4 DEF FindDirtyLocked, EntryOf
  <2>2. ThreadsOK' /\ Found(t, "store", e)
    BY <1>1, <1>2, <2>1, FoundOK DEF EntryPCs
  <2> QED
    BY <1>1, <1>4, <2>1, <2>2, CoreParts, CoreAgain, TablesAgain
<1> QED
  BY <1>3, <1>4

LEMMA UnexpungeDoes ==
    ASSUME CoreOK, NEW t \in Threads, Unexpunge(t)
    PROVE  /\ CoreOK' /\ Moved(t, "store")
           /\ \/ /\ p[th[t].e] = Expunged
                 /\ p' = [p EXCEPT ![th[t].e] = None]
                 /\ dirty' = [dirty EXCEPT !.m[th[t].key] = th[t].e]
              \/ p[th[t].e] # Expunged /\ UNCHANGED <<p, dirty>>
<1>1. /\ th[t].key \in Keys /\ th[t].e \in Entries /\ th[t].pc = "unexpunge" /\ ThreadOK(th[t])
      /\ Goto(t, "store") /\ UNCHANGED <<read, misses, mu, calls>>
  BY Fields DEF Unexpunge, KeyPCs, EntryPCs
<1>2. ASSUME NEW x, x.pc = "store", SameCall(x, th[t]) PROVE ThreadOK(x)
  BY <1>1, <1>2 DEF ThreadOK, SameCall, KeyPCs, EntryPCs, LockPCs, RangePCs
<1>3. ThreadsOK' /\ Moved(t, "store")
  BY <1>1, <1>2, GotoOK DEF KeyPCs
<1>4. CASE p[th[t].e] = Expunged
  <2>1. /\ p' = [p EXCEPT ![th[t].e] = None]
        /\ dirty' = [dirty EXCEPT !.m[th[t].key] = th[t].e]
    BY <1>4 DEF Unexpunge
  <2>2. p' \in [Entries -> Values \cup {Expunged}]
    BY <2>1, CoreParts DEF Values
  <2>3. TablesOK'
    BY <1>1, <2>1, CoreParts DEF TablesOK, Maps
  <2> QED
    BY <1>1, <1>3, <1>4, <2>1, <2>2, <2>3, CoreParts, CoreAgain
<1>5. CASE p[th[t].e] # Expunged
  <2>1. UNCHANGED <<p, dirty>>
    BY <1>5 DEF Unexpunge
  <2> QED
    BY <1>1, <1>3, <1>5, <2>1, CoreParts, CoreAgain, TablesAgain
<1> QED
  BY <1>4, <1>5

LEMMA StoreLockedDoes ==
    ASSUME CoreOK, NEW t \in Threads, StoreLocked(t), p[th[t].e] # Expunged
    PROVE  /\ CoreOK'
           /\ \/ /\ th[t].op = "Store" \/ p[th[t].e] = None
                 /\ p' = [p EXCEPT ![th[t].e] = th[t].n] /\ Ended(t, th[t].n)
              \/ /\ th[t].op = "LoadOrStore" /\ p[th[t].e] # None
                 /\ p' = p /\ Ended(t, p[th[t].e])
           /\ \/ UNCHANGED <<read, dirty>>
              \/ read.m[th[t].key] = None /\ Promoted(dirty)
<1>1. /\ th[t].e \in Entries /\ th[t].n \in Values /\ th[t].pc = "store"
      /\ th[t].op \in {"Store", "LoadOrStore"}
      /\ mu' = Free /\ UNCHANGED calls
  BY Fields DEF StoreLocked, KeyPCs, EntryPCs, Values, ThreadOK, LockPCs
<1>2. /\ TablesOK'
      /\ \/ UNCHANGED <<read, dirty>>
         \/ read.m[th[t].key] = None /\ Promoted(dirty)
  <2>1. CASE th[t].op = "LoadOrStore" /\ read.m[th[t].key] = None
    <3>1. MissLocked(dirty)
      BY <2>1 DEF StoreLocked
    <3> QED
      BY <2>1, <3>1, MissOK, CoreParts DEF TablesOK, Missed
  <2>2. CASE ~(th[t].op = "LoadOrStore" /\ read.m[th[t].key] = None)
    <3>1. UNCHANGED <<read, dirty, misses>>
      BY <2>2 DEF StoreLocked
    <3> QED
      BY <3>1, TablesAgain
  <2> QED
    BY <2>1, <2>2
<1>3. /\ ThreadsOK' /\ p' \in [Entries -> Values \cup {Expunged}]
      /\ \/ /\ th[t].op = "Store" \/ p[th[t].e] = None
            /\ p' = [p EXCEPT ![th[t].e] = th[t].n] /\ Ended(t, th[t].n)
         \/ /\ th[t].op = "LoadOrStore" /\ p[th[t].e] # None
            /\ p' = p /\ Ended(t, p[th[t].e])
  <2>1. CASE th[t].op = "Store" \/ p[th[t].e] = None
    <3>1. Finish(t, th[t].n) /\ p' = [p EXCEPT ![th[t].e] = th[t].n]
      BY <2>1 DEF StoreLocked
    <3> QED
      BY <1>1, <2>1, <3>1, FinishOK, StoreOK DEF KeyPCs
  <2>2. CASE ~(th[t].op = "Store" \/ p[th[t].e] = None)
    <3>1. Finish(t, p[th[t].e]) /\ p' = p
      BY <2>2 DEF StoreLocked
    <3>2. p[th[t].e] \in Values
      BY <1>1, ValuesOK
    <3> QED
      BY <1>1, <2>2, <3>1, <3>2, FinishOK, CoreParts DEF KeyPCs
  <2> QED
    BY <2>1, <2>2
<1> QED
  BY <1>1, <1>2, <1>3, CoreAgain, CoreParts

LEMMA FindNothingLockedDoes ==
    ASSUME CoreOK, NEW t \in Threads, FindNothingLocked(t)
    PROVE  /\ CoreOK' /\ Others(t)
           /\ th'[t].op = th[t].op /\ th'[t].key = th[t].key /\ th'[t].n = th[t].n
           /\ \/ /\ ~read.amended /\ dirty.nil /\ dirty' = [dirty EXCEPT !.nil = FALSE]
                 /\ th'[t].pc = "copy" /\ th'[t].todo = KeysOf(read.m)
              \/ ~(~read.amended /\ dirty.nil) /\ UNCHANGED dirty /\ th'[t].pc = "insert"
<1>1. /\ th[t].key \in Keys /\ th[t].pc = "lock" /\ ThreadOK(th[t]) /\ th[t] \in ThreadStates
      /\ th[t].op \in {"Store", "LoadOrStore"}
      /\ mu' = t /\ UNCHANGED <<read, misses, p, calls>>
  BY Fields DEF FindNothingLocked, KeyPCs
<1>2. CASE ~read.amended /\ dirty.nil
  <2> DEFINE x == [th[t] EXCEPT !.pc = "copy", !.todo = KeysOf(read.m)]
  <2>1. /\ dirty' = [dirty EXCEPT !.nil = FALSE]
        /\ th' = [th EXCEPT ![t].pc = "copy", ![t].todo = KeysOf(read.m)]
    BY <1>2 DEF FindNothingLocked
  <2>2. KeysOf(read.m) \in SUBSET Keys
    BY DEF KeysOf
  <2>3. x \in ThreadStates
    BY <1>1, <2>2 DEF ThreadStates, KeyPCs
  <2>4. /\ x.pc = "copy" /\ x.op = th[t].op /\ x.key = th[t].key /\ x.n = th[t].n
        /\ x.todo = KeysOf(read.m)
    BY <1>1 DEF ThreadStates
  <2>5. th' = [th EXCEPT ![t] = x]
    BY <2>1
  <2> HIDE DEF x
  <2>6. ThreadOK(x)
    BY <1>1, <2>4 DEF ThreadOK, KeyPCs, EntryPCs, LockPCs, RangePCs
  <2>7. ThreadsOK' /\ th'[t] = x /\ Others(t)
    BY <2>3, <2>5, <2>6, ThreadStep
  <2>8. TablesOK'
    BY <1>1, <2>1, CoreParts DEF TablesOK
  <2> QED
    BY <1>1, <1>2, <2>1, <2>4, <2>7, <2>8, CoreParts, CoreAgain
<1>3. CASE ~(~read.amended /\ dirty.nil)
  <2>1. Goto(t, "insert") /\ UNCHANGED dirty
    BY <1>3 DEF FindNothingLocked
  <2>2. ASSUME NEW x, x.pc = "insert", SameCall(x, th[t]) PROVE ThreadOK(x)
    BY <1>1, <2>2 DEF ThreadOK, SameCall, KeyPCs, EntryPCs, LockPCs, RangePCs
  <2>3. ThreadsOK' /\ Moved(t, "insert")
    BY <2>1, <2>2, GotoOK DEF KeyPCs
  <2> QED
    BY <1>1, <1>3, <2>1, <2>3, CoreParts, CoreAgain, TablesAgain DEF Moved, SameCall
<1> QED
  BY <1>2, <1>3

LEMMA CopyEntryDoes ==
    ASSUME CoreOK, NEW t \in Threads, CopyEntry(t), \A k \in th[t].todo : read.m[k] # None
    PROVE  /\ CoreOK' /\ Others(t)
           /\ th'[t].pc = "copy" /\ th'[t].key = th[t].key /\ th'[t].op = th[t].op
           /\ th'[t].n = th[t].n
           /\ \E k \in th[t].todo :
                /\ th'[t].todo = th[t].todo \ {k}
                /\ \/ /\ p[read.m[k]] \in {None, Expunged}
                      /\ p' = [p EXCEPT ![read.m[k]] = Expunged] /\ UNCHANGED dirty
                   \/ /\ p[read.m[k]] \notin {None, Expunged} /\ UNCHANGED p
                      /\ dirty' = [dirty EXCEPT !.m[k] = read.m[k]]
<1>1. /\ th[t].pc = "copy" /\ th[t] \in ThreadStates /\ ThreadOK(th[t])
      /\ UNCHANGED <<read, misses, mu, calls>>
  BY Fields DEF CopyEntry
<1>2. PICK k \in th[t].todo :
         /\ \/ /\ p[read.m[k]] \in {None, Expunged}
               /\ p' = [p EXCEPT ![read.m[k]] = Expunged] /\ UNCHANGED dirty
            \/ /\ p[read.m[k]] \notin {None, Expunged} /\ UNCHANGED p
               /\ dirty' = [dirty EXCEPT !.m[k] = read.m[k]]
         /\ th' = [th EXCEPT ![t].todo = @ \ {k}]
  BY DEF CopyEntry
<1>3. k \in Keys /\ read.m[k] \in Entries
  BY <1>1, CoreParts DEF ThreadStates, Maps
<1> DEFINE x == [th[t] EXCEPT !.todo = th[t].todo \ {k}]
<1>4. x \in ThreadStates
  BY <1>1 DEF ThreadStates
<1>5. /\ x.pc = "copy" /\ x.key = th[t].key /\ x.op = th[t].op /\ x.n = th[t].n
      /\ x.todo = th[t].todo \ {k}
  BY <1>1 DEF ThreadStates
<1>6. th' = [th EXCEPT ![t] = x]
  BY <1>2
<1> HIDE DEF x
<1>7. ThreadOK(x)
  BY <1>1, <1>5 DEF ThreadOK, KeyPCs, EntryPCs, LockPCs, RangePCs
<1>8. ThreadsOK' /\ th'[t] = x /\ Others(t)
  BY <1>4, <1>6, <1>7, ThreadStep
<1>9. p' \in [Entries -> Values \cup {Expunged}]
  BY <1>2, <1>3, CoreParts
<1>10. TablesOK'
  <2>1. CASE UNCHANGED dirty
    BY <1>1, <2>1, TablesAgain
  <2>2. CASE dirty' = [dirty EXCEPT !.m[k] = read.m[k]]
    BY <1>1, <1>3, <2>2, CoreParts DEF TablesOK, Maps
  <2> QED
    BY <1>2, <2>1, <2>2
<1>11. CoreOK'
  BY <1>1, <1>8, <1>9, <1>10, CoreParts, CoreAgain
<1> QED
  BY <1>2, <1>5, <1>8, <1>11

LEMMA InsertDoes ==
    ASSUME CoreOK, NEW t \in Threads, Insert(t)
    PROVE  /\ CoreOK' /\ Ended(t, th[t].n)
           /\ p' = [p EXCEPT ![th[t].n] = th[t].n]
           /\ read' = [read EXCEPT !.amended = TRUE]
           /\ dirty' = [dirty EXCEPT !.m[th[t].key] = th[t].n]
<1>1. /\ th[t].key \in Keys /\ th[t].n \in Entries /\ th[t].n \in Values
      /\ th[t].pc \in {"insert", "copy"} /\ mu' = Free
      /\ p' = [p EXCEPT ![th[t].n] = th[t].n]
      /\ read' = [read EXCEPT !.amended = TRUE]
      /\ dirty' = [dirty EXCEPT !.m[th[t].key] = th[t].n]
      /\ Finish(t, th[t].n) /\ UNCHANGED <<misses, calls>>
  BY Fields, Names DEF Insert, KeyPCs, Values
<1>2. ThreadsOK' /\ Ended(t, th[t].n)
  BY <1>1, FinishOK DEF KeyPCs
<1>3. p' \in [Entries -> Values \cup {Expunged}]
  BY <1>1, CoreParts
<1>4. TablesOK'
  BY <1>1, CoreParts DEF TablesOK, Maps
<1> QED
  BY <1>1, <1>2, <1>3, <1>4, CoreParts, CoreAgain

LEMMA FinishRangeDoes ==
    ASSUME CoreOK, NEW t \in Threads, FinishRange(t)
    PROVE  CoreOK' /\ Moved(t, "return")
<1>1. /\ th[t].pc = "walk" /\ ThreadOK(th[t]) /\ Goto(t, "return")
      /\ UNCHANGED <<read, dirty, misses, mu, p, calls>>
  BY Fields DEF FinishRange
<1>2. ASSUME NEW x, x.pc = "return", SameCall(x, th[t]) PROVE ThreadOK(x)
  BY <1>1, <1>2 DEF ThreadOK, SameCall, KeyPCs, EntryPCs, LockPCs, RangePCs
<1>3. ThreadsOK' /\ Moved(t, "return")
  BY <1>1, <1>2, GotoOK
<1> QED
  BY <1>1, <1>3, CoreParts, CoreAgain, TablesAgain

(* Range goes to walk a complete read-only map.                            *)
WalkOf(t, m) == /\ th'[t].pc = "walk" /\ th'[t].op = th[t].op /\ th'[t].key = th[t].key
                /\ th'[t].m = m /\ th'[t].todo = KeysOf(m) /\ th'[t].visited = th[t].visited
                /\ Others(t)

LEMMA WalkOK ==
    ASSUME CoreOK, NEW t \in Threads, NEW m \in Maps, th[t].pc \in {"range", "promote"},
           th' = [th EXCEPT ![t].pc = "walk", ![t].m = m, ![t].todo = KeysOf(m)]
    PROVE  ThreadsOK' /\ WalkOf(t, m)
<1> DEFINE x == [th[t] EXCEPT !.pc = "walk", !.m = m, !.todo = KeysOf(m)]
<1>1. th[t] \in ThreadStates /\ ThreadOK(th[t])
  BY Fields
<1>2. KeysOf(m) \in SUBSET Keys /\ \A k \in KeysOf(m) : m[k] # None
  BY DEF KeysOf
<1>3. x \in ThreadStates
  BY <1>1, <1>2 DEF ThreadStates, RangePCs
<1>4. /\ x.pc = "walk" /\ x.op = th[t].op /\ x.key = th[t].key
      /\ x.m = m /\ x.todo = KeysOf(m) /\ x.visited = th[t].visited
  BY <1>1 DEF ThreadStates
<1>5. th' = [th EXCEPT ![t] = x]
  OBVIOUS
<1> HIDE DEF x
<1>6. ThreadOK(x)
  BY <1>1, <1>2, <1>4 DEF ThreadOK, KeyPCs, EntryPCs, LockPCs, RangePCs
<1> QED
  BY <1>3, <1>4, <1>5, <1>6, ThreadStep DEF WalkOf

LEMMA StartRangeDoes ==
    ASSUME CoreOK, NEW t \in Threads, StartRange(t)
    PROVE  /\ CoreOK'
           /\ \/ read.amended /\ Moved(t, "promote")
              \/ ~read.amended /\ WalkOf(t, read.m)
<1>1. /\ th[t].pc = "range" /\ ThreadOK(th[t])
      /\ UNCHANGED <<read, dirty, misses, mu, p, calls>>
  BY Fields DEF StartRange
<1>2. CASE read.amended
  <2>1. Goto(t, "promote")
    BY <1>2 DEF StartRange
  <2>2. ASSUME NEW x, x.pc = "promote", SameCall(x, th[t]) PROVE ThreadOK(x)
    BY <1>1, <2>2 DEF ThreadOK, SameCall, KeyPCs, EntryPCs, LockPCs, RangePCs
  <2>3. ThreadsOK' /\ Moved(t, "promote")
    BY <2>1, <2>2, GotoOK DEF RangePCs
  <2> QED
    BY <1>1, <1>2, <2>3, CoreParts, CoreAgain, TablesAgain
<1>3. CASE ~read.amended
  <2>1. th' = [th EXCEPT ![t].pc = "walk", ![t].m = read.m, ![t].todo = KeysOf(read.m)]
    BY <1>3 DEF StartRange
  <2>2. ThreadsOK' /\ WalkOf(t, read.m)
    BY <1>1, <2>1, CoreParts, WalkOK
  <2> QED
    BY <1>1, <1>3, <2>2, CoreParts, CoreAgain, TablesAgain
<1> QED
  BY <1>2, <1>3

LEMMA PromoteDoes ==
    ASSUME CoreOK, NEW t \in Threads, Promote(t)
    PROVE  /\ CoreOK'
           /\ \/ read.amended /\ Promoted(dirty) /\ WalkOf(t, dirty.m)
              \/ ~read.amended /\ UNCHANGED <<read, dirty>> /\ WalkOf(t, read.m)
<1>1. /\ th[t].pc = "promote" /\ UNCHANGED <<mu, p, calls>>
      /\ th' = [th EXCEPT ![t].pc = "walk", ![t].m = read'.m, ![t].todo = KeysOf(read'.m)]
  BY DEF Promote
<1>2. CASE read.amended
  <2>1. Promoted(dirty) /\ misses' = 0
    BY <1>2 DEF Promote, Promoted
  <2>2. TablesOK'
    BY <2>1, CoreParts, EmptyMap DEF Promoted, TablesOK, NoDirty
  <2>3. read'.m = dirty.m
    BY <2>1 DEF Promoted
  <2>4. ThreadsOK' /\ WalkOf(t, dirty.m)
    BY <1>1, <2>3, CoreParts, WalkOK
  <2> QED
    BY <1>1, <1>2, <2>1, <2>2, <2>4, CoreParts, CoreAgain
<1>3. CASE ~read.amended
  <2>1. UNCHANGED <<read, dirty, misses>>
    BY <1>3 DEF Promote
  <2>2. ThreadsOK' /\ WalkOf(t, read.m)
    BY <1>1, <2>1, CoreParts, WalkOK
  <2> QED
    BY <1>1, <1>3, <2>1, <2>2, CoreParts, CoreAgain, TablesAgain
<1> QED
  BY <1>2, <1>3

LEMMA WalkEntryDoes ==
    ASSUME CoreOK, NEW t \in Threads, WalkEntry(t)
    PROVE  /\ CoreOK' /\ Others(t)
           /\ th'[t].pc = "walk" /\ th'[t].op = th[t].op /\ th'[t].key = th[t].key
           /\ th'[t].m = th[t].m
           /\ \E k \in th[t].todo :
                /\ th'[t].todo = th[t].todo \ {k}
                /\ th'[t].visited = IF p[th[t].m[k]] \in {None, Expunged} THEN th[t].visited
                                                                         ELSE th[t].visited \cup {k}
<1>1. /\ th[t].pc = "walk" /\ th[t] \in ThreadStates /\ ThreadOK(th[t])
      /\ UNCHANGED <<read, dirty, misses, mu, p, calls>>
  BY Fields DEF WalkEntry
<1>2. PICK k \in th[t].todo :
         th' = [th EXCEPT ![t].todo = @ \ {k},
                  ![t].visited = IF p[th[t].m[k]] \in {None, Expunged} THEN @ ELSE @ \cup {k}]
  BY DEF WalkEntry
<1> DEFINE v == IF p[th[t].m[k]] \in {None, Expunged} THEN th[t].visited ELSE th[t].visited \cup {k}
           x == [th[t] EXCEPT !.todo = th[t].todo \ {k}, !.visited = v]
<1>3. v \in SUBSET Keys
  BY <1>1 DEF ThreadStates
<1>4. th' = [th EXCEPT ![t] = x]
  BY <1>2
<1> HIDE DEF v
<1>5. x \in ThreadStates
  BY <1>1, <1>3 DEF ThreadStates
<1>6. /\ x.pc = "walk" /\ x.op = th[t].op /\ x.key = th[t].key /\ x.m = th[t].m
      /\ x.todo = th[t].todo \ {k} /\ x.visited = v
  BY <1>1 DEF ThreadStates
<1> HIDE DEF x
<1>7. ThreadOK(x)
  BY <1>1, <1>6 DEF ThreadOK, KeyPCs, EntryPCs, LockPCs, RangePCs
<1>8. ThreadsOK' /\ th'[t] = x /\ Others(t)
  BY <1>4, <1>5, <1>7, ThreadStep
<1>9. CoreOK'
  BY <1>1, <1>8, CoreParts, CoreAgain, TablesAgain
<1> QED
  BY <1>6, <1>8, <1>9 DEF v

LEMMA ReturnDoes ==
    ASSUME CoreOK, NEW t \in Threads, Return(t)
    PROVE  CoreOK' /\ Others(t) /\ th'[t] = Idle
<1>1. Idle \in ThreadStates
  BY EmptyMap DEF Idle, ThreadStates, Values, KeyOps
<1>2. ThreadOK(Idle)
  BY DEF Idle, ThreadOK, KeyPCs, EntryPCs, LockPCs, RangePCs
<1>3. th' = [th EXCEPT ![t] = Idle] /\ UNCHANGED <<read, dirty, misses, mu, p, calls>>
  BY DEF Return
<1>4. ThreadsOK' /\ Others(t) /\ th'[t] = Idle
  BY <1>1, <1>2, <1>3, ThreadStep
<1> QED
  BY <1>3, <1>4, CoreParts, CoreAgain, TablesAgain

-----------------------------------------------------------------------------
(* MapInv is inductive.                                                    *)

LEMMA LockStep ==
    ASSUME CoreOK, LockInv, NEW t \in Threads, Others(t),
           \/ mu' = mu /\ (th'[t].pc \in LockPCs <=> th[t].pc \in LockPCs)
           \/ mu = Free /\ mu' = t /\ th'[t].pc \in LockPCs
           \/ mu' = Free /\ th[t].pc \in LockPCs /\ th'[t].pc \notin LockPCs
    PROVE  LockInv'
<1> SUFFICES ASSUME NEW u \in Threads PROVE th'[u].pc \in LockPCs <=> mu' = u
  BY DEF LockInv
<1>1. th[u].pc \in LockPCs <=> mu = u
  BY DEF LockInv
<1>2. th[t].pc \in LockPCs <=> mu = t
  BY DEF LockInv
<1>3. u # Free /\ t # Free
  BY Names
<1> QED
  BY <1>1, <1>2, <1>3 DEF Others

(* While nobody holds mu, or a thread that is not copying does.            *)
LEMMA NotCopying ==
    ASSUME LockInv, mu = Free \/ (mu \in Threads /\ th[mu].pc # "copy")
    PROVE  \A u \in Threads : th[u].pc # "copy"
  BY Names DEF LockInv, LockPCs

(* The keys of the maps stay with their entries.                           *)
LEMMA OwnKeeps ==
    ASSUME CoreOK, CoreOK', OwnInv, NEW t \in Threads, Others(t), calls' \in {calls, calls + 1},
           \A k \in Keys : read'.m[k] \in {None, read.m[k], dirty.m[k]},
           \A k \in Keys : dirty'.m[k] \in {None, read.m[k], dirty.m[k]},
           th'[t].pc \in EntryPCs =>
             /\ th'[t].key = th[t].key
             /\ \/ th[t].pc \in EntryPCs /\ th'[t].e = th[t].e
                \/ th'[t].e \in {read.m[th[t].key], dirty.m[th[t].key]},
           th'[t].pc \in KeyPCs => \/ th[t].pc \in KeyPCs /\ th'[t].n = th[t].n
                                   \/ th'[t].n = calls' /\ calls' = calls + 1
    PROVE  OwnInv'
<1>1. PICK own \in [Entries -> Keys \cup {None}] : OwnedBy(own)
  BY DEF OwnInv
<1>2. /\ \A k \in Keys : read.m[k] # None => own[read.m[k]] = k
      /\ \A k \in Keys : dirty.m[k] # None => own[dirty.m[k]] = k
      /\ \A u \in Threads : th[u].pc \in EntryPCs => own[th[u].e] = th[u].key
      /\ \A u \in Threads : th[u].pc \in KeyPCs => th[u].n <= calls /\ own[th[u].n] = None
      /\ \A u, w \in Threads : th[u].pc \in KeyPCs /\ th[w].pc \in KeyPCs /\ w # u => th[u].n # th[w].n
      /\ \A e \in Entries : e > calls => own[e] = None
  BY <1>1 DEF OwnedBy
<1>3. calls \in Nat
  BY MapAssumption DEF CoreOK
<1>4. \A u \in Threads : th[u].pc \in KeyPCs => th[u].n \in Calls
  BY Fields
<1>5. th'[t].pc \in KeyPCs => th'[t].n \in Calls /\ th'[t].key \in Keys
  BY DEF CoreOK, ThreadOK
<1>6. th'[t].pc \in EntryPCs => th'[t].e \in Entries /\ th'[t].pc \in KeyPCs
  BY DEF CoreOK, ThreadOK, EntryPCs, KeyPCs
<1>7. /\ \A k \in Keys : read'.m[k] # None => own[read'.m[k]] = k
      /\ \A k \in Keys : dirty'.m[k] # None => own[dirty'.m[k]] = k
  BY <1>2
<1>8. \A u \in Threads : th'[u].pc \in EntryPCs => own[th'[u].e] = th'[u].key
  BY <1>2, <1>5, <1>6, Names DEF Others
<1>9. th'[t].pc \in KeyPCs => th'[t].n <= calls' /\ own[th'[t].n] = None
  BY <1>2, <1>3, <1>4, <1>5, Names DEF Calls
<1>10. \A u \in Threads : th'[u].pc \in KeyPCs => th'[u].n <= calls' /\ own[th'[u].n] = None
  BY <1>2, <1>3, <1>4, <1>9 DEF Others, Calls
<1>11. \A u, w \in Threads : th'[u].pc \in KeyPCs /\ th'[w].pc \in KeyPCs /\ w # u => th'[u].n # th'[w].n
  BY <1>2, <1>3, <1>4, <1>5 DEF Others, Calls
<1>12. \A e \in Entries : e > calls' => own[e] = None
  BY <1>2, <1>3 DEF Entries, Calls
<1>13. OwnedBy(own)'
  BY <1>7, <1>8, <1>10, <1>11, <1>12 DEF OwnedBy
<1> QED
  BY <1>13 DEF OwnInv

(* What follows for the entries of different keys and of different calls.  *)
LEMMA OwnFacts ==
    ASSUME CoreOK, OwnInv
    PROVE  /\ \A t, u \in Threads : th[t].pc \in EntryPCs /\ th[u].pc \in EntryPCs /\ th[t].e = th[u].e
                                      => th[t].key = th[u].key
           /\ \A t \in Threads, k \in Keys :
                th[t].pc \in EntryPCs /\ th[t].e \in {read.m[k], dirty.m[k]} => th[t].key = k
           /\ \A k, l \in Keys : EntryOf(k) # None /\ EntryOf(k) = EntryOf(l) => k = l
           /\ \A t \in Threads : th[t].pc \in KeyPCs =>
                /\ \A k \in Keys : th[t].n \notin {read.m[k], dirty.m[k]}
                /\ \A u \in Threads : th[u].pc \in EntryPCs => th[u].e # th[t].n
<1>1. PICK own \in [Entries -> Keys \cup {None}] : OwnedBy(own)
  BY DEF OwnInv
<1>2. /\ \A k \in Keys : read.m[k] # None => own[read.m[k]] = k
      /\ \A k \in Keys : dirty.m[k] # None => own[dirty.m[k]] = k
      /\ \A u \in Threads : th[u].pc \in EntryPCs => own[th[u].e] = th[u].key
      /\ \A u \in Threads : th[u].pc \in KeyPCs => own[th[u].n] = None
  BY <1>1 DEF OwnedBy
<1>3. \A u \in Threads : th[u].pc \in EntryPCs => th[u].e \in Entries /\ th[u].pc \in KeyPCs
  BY Fields DEF EntryPCs, KeyPCs
<1>4. \A u \in Threads : th[u].pc \in KeyPCs => th[u].key \in Keys /\ th[u].key # None /\ th[u].n # None
  BY Fields, Names
<1>5. \A k \in Keys : k # None
  BY Names
<1>6. \A u \in Threads : th[u].pc \in EntryPCs => th[u].e # None
  BY <1>3, Names
<1> QED
  BY <1>2, <1>3, <1>4, <1>5, <1>6 DEF EntryOf

(* MapInv sees of the pointers only which are expunged.                    *)
SameExpunged == \A e \in Entries : p'[e] = Expunged <=> p[e] = Expunged

(* What a step of t has to respect for the rest of MapInv to hold again,   *)
(* when it leaves the maps as they are and does not copy entries.          *)
LEMMA QuietMap ==
    ASSUME MapInv, CoreOK', NEW t \in Threads, Others(t), UNCHANGED <<read, dirty>>, SameExpunged,
           th[t].pc # "copy", th'[t].pc # "copy",
           mu' = Free /\ ~read.amended => dirty.nil,
           DirtyAt(t)', FoundAt(t)',
           Deletes(t)' => read.m[th'[t].key] = th'[t].e \/ p'[th'[t].e] = Expunged
    PROVE  DirtyInv' /\ EntryInv' /\ FoundInv'
<1>1. CoreOK /\ DirtyInv /\ EntryInv /\ FoundInv /\ OwnInv
  BY DEF MapInv
<1>2. DirtyInv'
  <2>1. \A u \in Threads \ {t} : DirtyAt(u)'
    BY <1>1 DEF DirtyInv, DirtyAt, Others
  <2> QED
    BY <1>1, <2>1 DEF DirtyInv
<1>3. \A k \in Keys : Copying(k)' <=> Copying(k)
  BY DEF Copying, Others
<1>4. \A k \in Keys : /\ read.m[k] # None => read.m[k] \in Entries
                      /\ dirty.m[k] # None => dirty.m[k] \in Entries
  BY <1>1, CoreParts DEF Maps
<1>5. EntryInv'
  BY <1>1, <1>3, <1>4 DEF EntryInv, SameExpunged
<1>6. ASSUME NEW u \in Threads \ {t}
      PROVE  FoundAt(u)' /\ (Deletes(u)' => \/ read'.m[th'[u].key] = th'[u].e
                                            \/ p'[th'[u].e] = Expunged
                                            \/ TakenOut(u)')
  <2>1. th'[u] = th[u] /\ th[u].key \in Keys \cup {None}
    BY <1>1, Fields DEF Others, ThreadStates
  <2>2. th[u].pc \in EntryPCs => th[u].e \in Entries
    BY <1>1, Fields
  <2>3. FoundAt(u)'
    BY <1>1, <2>1, <2>2 DEF FoundInv, FoundAt, SameExpunged, EntryOf, EntryPCs
  <2>4. CASE Deletes(u) /\ TakenOut(u) /\ read.m[th[u].key] # th[u].e /\ p[th[u].e] # Expunged
    <3>1. ASSUME Deletes(t)', th'[t].e = th[u].e PROVE FALSE
      <4>1. th'[t].e \in Entries /\ th'[t].key \in Keys /\ th'[t].pc \in EntryPCs
        BY <3>1 DEF Deletes, EntryPCs, KeyPCs, CoreOK, ThreadOK
      <4>2. read.m[th'[t].key] = th[u].e
        BY <2>2, <2>4, <3>1, <4>1 DEF SameExpunged
      <4>3. th[u].pc \in EntryPCs
        BY <2>4 DEF Deletes, EntryPCs
      <4>4. th[u].key = th'[t].key
        BY <1>1, <4>1, <4>2, <4>3, OwnFacts
      <4> QED
        BY <2>4, <4>2, <4>4
    <3> QED
      BY <2>1, <2>3, <2>4, <3>1 DEF TakenOut, Deletes, Others
  <2>5. Deletes(u) /\ ~TakenOut(u) => read.m[th[u].key] = th[u].e \/ p[th[u].e] = Expunged
    BY <1>1 DEF FoundInv
  <2>6. Deletes(u)' <=> Deletes(u)
    BY <2>1 DEF Deletes
  <2>7. Deletes(u) => th[u].e \in Entries
    BY <2>2 DEF Deletes, EntryPCs
  <2> QED
    BY <2>1, <2>3, <2>4, <2>5, <2>6, <2>7 DEF SameExpunged
<1>7. FoundInv'
  BY <1>6 DEF FoundInv
<1> QED
  BY <1>2, <1>5, <1>7

LEMMA SamePointers ==
    ASSUME p' = p
    PROVE  SameExpunged
  BY DEF SameExpunged

(* A step that takes no lock, and finds at most an entry of the read-only  *)
(* map.                                                                    *)
LEMMA CalmStep ==
    ASSUME MapInv, CoreOK', NEW t \in Threads, Others(t), UNCHANGED <<read, dirty, mu>>, SameExpunged,
           calls' \in {calls, calls + 1},
           th[t].pc \notin LockPCs, th'[t].pc \notin LockPCs,
           th'[t].pc \in EntryPCs => th'[t].key = th[t].key /\ th'[t].e = read.m[th[t].key],
           th'[t].pc \in KeyPCs => \/ th[t].pc \in KeyPCs /\ th'[t].n = th[t].n
                                   \/ th'[t].n = calls' /\ calls' = calls + 1
    PROVE  MapInv'
<1>1. CoreOK /\ DirtyInv /\ LockInv /\ OwnInv
  BY DEF MapInv
<1>2. LockInv'
  BY <1>1, LockStep
<1>3. OwnInv'
  BY <1>1, OwnKeeps
<1>4. DirtyAt(t)' /\ FoundAt(t)'
  BY DEF DirtyAt, FoundAt, LockPCs, EntryPCs
<1>5. Deletes(t)' => read.m[th'[t].key] = th'[t].e
  BY DEF Deletes, EntryPCs
<1>6. mu' = Free /\ ~read.amended => dirty.nil
  BY <1>1 DEF DirtyInv
<1>7. DirtyInv' /\ EntryInv' /\ FoundInv'
  BY <1>4, <1>5, <1>6, QuietMap DEF LockPCs
<1> QED
  BY <1>2, <1>3, <1>7 DEF MapInv

LEMMA CallMap ==
    ASSUME MapInv, NEW t \in Threads, Call(t)
    PROVE  MapInv'
<1>1. CoreOK' /\ Others(t) /\ th'[t].pc \in {"range", "read"} /\ (th'[t].pc = "read" => th'[t].n = calls')
  BY CallDoes DEF MapInv
<1>2. th[t].pc = "idle" /\ calls' = calls + 1 /\ UNCHANGED <<read, dirty, mu, p>>
  BY DEF Call
<1> QED
  BY <1>1, <1>2, SamePointers, CalmStep DEF EntryPCs, LockPCs, KeyPCs

(* The steps before the lock and of Range.                                 *)
LEMMA MovedMap ==
    ASSUME MapInv, CoreOK', NEW t \in Threads, NEW q, Moved(t, q), q \in {"return", "lock", "promote"},
           UNCHANGED <<read, dirty, mu, calls>>, SameExpunged, th[t].pc \notin LockPCs,
           q = "lock" => th[t].pc \in KeyPCs
    PROVE  MapInv'
<1>1. Others(t) /\ th'[t].pc = q /\ th'[t].n = th[t].n
  BY DEF Moved, SameCall
<1> QED
  BY <1>1, CalmStep DEF EntryPCs, LockPCs, KeyPCs

LEMMA ReadFastMap ==
    ASSUME MapInv, NEW t \in Threads, ReadFast(t)
    PROVE  MapInv'
<1>1. th[t].pc = "read" /\ UNCHANGED <<read, dirty, mu, p, calls>> /\ CoreOK'
  BY ReadFastDoes DEF ReadFast, MapInv
<1>2. CASE Found(t, "fast", read.m[th[t].key])
  <2>1. /\ Others(t) /\ th'[t].pc = "fast" /\ th'[t].key = th[t].key /\ th'[t].n = th[t].n
        /\ th'[t].e = read.m[th[t].key]
    BY <1>2 DEF Found
  <2> QED
    BY <1>1, <2>1, SamePointers, CalmStep DEF EntryPCs, LockPCs, KeyPCs
<1>3. CASE Moved(t, "lock") \/ Moved(t, "return")
  BY <1>1, <1>3, SamePointers, MovedMap DEF LockPCs, KeyPCs
<1> QED
  BY <1>2, <1>3, ReadFastDoes DEF Ended, MapInv

LEMMA PointerStored ==
    ASSUME CoreOK, NEW e \in Entries, NEW v \in Values, p' = [p EXCEPT ![e] = v], p[e] # Expunged
    PROVE  SameExpunged
<1>1. v # Expunged
  BY Names DEF Values
<1> QED
  BY <1>1, CoreParts DEF SameExpunged

LEMMA EntryStepsMap ==
    ASSUME MapInv, NEW t \in Threads, LoadEntry(t) \/ DeleteEntry(t) \/ TryStore(t) \/ TryLoadOrStore(t)
    PROVE  MapInv'
<1> DEFINE e == th[t].e
<1>1. /\ CoreOK /\ UNCHANGED <<read, dirty, mu, calls>> /\ th[t].pc \in {"fast", "entry"}
  BY DEF LoadEntry, DeleteEntry, TryStore, TryLoadOrStore, MapInv
<1>2. e \in Entries /\ th[t].n \in Values /\ None \in Values /\ th[t].pc \in KeyPCs
      /\ th[t].pc \notin LockPCs
  BY <1>1, Fields DEF EntryPCs, KeyPCs, Values, LockPCs
<1>3. CoreOK' /\ (Moved(t, "return") \/ Moved(t, "lock"))
  BY <1>1, LoadEntryDoes, DeleteEntryDoes, TryStoreDoes, TryLoadOrStoreDoes DEF Ended
<1>4. \/ p' = p
      \/ p[e] # Expunged /\ (p' = [p EXCEPT ![e] = None] \/ p' = [p EXCEPT ![e] = th[t].n])
  <2>1. CASE LoadEntry(t)
    BY <2>1 DEF LoadEntry
  <2>2. CASE DeleteEntry(t)
    BY <1>1, <2>2, DeleteEntryDoes DEF ValueOf
  <2>3. CASE TryStore(t)
    BY <1>1, <2>3, TryStoreDoes
  <2>4. CASE TryLoadOrStore(t)
    BY <1>1, <2>4, TryLoadOrStoreDoes, Names
  <2> QED
    BY <2>1, <2>2, <2>3, <2>4
<1>5. SameExpunged
  BY <1>1, <1>2, <1>4, SamePointers, PointerStored
<1> QED
  BY <1>1, <1>2, <1>3, <1>5, MovedMap

LEMMA RangeStepsMap ==
    ASSUME MapInv, NEW t \in Threads, StartRange(t) \/ WalkEntry(t) \/ FinishRange(t) \/ Return(t)
    PROVE  MapInv'
<1>1. /\ UNCHANGED <<read, dirty, mu, p, calls>> /\ th[t].pc \in {"range", "walk", "return"}
  BY DEF StartRange, WalkEntry, FinishRange, Return
<1>2. CoreOK' /\ Others(t) /\ th'[t].pc \in {"walk", "promote", "return", "idle"}
  BY StartRangeDoes, WalkEntryDoes, FinishRangeDoes, ReturnDoes DEF MapInv, Moved, WalkOf, Idle
<1> QED
  BY <1>1, <1>2, SamePointers, CalmStep DEF EntryPCs, LockPCs, KeyPCs

LEMMA FindLockedMap ==
    ASSUME MapInv, NEW t \in Threads, FindReadLocked(t) \/ FindDirtyLocked(t)
    PROVE  MapInv'
<1> DEFINE k == th[t].key
           e == EntryOf(k)
<1>1. /\ CoreOK' /\ mu = Free /\ mu' = t /\ th[t].pc = "lock"
      /\ e # None /\ UNCHANGED <<read, dirty, misses, p, calls>>
      /\ \/ read.m[k] # None /\ Found(t, "unexpunge", e)
         \/ read.m[k] = None /\ Found(t, "store", e)
  BY FindLockedDoes DEF MapInv
<1>2. /\ Others(t) /\ th'[t].e = e /\ th'[t].key = k /\ th'[t].n = th[t].n /\ k \in Keys
      /\ \/ read.m[k] # None /\ th'[t].pc = "unexpunge"
         \/ read.m[k] = None /\ th'[t].pc = "store"
  BY <1>1, Fields DEF Found, MapInv, KeyPCs
<1>3. CoreOK /\ DirtyInv /\ LockInv /\ OwnInv /\ EntryInv
  BY DEF MapInv
<1>4. LockInv'
  BY <1>1, <1>2, <1>3, LockStep DEF LockPCs
<1>5. OwnInv'
  <2>1. e \in {read.m[k], dirty.m[k]}
    BY DEF EntryOf
  <2> QED
    BY <1>1, <1>2, <1>3, <2>1, OwnKeeps DEF KeyPCs
<1>6. mu' = Free /\ ~read.amended => dirty.nil
  BY <1>1, Names
<1>7. DirtyAt(t)'
  BY <1>1, <1>2, <1>3 DEF DirtyInv, DirtyAt
<1>8. FoundAt(t)'
  BY <1>1, <1>2, <1>3 DEF FoundAt, EntryOf, EntryInv
<1>9. ~Deletes(t)' /\ th'[t].pc # "copy"
  BY <1>2 DEF Deletes
<1> QED
  BY <1>1, <1>2, <1>4, <1>5, <1>6, <1>7, <1>8, <1>9, SamePointers, QuietMap DEF MapInv

(* missLocked: d is the dirty map, or what is left of it when an entry has *)
(* been taken out.                                                         *)
LeftOf(d) == /\ d \in [nil : BOOLEAN, m : Maps] /\ d.nil = dirty.nil
             /\ \A k \in Keys : d.m[k] = dirty.m[k] \/ (d.m[k] = None /\ read.m[k] = None)

LEMMA MissMap ==
    ASSUME MapInv, CoreOK', NEW t \in Threads, NEW d, LeftOf(d), Missed(d) \/ Promoted(d),
           read.amended, Others(t), SameExpunged, calls' = calls,
           mu' = Free, mu = Free \/ th[t].pc = "store", th'[t].pc \notin LockPCs,
           th'[t].pc \in KeyPCs =>
             /\ th'[t].pc = "entry" /\ th[t].pc = "lock"
             /\ th'[t].key = th[t].key /\ th'[t].n = th[t].n
             /\ th'[t].e \in {read.m[th[t].key], dirty.m[th[t].key]},
           Deletes(t)' => /\ read.m[th[t].key] = None /\ th'[t].e = dirty.m[th[t].key]
                          /\ d.m[th[t].key] = None
    PROVE  MapInv'
<1>1. CoreOK /\ DirtyInv /\ LockInv /\ OwnInv /\ EntryInv /\ FoundInv
  BY DEF MapInv
<1>2. LockInv'
  <2>1. mu = Free => th[t].pc \notin LockPCs
    BY <1>1, Names DEF LockInv
  <2>2. th[t].pc = "store" => th[t].pc \in LockPCs
    BY DEF LockPCs
  <2> QED
    BY <1>1, <2>1, <2>2, LockStep
<1>3. \A k \in Keys : d.m[k] \in {None, dirty.m[k]}
  BY DEF LeftOf
<1>4. /\ \A k \in Keys : read'.m[k] \in {None, read.m[k], dirty.m[k]}
      /\ \A k \in Keys : dirty'.m[k] \in {None, read.m[k], dirty.m[k]}
  BY <1>3, EmptyMap DEF Missed, Promoted, NoDirty
<1>5. OwnInv'
  BY <1>1, <1>4, OwnKeeps DEF KeyPCs, EntryPCs
<1>6. \A u \in Threads : th[u].pc # "copy"
  <2>1. mu = Free \/ (mu = t /\ th[t].pc = "store")
    BY <1>1 DEF LockInv, LockPCs
  <2> QED
    BY <1>1, <2>1, NotCopying
<1>7. \A k \in Keys : ~Copying(k)
  BY <1>6 DEF Copying
<1>8. \A u \in Threads : th'[u].pc \notin LockPCs
  BY <1>2, Names DEF LockInv
<1>9. \A k \in Keys : ~Copying(k)'
  BY <1>8 DEF Copying, LockPCs
<1>10. ~dirty.nil
  BY <1>1 DEF DirtyInv
<1>11. \A u \in Threads : DirtyAt(u)'
  BY <1>8 DEF DirtyAt, LockPCs
<1>12. \A k \in Keys : /\ read.m[k] # None => read.m[k] \in Entries
                       /\ dirty.m[k] # None => dirty.m[k] \in Entries
  BY <1>1, CoreParts DEF Maps
<1>13. \A k \in Keys : /\ dirty.m[k] # None => p'[dirty.m[k]] # Expunged
                       /\ read.m[k] # None /\ p'[read.m[k]] # Expunged => d.m[k] = read.m[k]
                       /\ read.m[k] # None /\ dirty.m[k] # None => read.m[k] = dirty.m[k]
  BY <1>1, <1>7, <1>10, <1>12 DEF EntryInv, SameExpunged, LeftOf
<1>14. DirtyInv' /\ EntryInv'
  <2>1. CASE Missed(d)
    <3>1. read' = read /\ dirty' = d
      BY <2>1 DEF Missed
    <3>2. DirtyInv'
      BY <3>1, <1>10, <1>11 DEF DirtyInv, LeftOf
    <3>3. EntryInv'
      BY <3>1, <1>3, <1>9, <1>10, <1>13 DEF EntryInv, LeftOf
    <3> QED
      BY <3>2, <3>3
  <2>2. CASE Promoted(d)
    <3>1. /\ read'.m = d.m /\ read'.amended = FALSE /\ dirty'.nil = TRUE
          /\ \A k \in Keys : dirty'.m[k] = None
      BY <2>2, EmptyMap DEF Promoted, NoDirty
    <3>2. DirtyInv'
      BY <3>1, <1>11 DEF DirtyInv
    <3>3. EntryInv'
      BY <3>1, <1>3, <1>9, <1>13 DEF EntryInv
    <3> QED
      BY <3>2, <3>3
  <2> QED
    BY <2>1, <2>2
<1>15. ASSUME NEW u \in Threads \ {t}
       PROVE  FoundAt(u)' /\ (Deletes(u)' => \/ read'.m[th'[u].key] = th'[u].e
                                             \/ p'[th'[u].e] = Expunged
                                             \/ TakenOut(u)')
  <2>1. th'[u] = th[u] /\ (th[u].pc \in {"fast", "entry"} => th[u].key \in Keys /\ th[u].e \in Entries)
    BY <1>1, Fields DEF Others, KeyPCs, EntryPCs
  <2>2. th[u].pc \in {"fast", "entry"} /\ read.m[th[u].key] = th[u].e /\ p'[th[u].e] # Expunged
           => read'.m[th[u].key] = th[u].e
    BY <2>1, <1>13, Names DEF Missed, Promoted
  <2>3. FoundAt(u)'
    <3>1. th[u].pc = "fast" => read.m[th[u].key] = th[u].e \/ p'[th[u].e] = Expunged
      BY <1>1, <2>1 DEF FoundInv, FoundAt, SameExpunged
    <3> QED
      BY <2>1, <2>2, <3>1, <1>8 DEF FoundAt, LockPCs
  <2>4. CASE Deletes(u) /\ TakenOut(u)
    <3>1. dirty.m[th[u].key] # th[u].e /\ th[u].e # None /\ th[u].key \in Keys
      BY <2>1, <2>4, Names DEF TakenOut, Deletes
    <3>2. dirty'.m[th[u].key] # th[u].e
      BY <3>1, <1>3, EmptyMap DEF Missed, Promoted, NoDirty
    <3>3. ASSUME Deletes(t)', th'[t].e = th[u].e PROVE FALSE
      <4>1. th[u].e = dirty.m[th[t].key] /\ th[t].key \in Keys
        BY <1>1, <3>3, Fields DEF Deletes, KeyPCs
      <4>2. th[u].pc \in EntryPCs
        BY <2>4 DEF Deletes, EntryPCs
      <4>3. th[u].key = th[t].key
        BY <1>1, <4>1, <4>2, OwnFacts
      <4> QED
        BY <3>1, <4>1, <4>3
    <3>4. TakenOut(u)'
      BY <2>1, <2>4, <3>2, <3>3 DEF TakenOut, Deletes, Others
    <3> QED
      BY <2>3, <3>4
  <2>5. CASE Deletes(u) /\ ~TakenOut(u)
    <3>1. read.m[th[u].key] = th[u].e \/ p'[th[u].e] = Expunged
      BY <1>1, <2>1, <2>5 DEF FoundInv, SameExpunged, Deletes
    <3> QED
      BY <2>1, <2>2, <2>3, <2>5, <3>1 DEF Deletes
  <2> QED
    BY <2>1, <2>3, <2>4, <2>5 DEF Deletes
<1>16. FoundAt(t)'
  BY <1>8 DEF FoundAt, LockPCs, KeyPCs
<1>17. Deletes(t)' => TakenOut(t)' \/ p'[th'[t].e] = Expunged
  <2> SUFFICES ASSUME Deletes(t)' PROVE TakenOut(t)'
    OBVIOUS
  <2>1. /\ th'[t].key = th[t].key /\ th[t].key \in Keys /\ th'[t].e = dirty.m[th[t].key]
        /\ d.m[th[t].key] = None /\ th'[t].e # None
    BY <1>1, Fields, Names DEF Deletes, KeyPCs, EntryPCs, CoreOK, ThreadOK
  <2>2. dirty'.m[th[t].key] = None
    BY <2>1, EmptyMap DEF Missed, Promoted, NoDirty
  <2>3. ASSUME NEW u \in Threads \ {t}, Deletes(u), th[u].e = th'[t].e PROVE FALSE
    <3>1. th[u].pc \in EntryPCs /\ th[u].e \in Entries
      BY <1>1, <2>3, Fields DEF Deletes, EntryPCs
    <3>2. th[u].key = th[t].key
      BY <1>1, <2>1, <2>3, <3>1, OwnFacts
    <3>3. ~TakenOut(u) /\ p[th[u].e] # Expunged /\ read.m[th[u].key] = None
      BY <1>13, <2>1, <2>3, <3>1, <3>2 DEF TakenOut, SameExpunged, Deletes
    <3> QED
      BY <1>1, <2>1, <2>3, <3>3 DEF FoundInv
  <2> QED
    BY <2>1, <2>2, <2>3 DEF TakenOut, Deletes, Others
<1>18. FoundInv'
  BY <1>15, <1>16, <1>17 DEF FoundInv
<1> QED
  BY <1>2, <1>5, <1>14, <1>18 DEF MapInv

LEMMA LeftOK ==
    ASSUME CoreOK, NEW t \in Threads, th[t].key \in Keys
    PROVE  /\ LeftOf(dirty)
           /\ read.m[th[t].key] = None => LeftOf(Looked(t))
           /\ th[t].op # "Load" => Looked(t).m[th[t].key] = None
<1>1. dirty \in [nil : BOOLEAN, m : Maps]
  BY CoreParts DEF TablesOK
<1> QED
  BY <1>1 DEF LeftOf, Looked, Maps

LEMMA LookLockedMap ==
    ASSUME MapInv, NEW t \in Threads, LookLocked(t)
    PROVE  MapInv'
<1> DEFINE k == th[t].key
           e == EntryOf(k)
<1>1. /\ th[t].pc = "lock" /\ mu = Free /\ UNCHANGED <<mu, p, calls>>
      /\ th[t].op \in {"Load", "LoadAndDelete"}
  BY DEF LookLocked
<1>2. /\ CoreOK' /\ k \in Keys
      /\ \/ e # None /\ Found(t, "entry", e)
         \/ e = None /\ Ended(t, None)
      /\ \/ read.m[k] = None /\ read.amended /\ (Missed(Looked(t)) \/ Promoted(Looked(t)))
         \/ ~(read.m[k] = None /\ read.amended) /\ UNCHANGED <<read, dirty>>
  BY <1>1, LookLockedDoes, Fields DEF MapInv, KeyPCs
<1>3. /\ Others(t) /\ th'[t].pc \in {"entry", "return"} /\ th'[t].n = th[t].n
      /\ th'[t].key = k /\ th'[t].op = th[t].op /\ (th'[t].pc = "entry" => th'[t].e = e)
  BY <1>2 DEF Found, Ended, Moved, SameCall
<1>4. CoreOK /\ DirtyInv
  BY DEF MapInv
<1>5. CASE read.m[k] = None /\ read.amended
  <2>1. LeftOf(Looked(t)) /\ (th[t].op # "Load" => Looked(t).m[k] = None)
    BY <1>2, <1>4, <1>5, LeftOK
  <2>2. e = dirty.m[k]
    BY <1>5 DEF EntryOf
  <2>3. Deletes(t)' => th'[t].op = "LoadAndDelete" /\ th'[t].pc = "entry"
    BY DEF Deletes
  <2>4. Missed(Looked(t)) \/ Promoted(Looked(t))
    BY <1>2, <1>5
  <2> QED
    BY <1>1, <1>2, <1>3, <1>5, <2>1, <2>2, <2>3, <2>4, SamePointers, MissMap DEF LockPCs, KeyPCs
<1>6. CASE ~(read.m[k] = None /\ read.amended)
  <2>1. e = read.m[k]
    BY <1>2, <1>4, <1>6 DEF DirtyInv, EntryOf
  <2> QED
    BY <1>1, <1>2, <1>3, <1>6, <2>1, SamePointers, CalmStep DEF LockPCs, KeyPCs, EntryPCs
<1> QED
  BY <1>5, <1>6

LEMMA PromoteMap ==
    ASSUME MapInv, NEW t \in Threads, Promote(t)
    PROVE  MapInv'
<1>1. th[t].pc = "promote" /\ mu = Free /\ UNCHANGED <<mu, p, calls>>
  BY DEF Promote
<1>2. /\ CoreOK'
      /\ \/ read.amended /\ Promoted(dirty) /\ WalkOf(t, dirty.m)
         \/ ~read.amended /\ UNCHANGED <<read, dirty>> /\ WalkOf(t, read.m)
  BY PromoteDoes DEF MapInv
<1>3. th'[t].pc = "walk" /\ Others(t)
  BY <1>2 DEF WalkOf
<1>4. LeftOf(dirty)
  BY CoreParts DEF LeftOf, TablesOK, MapInv
<1>5. ~Deletes(t)'
  BY <1>3 DEF Deletes
<1>6. CASE read.amended
  BY <1>1, <1>2, <1>3, <1>4, <1>5, <1>6, SamePointers, MissMap DEF LockPCs, KeyPCs
<1>7. CASE ~read.amended
  BY <1>1, <1>2, <1>3, <1>7, SamePointers, CalmStep DEF LockPCs, KeyPCs, EntryPCs
<1> QED
  BY <1>6, <1>7

LEMMA StoreLockedMap ==
    ASSUME MapInv, NEW t \in Threads, StoreLocked(t)
    PROVE  MapInv'
<1> DEFINE k == th[t].key
           e == th[t].e
<1>1. /\ th[t].pc = "store" /\ mu' = Free /\ calls' = calls /\ k \in Keys /\ e \in Entries
      /\ th[t].n \in Values
  BY Fields DEF StoreLocked, MapInv, KeyPCs, EntryPCs, Values
<1>2. CoreOK /\ DirtyInv /\ LockInv /\ OwnInv /\ EntryOf(k) = e /\ p[e] # Expunged
  BY <1>1 DEF MapInv, FoundInv, FoundAt
<1>3. /\ CoreOK' /\ Moved(t, "return")
      /\ p' = p \/ p' = [p EXCEPT ![e] = th[t].n]
      /\ \/ UNCHANGED <<read, dirty>>
         \/ read.m[k] = None /\ Promoted(dirty)
  BY <1>2, StoreLockedDoes DEF Ended
<1>4. Others(t) /\ th'[t].pc = "return"
  BY <1>3 DEF Moved
<1>5. SameExpunged
  BY <1>1, <1>2, <1>3, SamePointers, PointerStored
<1>6. ~Deletes(t)' /\ th'[t].pc \notin LockPCs /\ th'[t].pc \notin KeyPCs /\ th[t].pc \in LockPCs
  BY <1>1, <1>4 DEF Deletes, LockPCs, KeyPCs
<1>7. ~read.amended => dirty.nil
  BY <1>1, <1>2 DEF DirtyInv, DirtyAt
<1>8. CASE UNCHANGED <<read, dirty>>
  <2>1. LockInv'
    BY <1>1, <1>2, <1>4, <1>6, LockStep
  <2>2. OwnInv'
    BY <1>1, <1>2, <1>3, <1>4, <1>6, <1>8, OwnKeeps DEF EntryPCs, KeyPCs
  <2>3. DirtyAt(t)' /\ FoundAt(t)'
    BY <1>4 DEF DirtyAt, FoundAt
  <2> QED
    BY <1>1, <1>3, <1>4, <1>5, <1>6, <1>7, <1>8, <2>1, <2>2, <2>3, QuietMap DEF MapInv
<1>9. CASE read.m[k] = None /\ Promoted(dirty)
  <2>1. read.amended
    BY <1>1, <1>2, <1>9, Names DEF DirtyInv, EntryOf
  <2>2. LeftOf(dirty)
    BY <1>2, CoreParts DEF LeftOf, TablesOK
  <2> QED
    BY <1>1, <1>3, <1>4, <1>5, <1>6, <1>9, <2>1, <2>2, MissMap
<1> QED
  BY <1>3, <1>8, <1>9

LEMMA LockHeld ==
    ASSUME LockInv, NEW t \in Threads, th[t].pc \in LockPCs
    PROVE  mu = t /\ \A u \in Threads \ {t} : th[u].pc \notin LockPCs
  BY DEF LockInv

(* FoundInv for the threads that do not move.                              *)
LEMMA OthersFound ==
    ASSUME CoreOK, FoundInv, NEW t \in Threads, Others(t), ~Deletes(t)',
           \A u \in Threads \ {t} : th[u].pc \notin LockPCs,
           \A u \in Threads \ {t} :
             th[u].pc \in {"fast", "entry"} =>
               /\ read.m[th[u].key] = th[u].e => read'.m[th[u].key] = th[u].e
               /\ p[th[u].e] = Expunged => p'[th[u].e] = Expunged \/ read'.m[th[u].key] = th[u].e
               /\ dirty.m[th[u].key] # th[u].e => \/ dirty'.m[th[u].key] # th[u].e
                                                  \/ read'.m[th[u].key] = th[u].e,
           FoundAt(t)'
    PROVE  FoundInv'
<1> SUFFICES ASSUME NEW u \in Threads \ {t}
             PROVE  FoundAt(u)' /\ (Deletes(u)' => \/ read'.m[th'[u].key] = th'[u].e
                                                   \/ p'[th'[u].e] = Expunged
                                                   \/ TakenOut(u)')
  BY DEF FoundInv
<1>1. th'[u] = th[u] /\ th[u].pc \notin LockPCs
  BY DEF Others
<1>2. FoundAt(u)'
  BY <1>1 DEF FoundInv, FoundAt, LockPCs
<1>3. CASE Deletes(u) /\ TakenOut(u)
  <2>1. dirty'.m[th[u].key] # th[u].e \/ read'.m[th[u].key] = th[u].e
    BY <1>3 DEF Deletes, TakenOut
  <2>2. \A w \in Threads : w # u /\ Deletes(w)' => th'[w].e # th[u].e
    BY <1>3 DEF Deletes, TakenOut, Others
  <2> QED
    BY <1>1, <1>2, <2>1, <2>2 DEF TakenOut
<1>4. CASE Deletes(u) /\ ~TakenOut(u)
  BY <1>1, <1>2, <1>4 DEF FoundInv, Deletes
<1> QED
  BY <1>1, <1>2, <1>3, <1>4 DEF Deletes

LEMMA UnexpungeMap ==
    ASSUME MapInv, NEW t \in Threads, Unexpunge(t)
    PROVE  MapInv'
<1> DEFINE k == th[t].key
           e == th[t].e
<1>1. th[t].pc = "unexpunge" /\ k \in Keys /\ e \in Entries /\ UNCHANGED <<read, misses, mu, calls>>
  BY Fields DEF Unexpunge, MapInv, KeyPCs, EntryPCs
<1>2. CoreOK /\ DirtyInv /\ LockInv /\ OwnInv /\ EntryInv /\ FoundInv
  BY DEF MapInv
<1>3. CoreOK' /\ Moved(t, "store")
  BY <1>2, UnexpungeDoes
<1>4. Others(t) /\ th'[t].pc = "store" /\ th'[t].key = k /\ th'[t].e = e /\ th'[t].n = th[t].n
  BY <1>3 DEF Moved, SameCall
<1>5. read.m[k] = e /\ EntryOf(k) = e /\ e # None /\ (~read.amended => dirty.nil)
  BY <1>1, <1>2, Names DEF FoundInv, FoundAt, EntryOf, DirtyInv, DirtyAt
<1>6. mu = t /\ \A u \in Threads \ {t} : th[u].pc \notin LockPCs
  BY <1>1, <1>2, LockHeld DEF LockPCs
<1>7. LockInv'
  BY <1>1, <1>2, <1>4, LockStep DEF LockPCs
<1>8. CASE p[e] # Expunged
  <2>1. UNCHANGED <<p, dirty>>
    BY <1>2, <1>8, UnexpungeDoes
  <2>2. OwnInv'
    BY <1>1, <1>2, <1>3, <1>4, <2>1, OwnKeeps DEF EntryPCs, KeyPCs
  <2>3. DirtyAt(t)' /\ FoundAt(t)' /\ ~Deletes(t)' /\ th[t].pc # "copy" /\ th'[t].pc # "copy"
    BY <1>1, <1>4, <1>5, <1>8, <2>1 DEF DirtyAt, FoundAt, Deletes, EntryOf
  <2>4. mu' = Free /\ ~read.amended => dirty.nil
    BY <1>5
  <2> QED
    BY <1>1, <1>3, <1>4, <1>7, <2>1, <2>2, <2>3, <2>4, SamePointers, QuietMap DEF MapInv
<1>9. CASE p[e] = Expunged
  <2>1. p' = [p EXCEPT ![e] = None] /\ dirty' = [dirty EXCEPT !.m[k] = e]
    BY <1>2, <1>9, UnexpungeDoes
  <2>2. /\ dirty'.nil = dirty.nil /\ dirty'.m[k] = e
        /\ \A x \in Keys \ {k} : dirty'.m[x] = dirty.m[x]
        /\ p'[e] = None /\ \A x \in Entries \ {e} : p'[x] = p[x]
    BY <1>1, <1>2, <2>1, CoreParts DEF Maps, TablesOK
  <2>3. ~dirty.nil /\ read.amended
    BY <1>1, <1>2, <1>5, <1>9 DEF EntryInv
  <2>4. OwnInv'
    <3>1. \A x \in Keys : dirty'.m[x] \in {None, read.m[x], dirty.m[x]}
      BY <1>5, <2>2
    <3> QED
      BY <1>1, <1>2, <1>3, <1>4, <3>1, OwnKeeps DEF EntryPCs, KeyPCs
  <2>5. DirtyInv'
    <3>1. \A u \in Threads : DirtyAt(u)'
      BY <1>1, <1>4, <1>6, <2>3 DEF DirtyAt, Others, LockPCs
    <3> QED
      BY <1>1, <1>2, <2>2, <2>3, <3>1 DEF DirtyInv
  <2>6. EntryInv'
    <3>1. \A x \in Keys : ~Copying(x) /\ ~Copying(x)'
      BY <1>1, <1>4, <1>6 DEF Copying, Others, LockPCs
    <3>2. \A x \in Keys : /\ read.m[x] # None => read.m[x] \in Entries
                          /\ dirty.m[x] # None => dirty.m[x] \in Entries
      BY <1>2, CoreParts DEF Maps
    <3>3. \A x \in Keys \ {k} : read.m[x] # e
      <4>1. th[t].pc \in EntryPCs
        BY <1>1 DEF EntryPCs
      <4> QED
        BY <1>1, <1>2, <4>1, OwnFacts
    <3> QED
      BY <1>1, <1>2, <1>5, <2>2, <2>3, <3>1, <3>2, <3>3, Names DEF EntryInv
  <2>7. FoundInv'
    <3>1. FoundAt(t)' /\ ~Deletes(t)'
      BY <1>1, <1>4, <1>5, <2>2, Names DEF FoundAt, EntryOf, Deletes
    <3>2. ASSUME NEW u \in Threads \ {t}, th[u].pc \in {"fast", "entry"}
          PROVE  /\ p[th[u].e] = Expunged => p'[th[u].e] = Expunged \/ read'.m[th[u].key] = th[u].e
                 /\ dirty.m[th[u].key] # th[u].e => \/ dirty'.m[th[u].key] # th[u].e
                                                    \/ read'.m[th[u].key] = th[u].e
      <4>1. th[u].pc \in EntryPCs /\ th[u].key \in Keys /\ th[u].e \in Entries
        BY <1>2, <3>2, Fields DEF EntryPCs, KeyPCs
      <4>2. th[u].e = e => th[u].key = k
        BY <1>1, <1>2, <1>5, <4>1, OwnFacts
      <4> QED
        BY <1>1, <1>5, <2>2, <4>1, <4>2
    <3> QED
      BY <1>1, <1>2, <1>4, <1>6, <3>1, <3>2, OthersFound
  <2> QED
    BY <1>3, <1>7, <2>4, <2>5, <2>6, <2>7 DEF MapInv
<1> QED
  BY <1>8, <1>9

LEMMA FindNothingLockedMap ==
    ASSUME MapInv, NEW t \in Threads, FindNothingLocked(t)
    PROVE  MapInv'
<1> DEFINE k == th[t].key
<1>1. /\ th[t].pc = "lock" /\ k \in Keys /\ mu = Free /\ mu' = t
      /\ read.m[k] = None /\ dirty.m[k] = None
      /\ UNCHANGED <<read, misses, p, calls>>
  BY Fields DEF FindNothingLocked, MapInv, KeyPCs
<1>2. CoreOK /\ DirtyInv /\ LockInv /\ OwnInv /\ EntryInv /\ FoundInv
  BY DEF MapInv
<1>3. /\ CoreOK' /\ Others(t) /\ th'[t].key = k /\ th'[t].n = th[t].n
      /\ \/ /\ ~read.amended /\ dirty.nil /\ dirty' = [dirty EXCEPT !.nil = FALSE]
            /\ th'[t].pc = "copy" /\ th'[t].todo = KeysOf(read.m)
         \/ ~(~read.amended /\ dirty.nil) /\ UNCHANGED dirty /\ th'[t].pc = "insert"
  BY <1>2, FindNothingLockedDoes
<1>4. LockInv'
  BY <1>1, <1>2, <1>3, LockStep DEF LockPCs
<1>5. \A u \in Threads : th[u].pc \notin LockPCs
  BY <1>1, <1>2, Names DEF LockInv
<1>6. mu' # Free
  BY <1>1, Names
<1>7. dirty'.m = dirty.m
  BY <1>2, <1>3, CoreParts DEF TablesOK
<1>8. OwnInv'
  BY <1>1, <1>2, <1>3, <1>7, OwnKeeps DEF EntryPCs, KeyPCs
<1>9. FoundAt(t)' /\ ~Deletes(t)'
  BY <1>1, <1>3, <1>7 DEF FoundAt, Deletes
<1>10. CASE ~read.amended /\ dirty.nil
  <2>1. /\ dirty'.nil = FALSE
        /\ th'[t].pc = "copy" /\ th'[t].todo = KeysOf(read.m)
    BY <1>2, <1>3, <1>10, CoreParts DEF TablesOK
  <2>2. DirtyInv'
    <3>1. \A u \in Threads : DirtyAt(u)'
      BY <1>1, <1>3, <1>5, <1>10, <2>1 DEF DirtyAt, Others, LockPCs
    <3> QED
      BY <1>1, <1>2, <1>6, <1>7, <1>10, <2>1, <3>1 DEF DirtyInv
  <2>3. EntryInv'
    <3>1. \A x \in Keys : Copying(x)' <=> read.m[x] # None
      BY <1>3, <1>5, <2>1 DEF Copying, Others, LockPCs, KeysOf
    <3>2. \A x \in Keys : dirty.m[x] = None
      BY <1>2, <1>10 DEF DirtyInv
    <3> QED
      BY <1>1, <1>2, <1>7, <1>10, <2>1, <3>1, <3>2 DEF EntryInv
  <2>4. FoundInv'
    BY <1>1, <1>2, <1>3, <1>5, <1>7, <1>9, OthersFound
  <2> QED
    BY <1>3, <1>4, <1>8, <2>2, <2>3, <2>4 DEF MapInv
<1>11. CASE ~(~read.amended /\ dirty.nil)
  <2>1. UNCHANGED dirty /\ th'[t].pc = "insert" /\ read.amended
    BY <1>1, <1>2, <1>3, <1>11 DEF DirtyInv
  <2>2. DirtyAt(t)'
    BY <1>1, <2>1 DEF DirtyAt
  <2> QED
    BY <1>1, <1>3, <1>4, <1>6, <1>8, <1>9, <2>1, <2>2, SamePointers, QuietMap DEF MapInv
<1> QED
  BY <1>10, <1>11

(* While t copies, the keys that are left are those of its todo.           *)
LEMMA CopyFacts ==
    ASSUME MapInv, NEW t \in Threads, th[t].pc = "copy"
    PROVE  /\ mu = t /\ \A u \in Threads \ {t} : th[u].pc \notin LockPCs
           /\ \A x \in Keys : Copying(x) <=> x \in th[t].todo
           /\ th[t].todo \subseteq Keys
           /\ \A x \in th[t].todo : /\ read.m[x] \in Entries /\ p[read.m[x]] # Expunged
                                    /\ dirty.m[x] = None
           /\ ~read.amended /\ ~dirty.nil /\ th[t].key \in Keys
           /\ read.m[th[t].key] = None /\ dirty.m[th[t].key] = None
<1>1. CoreOK /\ LockInv /\ DirtyInv /\ EntryInv /\ FoundInv
  BY DEF MapInv
<1>2. mu = t /\ \A u \in Threads \ {t} : th[u].pc \notin LockPCs
  BY <1>1, LockHeld DEF LockPCs
<1>3. \A x \in Keys : Copying(x) <=> x \in th[t].todo
  BY <1>2 DEF Copying, LockPCs
<1>4. th[t].todo \subseteq Keys /\ th[t].key \in Keys
  BY <1>1, Fields DEF ThreadStates, KeyPCs
<1>5. \A x \in Keys : read.m[x] \in Entries \cup {None}
  BY <1>1, CoreParts DEF Maps
<1> QED
  BY <1>1, <1>2, <1>3, <1>4, <1>5 DEF EntryInv, DirtyInv, DirtyAt, FoundInv, FoundAt

LEMMA CopyEntryMap ==
    ASSUME MapInv, NEW t \in Threads, CopyEntry(t)
    PROVE  MapInv'
<1>1. th[t].pc = "copy" /\ UNCHANGED <<read, misses, mu, calls>>
  BY DEF CopyEntry
<1>2. CoreOK /\ DirtyInv /\ LockInv /\ OwnInv /\ EntryInv /\ FoundInv
  BY DEF MapInv
<1>3. /\ mu = t /\ \A u \in Threads \ {t} : th[u].pc \notin LockPCs
      /\ \A x \in Keys : Copying(x) <=> x \in th[t].todo
      /\ th[t].todo \subseteq Keys
      /\ \A x \in th[t].todo : /\ read.m[x] \in Entries /\ p[read.m[x]] # Expunged
                               /\ dirty.m[x] = None
      /\ ~read.amended /\ ~dirty.nil /\ th[t].key \in Keys
      /\ read.m[th[t].key] = None /\ dirty.m[th[t].key] = None
  BY <1>1, CopyFacts
<1>4. \A k \in th[t].todo : read.m[k] # None
  BY <1>3, Names
<1>5. /\ CoreOK' /\ Others(t)
      /\ th'[t].pc = "copy" /\ th'[t].key = th[t].key /\ th'[t].n = th[t].n
      /\ \E k \in th[t].todo :
           /\ th'[t].todo = th[t].todo \ {k}
           /\ \/ /\ p[read.m[k]] \in {None, Expunged}
                 /\ p' = [p EXCEPT ![read.m[k]] = Expunged] /\ UNCHANGED dirty
              \/ /\ p[read.m[k]] \notin {None, Expunged} /\ UNCHANGED p
                 /\ dirty' = [dirty EXCEPT !.m[k] = read.m[k]]
  BY <1>2, <1>4, CopyEntryDoes
<1>6. PICK k \in th[t].todo :
        /\ th'[t].todo = th[t].todo \ {k}
        /\ \/ /\ p[read.m[k]] \in {None, Expunged}
              /\ p' = [p EXCEPT ![read.m[k]] = Expunged] /\ UNCHANGED dirty
           \/ /\ p[read.m[k]] \notin {None, Expunged} /\ UNCHANGED p
              /\ dirty' = [dirty EXCEPT !.m[k] = read.m[k]]
  BY <1>5
<1> DEFINE e == read.m[k]
<1>7. k \in Keys /\ e \in Entries /\ p[e] # Expunged /\ dirty.m[k] = None /\ k # th[t].key /\ e # None
  BY <1>3, <1>4
<1>8. LockInv'
  BY <1>1, <1>2, <1>5, LockStep DEF LockPCs
<1>9. \A x \in Keys : Copying(x)' <=> x \in th[t].todo \ {k}
  BY <1>3, <1>5, <1>6 DEF Copying, Others, LockPCs
<1>10. \A x \in Keys : /\ read.m[x] \in Entries \cup {None}
                       /\ dirty.m[x] \in Entries \cup {None}
                       /\ x # k => read.m[x] # e /\ dirty.m[x] # e
  <2>1. PICK own \in [Entries -> Keys \cup {None}] : OwnedBy(own)
    BY <1>2 DEF OwnInv
  <2>2. /\ \A x \in Keys : read.m[x] # None => own[read.m[x]] = x
        /\ \A x \in Keys : dirty.m[x] # None => own[dirty.m[x]] = x
    BY <2>1 DEF OwnedBy
  <2> QED
    BY <1>2, <1>7, <2>2, CoreParts DEF Maps
<1>11. ~Deletes(t)'
  BY <1>5 DEF Deletes
<1>12. ASSUME NEW u \in Threads \ {t}, th[u].pc \in {"fast", "entry"}, dirty.m[th[u].key] # th[u].e,
              dirty'.m[k] = e, \A x \in Keys \ {k} : dirty'.m[x] = dirty.m[x]
       PROVE  dirty'.m[th[u].key] # th[u].e \/ read'.m[th[u].key] = th[u].e
  BY <1>1, <1>2, <1>7, <1>12, Fields DEF KeyPCs
<1>13. CASE p' = [p EXCEPT ![e] = Expunged] /\ UNCHANGED dirty
  <2>1. p'[e] = Expunged /\ \A x \in Entries \ {e} : p'[x] = p[x]
    BY <1>2, <1>7, <1>13, CoreParts
  <2>2. OwnInv'
    BY <1>1, <1>2, <1>5, <1>13, OwnKeeps DEF EntryPCs, KeyPCs
  <2>3. DirtyInv'
    <3>1. \A u \in Threads : DirtyAt(u)'
      BY <1>1, <1>3, <1>5, <1>13 DEF DirtyAt, Others, LockPCs
    <3> QED
      BY <1>1, <1>2, <1>13, <3>1 DEF DirtyInv
  <2>4. EntryInv'
    BY <1>1, <1>2, <1>3, <1>7, <1>9, <1>10, <1>13, <2>1 DEF EntryInv
  <2>5. FoundInv'
    <3>1. FoundAt(t)'
      BY <1>1, <1>3, <1>5, <1>13 DEF FoundAt
    <3>2. \A u \in Threads \ {t} : th[u].pc \in {"fast", "entry"} =>
             (p[th[u].e] = Expunged => p'[th[u].e] = Expunged)
      BY <1>2, <2>1, Fields DEF EntryPCs
    <3> QED
      BY <1>1, <1>2, <1>3, <1>5, <1>11, <1>13, <3>1, <3>2, OthersFound
  <2> QED
    BY <1>5, <1>8, <2>2, <2>3, <2>4, <2>5 DEF MapInv
<1>14. CASE p[e] \notin {None, Expunged} /\ UNCHANGED p /\ dirty' = [dirty EXCEPT !.m[k] = e]
  <2>1. dirty'.nil = dirty.nil /\ dirty'.m[k] = e /\ \A x \in Keys \ {k} : dirty'.m[x] = dirty.m[x]
    BY <1>2, <1>7, <1>14, CoreParts DEF Maps, TablesOK
  <2>2. OwnInv'
    <3>1. \A x \in Keys : dirty'.m[x] \in {None, read.m[x], dirty.m[x]}
      BY <2>1
    <3> QED
      BY <1>1, <1>2, <1>5, <3>1, OwnKeeps DEF EntryPCs, KeyPCs
  <2>3. DirtyInv'
    <3>1. \A u \in Threads : DirtyAt(u)'
      BY <1>1, <1>3, <1>5, <2>1 DEF DirtyAt, Others, LockPCs
    <3> QED
      BY <1>1, <1>2, <1>3, <1>7, <2>1, <3>1 DEF DirtyInv
  <2>4. EntryInv'
    BY <1>1, <1>2, <1>3, <1>7, <1>9, <1>10, <1>14, <2>1 DEF EntryInv
  <2>5. FoundInv'
    <3>1. FoundAt(t)'
      BY <1>1, <1>3, <1>5, <1>7, <2>1 DEF FoundAt
    <3> QED
      BY <1>1, <1>2, <1>3, <1>5, <1>11, <1>12, <1>14, <2>1, <3>1, OthersFound
  <2> QED
    BY <1>5, <1>8, <2>2, <2>3, <2>4, <2>5 DEF MapInv
<1> QED
  BY <1>6, <1>13, <1>14

(* What an insertion finds: no entry for the key, and nothing to copy.     *)
LEMMA InsertFacts ==
    ASSUME MapInv, NEW t \in Threads, Insert(t)
    PROVE  /\ th[t].key \in Keys /\ th[t].n \in Entries /\ th[t].pc \in {"insert", "copy"}
           /\ read.m[th[t].key] = None /\ dirty.m[th[t].key] = None /\ ~dirty.nil
           /\ mu = t /\ \A u \in Threads \ {t} : th[u].pc \notin LockPCs
           /\ \A x \in Keys : /\ ~Copying(x)
                              /\ read.m[x] # th[t].n /\ dirty.m[x] # th[t].n
           /\ \A u \in Threads : th[u].pc \in EntryPCs => th[u].e # th[t].n
<1>1. CoreOK /\ LockInv /\ OwnInv /\ DirtyInv /\ EntryInv /\ FoundInv
  BY DEF MapInv
<1>2. th[t].pc \in {"insert", "copy"} /\ (th[t].pc = "copy" => th[t].todo = {})
  BY DEF Insert
<1>3. th[t].key \in Keys /\ th[t].n \in Entries
  BY <1>1, <1>2, Fields, Names DEF KeyPCs
<1>4. read.m[th[t].key] = None /\ dirty.m[th[t].key] = None /\ ~dirty.nil
  BY <1>1, <1>2 DEF FoundInv, FoundAt, DirtyInv, DirtyAt
<1>5. mu = t /\ \A u \in Threads \ {t} : th[u].pc \notin LockPCs
  BY <1>1, <1>2, LockHeld DEF LockPCs
<1>6. \A x \in Keys : ~Copying(x)
  BY <1>2, <1>5 DEF Copying, LockPCs
<1>7. th[t].pc \in KeyPCs
  BY <1>2 DEF KeyPCs
<1> QED
  BY <1>1, <1>2, <1>3, <1>4, <1>5, <1>6, <1>7, OwnFacts

LEMMA InsertMap ==
    ASSUME MapInv, NEW t \in Threads, Insert(t)
    PROVE  MapInv'
<1> DEFINE k == th[t].key
           n == th[t].n
<1>1. mu' = Free /\ UNCHANGED <<misses, calls>>
  BY DEF Insert
<1>2. CoreOK /\ DirtyInv /\ LockInv /\ OwnInv /\ EntryInv /\ FoundInv
  BY DEF MapInv
<1>3. /\ k \in Keys /\ n \in Entries /\ th[t].pc \in {"insert", "copy"}
      /\ read.m[k] = None /\ dirty.m[k] = None /\ ~dirty.nil
      /\ mu = t /\ \A u \in Threads \ {t} : th[u].pc \notin LockPCs
      /\ \A x \in Keys : /\ ~Copying(x)
                         /\ read.m[x] # n /\ dirty.m[x] # n
      /\ \A u \in Threads : th[u].pc \in EntryPCs => th[u].e # n
  BY InsertFacts
<1>4. /\ CoreOK' /\ Ended(t, n)
      /\ p' = [p EXCEPT ![n] = n]
      /\ read' = [read EXCEPT !.amended = TRUE]
      /\ dirty' = [dirty EXCEPT !.m[k] = n]
  BY <1>2, InsertDoes
<1>5. Others(t) /\ th'[t].pc = "return"
  BY <1>4 DEF Ended, Moved
<1>6. /\ read'.m = read.m /\ read'.amended = TRUE
      /\ dirty'.nil = dirty.nil /\ dirty'.m[k] = n /\ \A x \in Keys \ {k} : dirty'.m[x] = dirty.m[x]
      /\ p'[n] = n /\ \A x \in Entries \ {n} : p'[x] = p[x]
  BY <1>2, <1>3, <1>4, CoreParts DEF Maps, TablesOK
<1>7. LockInv'
  BY <1>1, <1>2, <1>3, <1>5, LockStep DEF LockPCs
<1>8. OwnInv'
  <2>1. PICK own \in [Entries -> Keys \cup {None}] : OwnedBy(own)
    BY <1>2 DEF OwnInv
  <2>2. /\ \A x \in Keys : read.m[x] # None => own[read.m[x]] = x
        /\ \A x \in Keys : dirty.m[x] # None => own[dirty.m[x]] = x
        /\ \A u \in Threads : th[u].pc \in EntryPCs => own[th[u].e] = th[u].key
        /\ \A u \in Threads : th[u].pc \in KeyPCs => th[u].n <= calls /\ own[th[u].n] = None
        /\ \A u, w \in Threads : th[u].pc \in KeyPCs /\ th[w].pc \in KeyPCs /\ u # w => th[u].n # th[w].n
        /\ \A e \in Entries : e > calls => own[e] = None
    BY <2>1 DEF OwnedBy
  <2>3. PICK own2 \in [Entries -> Keys \cup {None}] :
           own2[n] = k /\ \A x \in Entries \ {n} : own2[x] = own[x]
    <3>1. [own EXCEPT ![n] = k] \in [Entries -> Keys \cup {None}]
      BY <1>3
    <3> QED
      BY <1>3, <3>1
  <2>4. \A x \in Keys : read.m[x] \in Entries \cup {None} /\ dirty.m[x] \in Entries \cup {None}
    BY <1>2, CoreParts DEF Maps
  <2>5. th[t].pc \in KeyPCs
    BY <1>3 DEF KeyPCs
  <2>6. \A u \in Threads : th'[u].pc \in KeyPCs => u # t /\ th'[u] = th[u] /\ th[u].n \in Entries
    BY <1>2, <1>5, Fields, Names DEF Others, KeyPCs
  <2>7. \A u \in Threads : th'[u].pc \in EntryPCs => u # t /\ th'[u] = th[u] /\ th[u].e \in Entries
    BY <1>2, <1>5, Fields DEF Others, EntryPCs
  <2>8. \A x \in Keys : dirty'.m[x] # None => own2[dirty'.m[x]] = x
    BY <1>3, <1>6, <2>2, <2>3, <2>4
  <2>9. \A x \in Keys : read'.m[x] # None => own2[read'.m[x]] = x
    BY <1>3, <1>6, <2>2, <2>3, <2>4
  <2>10. \A u \in Threads : th'[u].pc \in EntryPCs => own2[th'[u].e] = th'[u].key
    BY <1>3, <2>2, <2>3, <2>7
  <2>11. /\ \A u \in Threads : th'[u].pc \in KeyPCs => th'[u].n <= calls' /\ own2[th'[u].n] = None
         /\ \A u, w \in Threads : th'[u].pc \in KeyPCs /\ th'[w].pc \in KeyPCs /\ u # w
                                     => th'[u].n # th'[w].n
    BY <1>1, <2>2, <2>3, <2>5, <2>6
  <2>12. \A e \in Entries : e > calls' => own2[e] = None
    <3>1. ~(n > calls)
      BY <1>2, <1>3, <2>2, <2>5, MapAssumption DEF CoreOK, Entries, Calls
    <3> QED
      BY <1>1, <2>2, <2>3, <3>1
  <2>13. OwnedBy(own2)'
    BY <2>8, <2>9, <2>10, <2>11, <2>12 DEF OwnedBy
  <2> QED
    BY <2>3, <2>13 DEF OwnInv
<1>9. DirtyInv'
  <2>1. \A u \in Threads : DirtyAt(u)'
    BY <1>3, <1>5 DEF DirtyAt, Others, LockPCs
  <2> QED
    BY <1>3, <1>6, <2>1 DEF DirtyInv
<1>10. EntryInv'
  <2>1. \A x \in Keys : ~Copying(x)'
    BY <1>3, <1>5 DEF Copying, Others, LockPCs
  <2>2. \A x \in Keys : read.m[x] \in Entries \cup {None} /\ dirty.m[x] \in Entries \cup {None}
    BY <1>2, CoreParts DEF Maps
  <2>3. n # Expunged /\ n # None
    BY <1>3, Names
  <2> QED
    BY <1>2, <1>3, <1>6, <2>1, <2>2, <2>3 DEF EntryInv
<1>11. FoundInv'
  <2>1. FoundAt(t)' /\ ~Deletes(t)'
    BY <1>5 DEF FoundAt, Deletes
  <2>2. ASSUME NEW u \in Threads \ {t}, th[u].pc \in {"fast", "entry"}
        PROVE  /\ p'[th[u].e] = p[th[u].e]
               /\ dirty.m[th[u].key] # th[u].e => dirty'.m[th[u].key] # th[u].e
    <3>1. th[u].pc \in EntryPCs /\ th[u].e \in Entries /\ th[u].key \in Keys
      BY <1>2, <2>2, Fields DEF EntryPCs, KeyPCs
    <3> QED
      BY <1>3, <1>6, <3>1
  <2> QED
    BY <1>2, <1>3, <1>5, <1>6, <2>1, <2>2, OthersFound
<1> QED
  BY <1>4, <1>7, <1>8, <1>9, <1>10, <1>11 DEF MapInv

LEMMA InitMap == Init => MapInv
<1> SUFFICES ASSUME Init PROVE MapInv
  OBVIOUS
<1>1. \A k \in Keys : read.m[k] = None /\ dirty.m[k] = None
  BY EmptyMap DEF Init, NoDirty
<1>2. Idle \in ThreadStates /\ ThreadOK(Idle)
  BY EmptyMap DEF Idle, ThreadStates, Values, KeyOps, ThreadOK, KeyPCs, EntryPCs, LockPCs, RangePCs
<1>3. \A t \in Threads : th[t] = Idle /\ th[t].pc = "idle"
  BY DEF Init, Idle
<1>4. CoreOK
  <2>1. NoDirty \in [nil : BOOLEAN, m : Maps]
    BY EmptyMap DEF NoDirty
  <2>2. None \in Values
    BY DEF Values
  <2> QED
    BY <1>2, <1>3, <2>1, <2>2, EmptyMap, MapAssumption DEF Init, CoreOK
<1>5. LockInv
  BY <1>3, Names DEF Init, LockInv, LockPCs
<1>6. OwnInv
  <2> DEFINE own == [e \in Entries |-> None]
  <2>1. own \in [Entries -> Keys \cup {None}]
    OBVIOUS
  <2>2. OwnedBy(own)
    BY <1>1, <1>3 DEF OwnedBy, EntryPCs, KeyPCs
  <2> QED
    BY <2>1, <2>2 DEF OwnInv
<1>7. DirtyInv
  BY <1>1, <1>3 DEF Init, DirtyInv, DirtyAt, NoDirty
<1>8. EntryInv
  BY <1>1, <1>3 DEF EntryInv, Copying
<1>9. FoundInv
  BY <1>3 DEF FoundInv, FoundAt, Deletes
<1> QED
  BY <1>4, <1>5, <1>6, <1>7, <1>8, <1>9 DEF MapInv

LEMMA StepMap ==
    ASSUME MapInv, NEW t \in Threads, Call(t) \/ Work(t)
    PROVE  MapInv'
  BY CallMap, ReadFastMap, EntryStepsMap, LookLockedMap, FindLockedMap, UnexpungeMap, StoreLockedMap,
     FindNothingLockedMap, CopyEntryMap, InsertMap, RangeStepsMap, PromoteMap DEF Work

-----------------------------------------------------------------------------
(* What the steps do to the entries of the keys and to their values.       *)

Linked(k) == EntryOf(k) # None

(* The entry of k, and the value of e, after the step.                     *)
EntryThen(k) == IF read'.m[k] # None THEN read'.m[k] ELSE dirty'.m[k]
ValueThen(e) == IF p'[e] = Expunged THEN None ELSE p'[e]

Kept(k) == \/ EntryThen(k) = EntryOf(k)
           \/ EntryThen(k) = None /\ Linked(k) /\ p[EntryOf(k)] = Expunged
Same(e) == ValueThen(e) = ValueOf(e)

(* Nothing; ...                                                            *)
Still == (\A k \in Keys : Kept(k)) /\ (\A e \in Entries : Same(e))

(* ... the entry e of the key k gets a value, or is deleted; ...           *)
Written(k, e, v) ==
    /\ EntryOf(k) = e /\ EntryThen(k) = e
    /\ \A x \in Keys : Kept(x)
    /\ ValueThen(e) = v
    /\ \A x \in Entries \ {e} : Same(x)

(* ... an entry that was taken out is deleted; ...                         *)
Erased(k, e) ==
    /\ EntryOf(k) # e
    /\ \A x \in Keys : Kept(x)
    /\ ValueThen(e) = None
    /\ \A x \in Entries \ {e} : Same(x)

(* ... the entry of the key is taken out; ...                              *)
Taken(k) ==
    /\ read.m[k] = None /\ EntryThen(k) = None
    /\ \A x \in Keys \ {k} : Kept(x)
    /\ \A x \in Entries : Same(x)

(* ... the key gets the entry n, of the value n.                           *)
Inserted(k, n) ==
    /\ EntryOf(k) = None /\ EntryThen(k) = n
    /\ \A x \in Keys \ {k} : Kept(x)
    /\ ValueThen(n) = n
    /\ \A x \in Entries \ {n} : Same(x)

LEMMA Then == /\ \A k \in Keys : EntryOf(k)' = EntryThen(k)
              /\ \A e \in Entries : ValueOf(e)' = ValueThen(e)
  BY DEF EntryOf, EntryThen, ValueOf, ValueThen

LEMMA ValueIs ==
    ASSUME CoreOK
    PROVE  \A k \in Keys : Contents[k] = IF Linked(k) THEN ValueOf(EntryOf(k)) ELSE None
  BY DEF Contents, Value, ValueOf, Linked

LEMMA SameMaps ==
    ASSUME UNCHANGED <<read, dirty, p>>
    PROVE  Still
  BY DEF Still, Kept, Same, EntryOf, ValueOf, EntryThen, ValueThen

LEMMA PointerKeeps ==
    ASSUME CoreOK, NEW e \in Entries, NEW v, p' = [p EXCEPT ![e] = v]
    PROVE  /\ ValueThen(e) = IF v = Expunged THEN None ELSE v
           /\ \A f \in Entries \ {e} : Same(f)
  BY CoreParts DEF ValueOf, ValueThen, Same

(* Of a key that keeps its entry in d.                                     *)
LEMMA MissKeeps ==
    ASSUME MapInv, NEW d, LeftOf(d), Missed(d) \/ Promoted(d), read.amended,
           \A u \in Threads : th[u].pc # "copy"
    PROVE  \A k \in Keys : d.m[k] = dirty.m[k] =>
             /\ Kept(k)
             /\ Linked(k) /\ p[EntryOf(k)] # Expunged => EntryThen(k) = EntryOf(k)
<1> SUFFICES ASSUME NEW k \in Keys, d.m[k] = dirty.m[k]
             PROVE  \/ EntryThen(k) = EntryOf(k)
                    \/ EntryThen(k) = None /\ EntryOf(k) # None /\ p[EntryOf(k)] = Expunged
  BY DEF Kept, Linked
<1>1. CoreOK /\ DirtyInv /\ EntryInv
  BY DEF MapInv
<1>2. ~Copying(k) /\ ~dirty.nil
  BY <1>1 DEF Copying, DirtyInv
<1>3. read.m[k] # None => \/ p[read.m[k]] = Expunged /\ dirty.m[k] = None
                          \/ dirty.m[k] = read.m[k]
  BY <1>1, <1>2 DEF EntryInv
<1>4. CASE Missed(d)
  BY <1>4 DEF Missed, EntryOf, EntryThen
<1>5. CASE Promoted(d)
  <2>1. read'.m[k] = dirty.m[k] /\ dirty'.m[k] = None
    BY <1>5, EmptyMap DEF Promoted, NoDirty
  <2> QED
    BY <1>3, <2>1 DEF EntryOf, EntryThen
<1> QED
  BY <1>4, <1>5

LEMMA LookLockedEffect ==
    ASSUME MapInv, NEW t \in Threads, LookLocked(t)
    PROVE  /\ Still \/ (th[t].op = "LoadAndDelete" /\ Taken(th[t].key))
           /\ th'[t].op = th[t].op /\ th'[t].key = th[t].key /\ th'[t].n = th[t].n /\ Others(t)
           /\ \/ Linked(th[t].key) /\ th'[t].pc = "entry" /\ th'[t].e = EntryOf(th[t].key)
              \/ ~Linked(th[t].key) /\ Ended(t, None) /\ Still
<1> DEFINE k == th[t].key
<1>1. /\ CoreOK /\ LockInv /\ th[t].pc = "lock" /\ mu = Free /\ UNCHANGED <<mu, p, calls>>
      /\ th[t].op \in {"Load", "LoadAndDelete"} /\ k \in Keys
  BY Fields DEF LookLocked, MapInv, KeyPCs
<1>2. /\ \/ EntryOf(k) # None /\ Found(t, "entry", EntryOf(k))
         \/ EntryOf(k) = None /\ Ended(t, None)
      /\ \/ read.m[k] = None /\ read.amended /\ (Missed(Looked(t)) \/ Promoted(Looked(t)))
         \/ ~(read.m[k] = None /\ read.amended) /\ UNCHANGED <<read, dirty>>
  BY <1>1, LookLockedDoes
<1>3. \A e \in Entries : Same(e)
  BY <1>1 DEF Same, ValueOf, ValueThen
<1>4. Still \/ (th[t].op = "LoadAndDelete" /\ Taken(k))
  <2>1. CASE UNCHANGED <<read, dirty>>
    BY <1>1, <2>1, SameMaps
  <2>2. CASE read.m[k] = None /\ read.amended /\ (Missed(Looked(t)) \/ Promoted(Looked(t)))
    <3>1. LeftOf(Looked(t)) /\ \A u \in Threads : th[u].pc # "copy"
      BY <1>1, <2>2, LeftOK, NotCopying
    <3>2. \A x \in Keys : Looked(t).m[x] = dirty.m[x] => Kept(x)
      BY <2>2, <3>1, MissKeeps
    <3>3. CASE th[t].op = "Load"
      <4>1. Looked(t) = dirty
        BY <3>3 DEF Looked
      <4> QED
        BY <1>3, <3>2, <4>1 DEF Still
    <3>4. CASE th[t].op = "LoadAndDelete"
      <4>1. \A x \in Keys : Looked(t).m[x] = IF x = k THEN None ELSE dirty.m[x]
        BY <1>1, <3>4, CoreParts DEF Looked, Maps, TablesOK
      <4>2. EntryThen(k) = None
        BY <1>1, <2>2, <4>1, EmptyMap DEF EntryThen, Missed, Promoted, NoDirty
      <4> QED
        BY <1>3, <2>2, <3>2, <3>4, <4>1, <4>2 DEF Taken
    <3> QED
      BY <1>1, <3>3, <3>4
  <2> QED
    BY <1>2, <2>1, <2>2
<1>5. Taken(k) /\ EntryOf(k) = None => Still
  BY <1>1 DEF Taken, Still, Kept
<1> QED
  BY <1>2, <1>4, <1>5 DEF Found, Linked, Ended, Moved, SameCall

LEMMA PromoteEffect ==
    ASSUME MapInv, NEW t \in Threads, Promote(t)
    PROVE  /\ Still
           /\ th'[t].op = th[t].op /\ th'[t].key = th[t].key /\ th'[t].pc = "walk" /\ Others(t)
           /\ \A k \in Keys : Contents[k] # None => k \in th'[t].todo /\ th'[t].m[k] = EntryThen(k)
<1>1. /\ CoreOK /\ DirtyInv /\ LockInv /\ EntryInv /\ th[t].pc = "promote" /\ mu = Free
      /\ UNCHANGED <<mu, p, calls>>
  BY DEF Promote, MapInv
<1>2. /\ CoreOK'
      /\ \/ read.amended /\ Promoted(dirty) /\ WalkOf(t, dirty.m)
         \/ ~read.amended /\ UNCHANGED <<read, dirty>> /\ WalkOf(t, read.m)
  BY <1>1, PromoteDoes
<1>3. Still
  <2>1. CASE UNCHANGED <<read, dirty>>
    BY <1>1, <2>1, SameMaps
  <2>2. CASE read.amended /\ Promoted(dirty)
    <3>1. LeftOf(dirty) /\ \A u \in Threads : th[u].pc # "copy"
      BY <1>1, CoreParts, NotCopying DEF LeftOf, TablesOK
    <3>2. \A x \in Keys : Kept(x)
      BY <2>2, <3>1, MissKeeps
    <3> QED
      BY <1>1, <3>2 DEF Still, Same, ValueOf, ValueThen
  <2> QED
    BY <1>2, <2>1, <2>2
<1>4. WalkOf(t, read'.m) /\ \A k \in Keys : EntryThen(k) = read'.m[k]
  <2>1. CASE UNCHANGED <<read, dirty>> /\ ~read.amended /\ WalkOf(t, read.m)
    BY <1>1, <2>1 DEF DirtyInv, EntryOf, EntryThen
  <2>2. CASE read.amended /\ Promoted(dirty) /\ WalkOf(t, dirty.m)
    BY <1>1, <2>2, EmptyMap DEF Promoted, NoDirty, EntryThen
  <2> QED
    BY <1>2, <2>1, <2>2
<1>5. ASSUME NEW k \in Keys, Contents[k] # None PROVE EntryThen(k) # None
  <2>1. Linked(k) /\ p[EntryOf(k)] # Expunged
    BY <1>1, <1>5, ValueIs DEF ValueOf
  <2> QED
    BY <1>3, <2>1 DEF Still, Kept, Linked
<1> QED
  BY <1>3, <1>4, <1>5 DEF WalkOf, KeysOf

(* A value for a linked entry that is not expunged.                        *)
LEMMA WriteIs ==
    ASSUME CoreOK, NEW k \in Keys, NEW e \in Entries, NEW v \in Values,
           EntryOf(k) = e, p[e] # Expunged, p' = [p EXCEPT ![e] = v],
           \A x \in Keys : Kept(x)
    PROVE  Written(k, e, v)
<1>1. v # Expunged /\ e # None
  BY Names DEF Values
<1>2. EntryThen(k) = e
  BY <1>1 DEF Kept
<1> QED
  BY <1>1, <1>2, PointerKeeps DEF Written

LEMMA KeptMaps ==
    ASSUME UNCHANGED <<read, dirty>>
    PROVE  \A x \in Keys : Kept(x)
  BY DEF Kept, EntryOf, EntryThen

LEMMA FastFinds ==
    ASSUME MapInv, NEW t \in Threads, th[t].pc = "fast"
    PROVE  /\ th[t].key \in Keys /\ th[t].e \in Entries /\ th[t].n \in Calls
           /\ p[th[t].e] # Expunged => EntryOf(th[t].key) = th[t].e
<1>1. th[t].key \in Keys /\ th[t].e \in Entries /\ th[t].n \in Calls
  BY Fields DEF MapInv, KeyPCs, EntryPCs
<1> QED
  BY <1>1, Names DEF MapInv, FoundInv, FoundAt, EntryOf

LEMMA TryStoreEffect ==
    ASSUME MapInv, NEW t \in Threads, TryStore(t)
    PROVE  \/ Still /\ Moved(t, "lock")
           \/ Written(th[t].key, th[t].e, th[t].n) /\ Ended(t, th[t].n)
<1>1. th[t].pc = "fast" /\ UNCHANGED <<read, dirty, misses, mu, calls>> /\ th[t].op = "Store"
  BY DEF TryStore
<1>2. CoreOK /\ th[t].n \in Values
  BY <1>1, FastFinds DEF MapInv, Values
<1>3. CASE p[th[t].e] = Expunged
  BY <1>1, <1>2, <1>3, TryStoreDoes, SameMaps
<1>4. CASE p[th[t].e] # Expunged
  BY <1>1, <1>2, <1>4, TryStoreDoes, FastFinds, KeptMaps, WriteIs
<1> QED
  BY <1>3, <1>4

LEMMA TryLoadOrStoreEffect ==
    ASSUME MapInv, NEW t \in Threads, TryLoadOrStore(t)
    PROVE  \/ Still /\ Moved(t, "lock")
           \/ /\ Contents[th[t].key] = None
              /\ Written(th[t].key, th[t].e, th[t].n) /\ Ended(t, th[t].n)
           \/ Still /\ ValueOf(th[t].e) # None /\ Ended(t, ValueOf(th[t].e))
<1> DEFINE k == th[t].key
           e == th[t].e
<1>1. th[t].pc = "fast" /\ UNCHANGED <<read, dirty, misses, mu, calls>>
  BY DEF TryLoadOrStore
<1>2. /\ CoreOK /\ th[t].n \in Values /\ k \in Keys /\ e \in Entries
      /\ p[e] # Expunged => EntryOf(k) = e
  BY <1>1, FastFinds DEF MapInv, Values
<1>3. CASE p[e] = Expunged
  BY <1>1, <1>2, <1>3, TryLoadOrStoreDoes, SameMaps, Names
<1>4. CASE p[e] = None
  <2>1. p' = [p EXCEPT ![e] = th[t].n] /\ Ended(t, th[t].n) /\ p[e] # Expunged
    BY <1>2, <1>4, TryLoadOrStoreDoes, Names
  <2>2. Written(k, e, th[t].n)
    BY <1>1, <1>2, <2>1, KeptMaps, WriteIs
  <2>3. Contents[k] = None
    BY <1>2, <1>4, <2>1, ValueIs, Names DEF ValueOf, Linked
  <2> QED
    BY <2>1, <2>2, <2>3
<1>5. CASE p[e] \notin {None, Expunged}
  <2>1. p' = p /\ Ended(t, p[e]) /\ ValueOf(e) = p[e]
    BY <1>2, <1>5, TryLoadOrStoreDoes DEF ValueOf
  <2> QED
    BY <1>1, <1>5, <2>1, SameMaps
<1> QED
  BY <1>3, <1>4, <1>5

LEMMA DeleteEntryEffect ==
    ASSUME MapInv, NEW t \in Threads, DeleteEntry(t)
    PROVE  /\ Ended(t, ValueOf(th[t].e))
           /\ \/ Still /\ ValueOf(th[t].e) = None
              \/ /\ ValueOf(th[t].e) # None
                 /\ \/ Written(th[t].key, th[t].e, None)
                    \/ Erased(th[t].key, th[t].e) /\ Deletes(t)
<1> DEFINE k == th[t].key
           e == th[t].e
<1>1. /\ th[t].pc \in {"fast", "entry"} /\ UNCHANGED <<read, dirty, misses, mu, calls>>
      /\ th[t].op = "LoadAndDelete"
  BY DEF DeleteEntry
<1>2. CoreOK /\ None \in Values /\ k \in Keys /\ e \in Entries
  BY <1>1, Fields DEF MapInv, Values, KeyPCs, EntryPCs
<1>3. /\ Ended(t, ValueOf(e))
      /\ ValueOf(e) = None => p' = p
      /\ ValueOf(e) # None => p' = [p EXCEPT ![e] = None]
  BY <1>2, DeleteEntryDoes
<1>4. CASE ValueOf(e) = None
  BY <1>1, <1>3, <1>4, SameMaps
<1>5. CASE ValueOf(e) # None
  <2>1. p[e] # Expunged /\ p' = [p EXCEPT ![e] = None]
    BY <1>3, <1>5 DEF ValueOf
  <2>2. CASE EntryOf(k) = e
    BY <1>1, <1>2, <1>3, <1>5, <2>1, <2>2, KeptMaps, WriteIs
  <2>3. CASE EntryOf(k) # e
    <3>1. th[t].pc = "entry"
      BY <1>1, <2>1, <2>3, FastFinds
    <3>2. ValueThen(e) = None /\ \A x \in Entries \ {e} : Same(x)
      BY <1>2, <2>1, PointerKeeps, Names
    <3> QED
      BY <1>1, <1>3, <1>5, <2>3, <3>1, <3>2, KeptMaps DEF Erased, Deletes
  <2> QED
    BY <2>2, <2>3
<1> QED
  BY <1>4, <1>5

LEMMA StoreLockedEffect ==
    ASSUME MapInv, NEW t \in Threads, StoreLocked(t)
    PROVE  /\ EntryOf(th[t].key) = th[t].e
           /\ \/ /\ th[t].op = "Store" \/ (th[t].op = "LoadOrStore" /\ Contents[th[t].key] = None)
                 /\ Written(th[t].key, th[t].e, th[t].n) /\ Ended(t, th[t].n)
              \/ /\ th[t].op = "LoadOrStore" /\ Contents[th[t].key] # None
                 /\ Still /\ Ended(t, Contents[th[t].key])
<1> DEFINE k == th[t].key
           e == th[t].e
<1>1. /\ th[t].pc = "store" /\ CoreOK /\ k \in Keys /\ e \in Entries /\ th[t].n \in Values
      /\ th[t].op \in {"Store", "LoadOrStore"}
  BY Fields DEF StoreLocked, MapInv, KeyPCs, EntryPCs, Values, ThreadOK, LockPCs
<1>2. EntryOf(k) = e /\ p[e] # Expunged /\ e # None
  BY <1>1, Names DEF MapInv, FoundInv, FoundAt
<1>3. Contents[k] = p[e]
  BY <1>1, <1>2, ValueIs DEF ValueOf, Linked
<1>4. /\ \/ /\ th[t].op = "Store" \/ p[e] = None
            /\ p' = [p EXCEPT ![e] = th[t].n] /\ Ended(t, th[t].n)
         \/ /\ th[t].op = "LoadOrStore" /\ p[e] # None
            /\ p' = p /\ Ended(t, p[e])
      /\ \/ UNCHANGED <<read, dirty>>
         \/ read.m[k] = None /\ Promoted(dirty)
  BY <1>1, <1>2, StoreLockedDoes
<1>5. \A x \in Keys : Kept(x)
  <2>1. CASE UNCHANGED <<read, dirty>>
    BY <2>1, KeptMaps
  <2>2. CASE read.m[k] = None /\ Promoted(dirty)
    <3>1. DirtyInv /\ LockInv /\ mu = t
      BY <1>1 DEF MapInv, LockInv, LockPCs
    <3>2. read.amended
      BY <1>1, <1>2, <2>2, <3>1 DEF DirtyInv, EntryOf
    <3>3. LeftOf(dirty) /\ \A u \in Threads : th[u].pc # "copy"
      BY <1>1, <3>1, CoreParts, NotCopying DEF LeftOf, TablesOK
    <3> QED
      BY <2>2, <3>2, <3>3, MissKeeps
  <2> QED
    BY <1>4, <2>1, <2>2
<1>6. CASE p' = [p EXCEPT ![e] = th[t].n]
  <2>1. Written(k, e, th[t].n)
    BY <1>1, <1>2, <1>5, <1>6, WriteIs
  <2>2. CASE th[t].op = "Store" \/ p[e] = None
    BY <1>1, <1>2, <1>3, <1>4, <2>1, <2>2
  <2>3. CASE ~(th[t].op = "Store" \/ p[e] = None)
    <3>1. p' = p
      BY <1>4, <2>3
    <3>2. Still
      BY <1>5, <3>1 DEF Still, Same, ValueOf, ValueThen
    <3> QED
      BY <1>1, <1>2, <1>3, <1>4, <2>3, <3>2
  <2> QED
    BY <2>2, <2>3
<1>7. CASE p' = p /\ th[t].op = "LoadOrStore" /\ p[e] # None /\ Ended(t, p[e])
  <2>1. Still
    BY <1>5, <1>7 DEF Still, Same, ValueOf, ValueThen
  <2> QED
    BY <1>2, <1>3, <1>7, <2>1
<1> QED
  BY <1>4, <1>6, <1>7

LEMMA UnexpungeEffect ==
    ASSUME MapInv, NEW t \in Threads, Unexpunge(t)
    PROVE  Still /\ Moved(t, "store")
<1> DEFINE k == th[t].key
           e == th[t].e
<1>1. /\ th[t].pc = "unexpunge" /\ CoreOK /\ k \in Keys /\ e \in Entries /\ e # None
      /\ read' = read
  BY Fields, Names DEF Unexpunge, MapInv, KeyPCs, EntryPCs
<1>2. read.m[k] = e
  BY <1>1 DEF MapInv, FoundInv, FoundAt
<1>3. /\ Moved(t, "store")
      /\ \/ p[e] = Expunged /\ p' = [p EXCEPT ![e] = None] /\ dirty' = [dirty EXCEPT !.m[k] = e]
         \/ UNCHANGED <<p, dirty>>
  BY <1>1, UnexpungeDoes
<1>4. CASE p[e] = Expunged /\ p' = [p EXCEPT ![e] = None] /\ dirty' = [dirty EXCEPT !.m[k] = e]
  <2>1. \A x \in Keys \ {k} : dirty'.m[x] = dirty.m[x]
    BY <1>1, <1>4, CoreParts DEF Maps, TablesOK
  <2>2. \A x \in Keys : EntryThen(x) = EntryOf(x)
    BY <1>1, <1>2, <2>1 DEF EntryThen, EntryOf
  <2>3. \A x \in Entries : Same(x)
    BY <1>1, <1>4, PointerKeeps, Names DEF Same, ValueOf
  <2> QED
    BY <1>3, <2>2, <2>3 DEF Still, Kept
<1>5. CASE UNCHANGED <<p, dirty>>
  BY <1>1, <1>3, <1>5, SameMaps
<1> QED
  BY <1>3, <1>4, <1>5

LEMMA FindNothingLockedEffect ==
    ASSUME MapInv, NEW t \in Threads, FindNothingLocked(t)
    PROVE  /\ Still /\ Others(t)
           /\ th'[t].op = th[t].op /\ th'[t].key = th[t].key /\ th'[t].n = th[t].n
           /\ th'[t].pc \in {"copy", "insert"}
<1>1. CoreOK /\ UNCHANGED <<read, p>>
  BY DEF FindNothingLocked, MapInv
<1>2. dirty'.m = dirty.m
  BY <1>1, FindNothingLockedDoes, CoreParts DEF TablesOK
<1> QED
  BY <1>1, <1>2, FindNothingLockedDoes DEF Still, Kept, Same, EntryOf, EntryThen, ValueOf, ValueThen

LEMMA CopyEntryEffect ==
    ASSUME MapInv, NEW t \in Threads, CopyEntry(t)
    PROVE  /\ Still /\ Others(t)
           /\ th'[t].op = th[t].op /\ th'[t].key = th[t].key /\ th'[t].n = th[t].n
           /\ th'[t].pc = "copy"
<1>1. CoreOK /\ th[t].pc = "copy" /\ UNCHANGED <<read, misses, mu, calls>>
  BY DEF CopyEntry, MapInv
<1>2. \A k \in th[t].todo : k \in Keys /\ read.m[k] \in Entries /\ read.m[k] # None
  BY <1>1, CopyFacts, Names
<1>3. /\ Others(t)
      /\ th'[t].pc = "copy" /\ th'[t].key = th[t].key /\ th'[t].op = th[t].op /\ th'[t].n = th[t].n
      /\ \E k \in th[t].todo :
           \/ /\ p[read.m[k]] \in {None, Expunged}
              /\ p' = [p EXCEPT ![read.m[k]] = Expunged] /\ UNCHANGED dirty
           \/ UNCHANGED p /\ dirty' = [dirty EXCEPT !.m[k] = read.m[k]]
  BY <1>1, <1>2, CopyEntryDoes
<1>4. PICK k \in th[t].todo :
        \/ /\ p[read.m[k]] \in {None, Expunged}
           /\ p' = [p EXCEPT ![read.m[k]] = Expunged] /\ UNCHANGED dirty
        \/ UNCHANGED p /\ dirty' = [dirty EXCEPT !.m[k] = read.m[k]]
  BY <1>3
<1>5. CASE p[read.m[k]] \in {None, Expunged} /\ p' = [p EXCEPT ![read.m[k]] = Expunged] /\ UNCHANGED dirty
  <2>1. \A x \in Entries : Same(x)
    BY <1>1, <1>2, <1>5, PointerKeeps DEF Same, ValueOf
  <2> QED
    BY <1>1, <1>3, <1>5, <2>1, KeptMaps DEF Still
<1>6. CASE UNCHANGED p /\ dirty' = [dirty EXCEPT !.m[k] = read.m[k]]
  <2>1. \A x \in Keys \ {k} : dirty'.m[x] = dirty.m[x]
    BY <1>1, <1>2, <1>6, CoreParts DEF Maps, TablesOK
  <2>2. \A x \in Keys : EntryThen(x) = EntryOf(x)
    BY <1>1, <1>2, <2>1 DEF EntryThen, EntryOf
  <2> QED
    BY <1>3, <1>6, <2>2 DEF Still, Kept, Same, ValueOf, ValueThen
<1> QED
  BY <1>4, <1>5, <1>6

LEMMA InsertEffect ==
    ASSUME MapInv, NEW t \in Threads, Insert(t)
    PROVE  Inserted(th[t].key, th[t].n) /\ Ended(t, th[t].n)
<1> DEFINE k == th[t].key
           n == th[t].n
<1>1. /\ CoreOK /\ k \in Keys /\ n \in Entries
      /\ read.m[k] = None /\ dirty.m[k] = None
  BY InsertFacts DEF MapInv
<1>2. /\ Ended(t, n)
      /\ p' = [p EXCEPT ![n] = n]
      /\ read' = [read EXCEPT !.amended = TRUE]
      /\ dirty' = [dirty EXCEPT !.m[k] = n]
  BY <1>1, InsertDoes
<1>3. read'.m = read.m /\ dirty'.m[k] = n /\ \A x \in Keys \ {k} : dirty'.m[x] = dirty.m[x]
  BY <1>1, <1>2, CoreParts DEF Maps, TablesOK
<1>4. EntryOf(k) = None /\ EntryThen(k) = n /\ \A x \in Keys \ {k} : Kept(x)
  BY <1>1, <1>3 DEF EntryOf, EntryThen, Kept
<1>5. ValueThen(n) = n /\ \A x \in Entries \ {n} : Same(x)
  BY <1>1, <1>2, PointerKeeps, Names
<1> QED
  BY <1>2, <1>4, <1>5 DEF Inserted

(* The steps of the threads are of one of these kinds.                     *)
Effect(t) ==
    LET k == th[t].key
        e == th[t].e
    IN  \/ Still
        \/ th[t].pc \in EntryPCs /\ \E v \in Values : Written(k, e, v)
        \/ Deletes(t) /\ Erased(k, e)
        \/ th[t].pc = "lock" /\ th[t].op = "LoadAndDelete" /\ Taken(k)
        \/ th[t].pc \in {"insert", "copy"} /\ Inserted(k, th[t].n)

(* An entry that a step finds is the one that its key has.                 *)
Finds(t) ==
    th'[t].pc \in {"fast", "entry"} =>
      /\ th[t].pc \in KeyPCs /\ th'[t].key = th[t].key /\ th'[t].e = EntryOf(th[t].key)
      /\ Linked(th[t].key)

LEMMA StepEffect ==
    ASSUME MapInv, NEW t \in Threads, Call(t) \/ Work(t)
    PROVE  Effect(t) /\ Finds(t) /\ Others(t)
<1>1. CoreOK
  BY DEF MapInv
<1>2. None \in Values /\ (th[t].pc \in KeyPCs => th[t].n \in Values)
  BY <1>1, Fields DEF Values
<1>3. CASE Call(t)
  <2>1. Others(t) /\ th'[t].pc \in {"range", "read"}
    BY <1>1, <1>3, CallDoes
  <2>2. Still
    BY <1>3, SameMaps DEF Call
  <2> QED
    BY <2>1, <2>2 DEF Effect, Finds
<1>4. CASE ReadFast(t)
  <2>1. Still /\ th[t].pc = "read" /\ th[t].pc \in KeyPCs
    BY <1>4, SameMaps DEF ReadFast, KeyPCs
  <2>2. \/ read.m[th[t].key] # None /\ Found(t, "fast", read.m[th[t].key])
        \/ Moved(t, "lock") \/ Moved(t, "return")
    BY <1>1, <1>4, ReadFastDoes DEF Ended
  <2>3. Others(t) /\ Finds(t)
    BY <2>1, <2>2 DEF Found, Moved, Finds, EntryOf, Linked
  <2> QED
    BY <2>1, <2>3 DEF Effect
<1>5. CASE LoadEntry(t)
  <2>1. Still
    BY <1>5, SameMaps DEF LoadEntry
  <2> QED
    BY <1>1, <1>5, <2>1, LoadEntryDoes DEF Effect, Finds, Ended, Moved
<1>6. CASE DeleteEntry(t)
  <2>1. th[t].pc \in EntryPCs
    BY <1>6 DEF DeleteEntry, EntryPCs
  <2> QED
    BY <1>2, <1>6, <2>1, DeleteEntryEffect DEF Effect, Finds, Ended, Moved
<1>7. CASE TryStore(t)
  <2>1. th[t].pc \in EntryPCs /\ th[t].pc \in KeyPCs
    BY <1>7 DEF TryStore, EntryPCs, KeyPCs
  <2> QED
    BY <1>2, <1>7, <2>1, TryStoreEffect DEF Effect, Finds, Ended, Moved
<1>8. CASE TryLoadOrStore(t)
  <2>1. th[t].pc \in EntryPCs /\ th[t].pc \in KeyPCs
    BY <1>8 DEF TryLoadOrStore, EntryPCs, KeyPCs
  <2> QED
    BY <1>2, <1>8, <2>1, TryLoadOrStoreEffect DEF Effect, Finds, Ended, Moved
<1>9. CASE LookLocked(t)
  <2>1. th[t].pc = "lock" /\ th[t].pc \in KeyPCs
    BY <1>9 DEF LookLocked, KeyPCs
  <2> QED
    BY <1>9, <2>1, LookLockedEffect DEF Effect, Finds, Ended, Moved
<1>10. CASE FindReadLocked(t) \/ FindDirtyLocked(t)
  <2>1. Still
    BY <1>10, SameMaps DEF FindReadLocked, FindDirtyLocked
  <2>2. Others(t) /\ th'[t].pc \in {"unexpunge", "store"}
    BY <1>1, <1>10, FindLockedDoes DEF Found
  <2> QED
    BY <2>1, <2>2 DEF Effect, Finds
<1>11. CASE Unexpunge(t)
  BY <1>11, UnexpungeEffect DEF Effect, Finds, Moved
<1>12. CASE StoreLocked(t)
  <2>1. th[t].pc \in EntryPCs /\ th[t].pc \in KeyPCs
    BY <1>12 DEF StoreLocked, EntryPCs, KeyPCs
  <2> QED
    BY <1>2, <1>12, <2>1, StoreLockedEffect DEF Effect, Finds, Ended, Moved
<1>13. CASE FindNothingLocked(t)
  BY <1>13, FindNothingLockedEffect DEF Effect, Finds
<1>14. CASE CopyEntry(t)
  BY <1>14, CopyEntryEffect DEF Effect, Finds
<1>15. CASE Insert(t)
  BY <1>15, InsertEffect, InsertFacts DEF Effect, Finds, Ended, Moved
<1>16. CASE StartRange(t) \/ WalkEntry(t) \/ FinishRange(t) \/ Return(t)
  <2>1. Still
    BY <1>16, SameMaps DEF StartRange, WalkEntry, FinishRange, Return
  <2>2. Others(t) /\ th'[t].pc \in {"walk", "promote", "return", "idle"}
    BY <1>1, <1>16, StartRangeDoes, WalkEntryDoes, FinishRangeDoes, ReturnDoes DEF Moved, WalkOf, Idle
  <2> QED
    BY <2>1, <2>2 DEF Effect, Finds
<1>17. CASE Promote(t)
  BY <1>17, PromoteEffect DEF Effect, Finds
<1> QED
  BY <1>3, <1>4, <1>5, <1>6, <1>7, <1>8, <1>9, <1>10, <1>11, <1>12, <1>13, <1>14, <1>15, <1>16, <1>17
     DEF Work

(* The value of k after the step.                                          *)
ContentThen(k) == IF EntryThen(k) # None THEN ValueThen(EntryThen(k)) ELSE None

LEMMA ThenIs ==
    ASSUME CoreOK'
    PROVE  \A k \in Keys : Contents'[k] = ContentThen(k)
  BY DEF Contents, Value, ContentThen, EntryOf, EntryThen, ValueThen

(* A key keeps its entry as long as it is present; and an entry that a     *)
(* call has found changes with its key, or is deleted when no key has it.  *)
LEMMA EffectOnKeys ==
    ASSUME MapInv, CoreOK', NEW t \in Threads, Effect(t)
    PROVE  \A k \in Keys :
             /\ EntryThen(k) = EntryOf(k) \/ EntryThen(k) = None \/ ~Linked(k)
             /\ Contents[k] # None /\ Contents'[k] # None => EntryThen(k) = EntryOf(k)
<1> SUFFICES ASSUME NEW k \in Keys
             PROVE  /\ EntryThen(k) = EntryOf(k) \/ EntryThen(k) = None \/ ~Linked(k)
                    /\ Contents[k] # None /\ Contents'[k] # None => EntryThen(k) = EntryOf(k)
  OBVIOUS
<1>1. CoreOK
  BY DEF MapInv
<1>2. Contents[k] # None => Linked(k) /\ p[EntryOf(k)] # Expunged
  BY <1>1, ValueIs DEF ValueOf
<1>3. Contents'[k] # None => EntryThen(k) # None
  BY ThenIs DEF ContentThen
<1>4. Kept(k) \/ EntryThen(k) = None \/ ~Linked(k)
  BY DEF Effect, Still, Written, Erased, Taken, Inserted, Linked
<1> QED
  BY <1>2, <1>3, <1>4 DEF Kept

LEMMA EffectOnFound ==
    ASSUME MapInv, CoreOK', NEW t \in Threads, Effect(t), NEW u \in Threads \ {t},
           th[u].pc \in {"fast", "entry"}
    PROVE  \/ ValueThen(th[u].e) = ValueOf(th[u].e)
           \/ ValueThen(th[u].e) = Contents'[th[u].key]
           \/ ValueThen(th[u].e) = None /\ EntryOf(th[u].key) # th[u].e
<1> DEFINE e == th[u].e
<1>1. /\ CoreOK /\ OwnInv /\ th[u].pc \in EntryPCs /\ th[u].key \in Keys
      /\ e \in Entries /\ e # None
  BY Fields, Names DEF MapInv, EntryPCs, KeyPCs
<1>2. CASE Same(e)
  BY <1>2 DEF Same
<1>3. CASE th[t].pc \in EntryPCs /\ (\E v \in Values : Written(th[t].key, th[t].e, v)) /\ e = th[t].e
  <2>1. th[u].key = th[t].key
    BY <1>1, <1>3, OwnFacts
  <2>2. EntryThen(th[u].key) = e
    BY <1>3, <2>1 DEF Written
  <2> QED
    BY <1>1, <2>2, ThenIs DEF ContentThen
<1>4. CASE Deletes(t) /\ Erased(th[t].key, th[t].e) /\ e = th[t].e
  <2>1. th[u].key = th[t].key
    BY <1>1, <1>4, OwnFacts DEF Deletes, EntryPCs
  <2> QED
    BY <1>4, <2>1 DEF Erased
<1>5. CASE th[t].pc \in {"insert", "copy"} /\ Inserted(th[t].key, th[t].n) /\ e = th[t].n
  BY <1>1, <1>5, OwnFacts DEF KeyPCs
<1> QED
  BY <1>1, <1>2, <1>3, <1>4, <1>5 DEF Effect, Still, Written, Erased, Taken, Inserted

-----------------------------------------------------------------------------
(* The history that the properties are about.                              *)

LEMMA RememberSeen ==
    ASSUME Remember, NEW u \in Threads
    PROVE  /\ th'[u].key = None => seen'[u] = {}
           /\ th'[u].key # None => Contents'[th'[u].key] \in seen'[u]
           /\ th'[u].key # None /\ th[u].key # None => seen'[u] = seen[u] \cup {Contents'[th'[u].key]}
  BY DEF Remember

LEMMA KeyKnown ==
    ASSUME CoreOK, NEW u \in Threads
    PROVE  /\ th[u].key \in Keys \cup {None}
           /\ th[u].pc \in {"fast", "entry"} => /\ th[u].key \in Keys /\ th[u].key # None
                                                /\ th[u].e \in Entries /\ th[u].e # None
                                                /\ th[u].pc \in EntryPCs /\ th[u].pc \in KeyPCs
  BY Fields, Names DEF ThreadStates, KeyPCs, EntryPCs

LEMMA HistoryStep ==
    ASSUME MapInv, CoreOK', HistoryOK, Remember
    PROVE  HistoryOK'
<1>1. \A u \in Threads : th'[u].key \in Keys \cup {None}
  BY DEF CoreOK, ThreadStates
<1>2. \A k \in Keys : Contents'[k] \in Values /\ ContentThen(k) = Contents'[k]
  <2>1. \A k \in Keys : EntryThen(k) \in Entries \cup {None}
    BY DEF CoreOK, EntryThen, Maps
  <2>2. \A e \in Entries : ValueThen(e) \in Values
    BY DEF CoreOK, ValueThen, Values
  <2> QED
    BY <2>1, <2>2, ThenIs DEF ContentThen, Values
<1>3. Present' \in SUBSET Keys
  BY DEF Present
<1>4. \A u \in Threads : /\ th'[u].key # None => Contents'[th'[u].key] \in Values
                         /\ seen[u] \in SUBSET Values /\ always[u] \in SUBSET Keys
  BY <1>1, <1>2 DEF HistoryOK
<1>5. seen' \in [Threads -> SUBSET Values]
  BY <1>4 DEF Remember
<1>6. always' \in [Threads -> SUBSET Keys]
  BY <1>3, <1>4 DEF Remember
<1> QED
  BY <1>5, <1>6 DEF HistoryOK

LEMMA SeenStep ==
    ASSUME MapInv, CoreOK', HistoryOK, SeenInv, Remember, NEW t \in Threads, Call(t) \/ Work(t)
    PROVE  SeenInv'
<1>1. Effect(t) /\ Finds(t) /\ Others(t) /\ CoreOK
  BY StepEffect DEF MapInv
<1> SUFFICES ASSUME NEW u \in Threads, th'[u].pc \in {"fast", "entry"}
             PROVE  /\ ValueThen(th'[u].e) \in seen'[u]
                    /\ EntryThen(th'[u].key) # th'[u].e => None \in seen'[u]
  <2>1. ASSUME NEW u \in Threads, th'[u].pc \in {"fast", "entry"}
        PROVE  th'[u].key \in Keys /\ th'[u].e \in Entries
    BY <2>1 DEF CoreOK, ThreadOK, KeyPCs, EntryPCs
  <2>2. ASSUME NEW u \in Threads, th'[u].pc \in {"fast", "entry"}
        PROVE  /\ (ValueOf(th[u].e) \in seen[u])' <=> ValueThen(th'[u].e) \in seen'[u]
               /\ (EntryOf(th[u].key) # th[u].e)' <=> EntryThen(th'[u].key) # th'[u].e
    BY <2>1, <2>2, Then DEF EntryOf, EntryThen, ValueOf, ValueThen
  <2> QED
    BY <2>2, RememberSeen DEF SeenInv
<1>2. th'[u].key \in Keys /\ th'[u].key # None /\ th'[u].e \in Entries /\ th'[u].e # None
  BY Names DEF CoreOK, ThreadOK, KeyPCs, EntryPCs
<1>3. /\ EntryThen(th'[u].key) = None => Contents'[th'[u].key] = None
      /\ EntryThen(th'[u].key) = EntryOf(th'[u].key) \/ EntryThen(th'[u].key) = None \/ ~Linked(th'[u].key)
  BY <1>1, <1>2, ThenIs, EffectOnKeys DEF ContentThen
<1>4. CASE u = t
  <2>1. /\ th[t].pc \in KeyPCs /\ th'[t].key = th[t].key /\ th'[t].e = EntryOf(th[t].key)
        /\ Linked(th[t].key) /\ th[t].key # None
    BY <1>1, <1>2, <1>4 DEF Finds
  <2>2. seen'[t] = seen[t] \cup {Contents'[th[t].key]} /\ Contents[th[t].key] \in seen[t]
    BY <2>1, RememberSeen DEF SeenInv
  <2>3. Contents[th[t].key] = ValueOf(th'[t].e)
    BY <1>1, <1>2, <1>4, <2>1, ValueIs
  <2>4. ValueThen(th'[t].e) \in {Contents[th[t].key], Contents'[th[t].key]}
    <3>1. CASE EntryThen(th[t].key) = th'[t].e
      BY <1>2, <1>4, <2>1, <3>1, ThenIs DEF ContentThen
    <3>2. CASE Same(th'[t].e)
      BY <2>3, <3>2 DEF Same
    <3>3. CASE Inserted(th[t].key, th[t].n)
      BY <2>1, <3>3 DEF Inserted, Linked
    <3>4. CASE Erased(th[t].key, th[t].e) /\ th'[t].e = th[t].e
      BY <2>1, <3>4 DEF Erased
    <3>5. CASE \E v \in Values : Written(th[t].key, th[t].e, v)
      BY <1>2, <1>4, <2>1, <3>1, <3>2, <3>5 DEF Written
    <3> QED
      BY <1>1, <1>2, <1>4, <3>2, <3>3, <3>4, <3>5 DEF Effect, Still, Erased, Taken
  <2> QED
    BY <1>3, <1>4, <2>1, <2>2, <2>4 DEF Linked
<1>5. CASE u # t
  <2>1. th'[u] = th[u]
    BY <1>1, <1>5 DEF Others
  <2>2. seen'[u] = seen[u] \cup {Contents'[th[u].key]}
    BY <1>2, <2>1, RememberSeen
  <2>3. ValueOf(th[u].e) \in seen[u] /\ (EntryOf(th[u].key) # th[u].e => None \in seen[u])
    BY <2>1 DEF SeenInv
  <2>4. \/ ValueThen(th[u].e) = ValueOf(th[u].e)
        \/ ValueThen(th[u].e) = Contents'[th[u].key]
        \/ ValueThen(th[u].e) = None /\ EntryOf(th[u].key) # th[u].e
    BY <1>1, <1>5, <2>1, EffectOnFound
  <2> QED
    BY <1>2, <1>3, <2>1, <2>2, <2>3, <2>4 DEF Linked
<1> QED
  BY <1>4, <1>5

(* Range, for the threads that do not move ...                             *)
LEMMA RememberAlways ==
    ASSUME Remember, NEW u \in Threads
    PROVE  /\ th'[u].op = "Range" /\ th[u].op # "Range" => always'[u] = Present'
           /\ th'[u].op = "Range" /\ th[u].op = "Range" => always'[u] = always[u] \cap Present'
  BY DEF Remember

LEMMA PresentIs == Present = {k \in Keys : Contents[k] # None} /\ Present' = {k \in Keys : Contents'[k] # None}
  BY DEF Present, Contents

LEMMA RangeKeeps ==
    ASSUME MapInv, CoreOK', RangeInv, Remember, NEW t \in Threads, Effect(t),
           NEW u \in Threads, th[u].op = "Range", th'[u].op = "Range",
           th'[u].pc = "walk" =>
               \A k \in Keys : k \in always[u] \ th'[u].visited =>
                 /\ k \in th'[u].todo /\ th'[u].m[k] = EntryOf(k),
           th'[u].pc = "return" => always[u] \subseteq th'[u].visited
    PROVE  RangeAt(u)'
<1>1. always[u] \subseteq Present /\ always'[u] = always[u] \cap Present'
  BY RememberAlways DEF RangeInv, RangeAt
<1>2. \A k \in always'[u] : k \in Keys /\ k \in always[u] /\ EntryThen(k) = EntryOf(k)
  BY <1>1, EffectOnKeys, PresentIs
<1> QED
  BY <1>1, <1>2, Then DEF RangeAt

(* ... and for the one that does.                                          *)
LEMMA RangeMoves ==
    ASSUME MapInv, RangeInv, Remember, NEW t \in Threads, Call(t) \/ Work(t),
           th[t].op = "Range", th'[t].op = "Range"
    PROVE  /\ th'[t].pc = "walk" =>
                \A k \in Keys : k \in always[t] \ th'[t].visited =>
                  /\ k \in th'[t].todo /\ th'[t].m[k] = EntryOf(k)
           /\ th'[t].pc = "return" => always[t] \subseteq th'[t].visited
<1>1. CoreOK /\ DirtyInv /\ ThreadOK(th[t])
  BY Fields DEF MapInv
<1>2. RangeAt(t) /\ th[t].key = None
  BY <1>1 DEF RangeInv, ThreadOK
<1>3. always[t] \subseteq {k \in Keys : Contents[k] # None}
  BY <1>2, PresentIs DEF RangeAt
<1>4. th[t].pc \notin KeyPCs /\ th[t].pc # "idle"
  BY <1>1, <1>2, Names DEF ThreadOK
<1>5. StartRange(t) \/ Promote(t) \/ WalkEntry(t) \/ FinishRange(t) \/ Return(t)
  BY <1>4 DEF Work, KeyPCs, Call, ReadFast, LoadEntry, DeleteEntry, TryStore, TryLoadOrStore, LookLocked,
              FindReadLocked, Unexpunge, FindDirtyLocked, StoreLocked, FindNothingLocked, CopyEntry, Insert
<1>6. \A k \in Keys : Contents[k] # None => Linked(k) /\ p[EntryOf(k)] \notin {None, Expunged}
  BY <1>1, ValueIs DEF ValueOf
<1>7. CASE StartRange(t)
  <2>1. CASE ~read.amended /\ WalkOf(t, read.m)
    <3>1. \A k \in Keys : Linked(k) => EntryOf(k) = read.m[k] /\ read.m[k] # None
      BY <1>1, <2>1 DEF Linked, EntryOf, DirtyInv
    <3> QED
      BY <1>3, <1>6, <2>1, <3>1 DEF WalkOf, KeysOf
  <2> QED
    BY <1>1, <1>7, <2>1, StartRangeDoes DEF Moved
<1>8. CASE Promote(t)
  <2>1. /\ Still /\ th'[t].pc = "walk"
        /\ \A k \in Keys : Contents[k] # None => k \in th'[t].todo /\ th'[t].m[k] = EntryThen(k)
    BY <1>8, PromoteEffect
  <2>2. \A k \in Keys : Contents[k] # None => EntryThen(k) = EntryOf(k)
    BY <1>6, <2>1 DEF Still, Kept
  <2> QED
    BY <1>3, <2>1, <2>2
<1>9. CASE WalkEntry(t)
  <2>1. th[t].pc = "walk" /\ th'[t].pc = "walk" /\ th'[t].m = th[t].m
    BY <1>1, <1>9, WalkEntryDoes DEF WalkEntry
  <2>2. PICK k \in th[t].todo :
             /\ th'[t].todo = th[t].todo \ {k}
             /\ th'[t].visited = IF p[th[t].m[k]] \in {None, Expunged} THEN th[t].visited
                                                                      ELSE th[t].visited \cup {k}
    BY <1>1, <1>9, WalkEntryDoes
  <2>3. \A x \in always[t] \ th[t].visited : x \in th[t].todo /\ th[t].m[x] = EntryOf(x)
    BY <1>2, <2>1 DEF RangeAt
  <2>4. k \in always[t] \ th[t].visited => k \in th'[t].visited
    BY <1>3, <1>6, <2>2, <2>3
  <2> QED
    BY <2>1, <2>2, <2>3, <2>4
<1>10. CASE FinishRange(t)
  <2>1. th[t].pc = "walk" /\ th[t].todo = {} /\ th'[t].pc = "return" /\ th'[t].visited = th[t].visited
    BY <1>1, <1>10, FinishRangeDoes DEF FinishRange, Moved, SameCall
  <2> QED
    BY <1>2, <2>1 DEF RangeAt
<1>11. CASE Return(t)
  BY <1>1, <1>11, ReturnDoes DEF Idle
<1> QED
  BY <1>5, <1>7, <1>8, <1>9, <1>10, <1>11

LEMMA RangeStep ==
    ASSUME MapInv, CoreOK', RangeInv, Remember, NEW t \in Threads, Call(t) \/ Work(t)
    PROVE  RangeInv'
<1>1. Effect(t) /\ Others(t) /\ CoreOK
  BY StepEffect DEF MapInv
<1> SUFFICES ASSUME NEW u \in Threads, th'[u].op = "Range" PROVE RangeAt(u)'
  BY DEF RangeInv
<1>2. CASE th[u].op # "Range"
  <2>1. u = t /\ ThreadOK(th[t]) /\ ThreadOK(th'[t])
    BY <1>1, <1>2, Fields DEF Others, CoreOK
  <2>2. Call(t)
    <3>1. Work(t) => th'[t].op \in {th[t].op, "none"}
      BY <1>1, ReadFastDoes, LoadEntryDoes, DeleteEntryDoes, TryStoreEffect, TryLoadOrStoreEffect,
         LookLockedEffect, FindLockedDoes, UnexpungeDoes, StoreLockedEffect, FindNothingLockedDoes,
         CopyEntryEffect, InsertEffect, StartRangeDoes, PromoteEffect, WalkEntryDoes, FinishRangeDoes,
         ReturnDoes DEF Work, Found, Ended, Moved, SameCall, WalkOf, Idle
    <3> QED
      BY <1>2, <2>1, <3>1
  <2>3. th'[t].pc = "range"
    BY <1>1, <2>1, <2>2, CallDoes
  <2>4. always'[u] = Present'
    BY <1>2, RememberAlways
  <2> QED
    BY <2>1, <2>3, <2>4 DEF RangeAt
<1>3. CASE th[u].op = "Range" /\ u = t
  BY <1>1, <1>3, RangeMoves, RangeKeeps
<1>4. CASE th[u].op = "Range" /\ u # t
  <2>1. th'[u] = th[u] /\ RangeAt(u)
    BY <1>1, <1>4 DEF Others, RangeInv
  <2>2. th[u].pc = "walk" => \A k \in Keys : k \in always[u] \ th[u].visited =>
                               k \in th[u].todo /\ th[u].m[k] = EntryOf(k)
    BY <2>1 DEF RangeAt
  <2>3. th[u].pc = "return" => always[u] \subseteq th[u].visited
    BY <2>1 DEF RangeAt
  <2> QED
    BY <1>1, <1>4, <2>1, <2>2, <2>3, RangeKeeps
<1> QED
  BY <1>2, <1>3, <1>4

-----------------------------------------------------------------------------
LEMMA InvInit == Init => Inv
<1> SUFFICES ASSUME Init PROVE Inv
  OBVIOUS
<1>1. MapInv
  BY InitMap
<1>2. \A t \in Threads : th[t].op = "none" /\ th[t].pc = "idle" /\ th[t].key = None /\ seen[t] = {}
  BY DEF Init, Idle
<1>3. HistoryOK
  BY DEF Init, HistoryOK
<1>4. SeenInv
  BY <1>2 DEF SeenInv
<1>5. RangeInv
  BY <1>2 DEF RangeInv
<1> QED
  BY <1>1, <1>3, <1>4, <1>5 DEF Inv

LEMMA InvNext == Inv /\ [Next]_vars => Inv'
<1> SUFFICES ASSUME Inv, [Next]_vars PROVE Inv'
  OBVIOUS
<1>1. CASE Next
  <2>1. PICK t \in Threads : Call(t) \/ Work(t)
    BY <1>1 DEF Next
  <2>2. Remember /\ MapInv /\ HistoryOK /\ SeenInv /\ RangeInv
    BY <1>1 DEF Next, Inv
  <2>3. MapInv'
    BY <2>1, <2>2, StepMap
  <2>4. CoreOK'
    BY <2>3 DEF MapInv
  <2> QED
    BY <2>1, <2>2, <2>3, <2>4, HistoryStep, SeenStep, RangeStep DEF Inv
<1>2. CASE UNCHANGED vars
  BY <1>2 DEF vars, Inv, MapInv, CoreOK, ThreadOK, LockInv, OwnInv, OwnedBy, DirtyInv, DirtyAt, EntryInv,
              Copying, FoundInv, FoundAt, TakenOut, Deletes, EntryOf, HistoryOK, SeenInv, Contents, Value,
              ValueOf, RangeInv, RangeAt, Present
<1> QED
  BY <1>1, <1>2

(* The inductive invariant that the theorems below rest on.                *)
LEMMA InvHolds == Spec => []Inv
  BY InvInit, InvNext, PTL DEF Spec

(* No call keeps mu (the mu.Lock and mu.Unlock of map.go:118-134 and of    *)
(* the other operations): whoever holds it is on its way to release it.    *)
THEOREM LockIsAlwaysReleased == Spec => []LockIsReleased
<1>1. Inv => LockIsReleased
  <2> SUFFICES ASSUME Inv, mu # Free PROVE th[mu].pc \in LockPCs
    BY DEF LockIsReleased, LockPCs
  <2> QED
    BY DEF Inv, MapInv, CoreOK, LockInv
<1> QED
  BY <1>1, InvHolds, PTL

(* The comment of entry.p (map.go:85-93) is true whenever mu is free.      *)
THEOREM EntriesAreAsDocumented == Spec => []EntriesAsDocumented
<1>1. Inv => EntriesAsDocumented
  <2> SUFFICES ASSUME Inv, mu = Free, NEW k \in Keys, read.m[k] # None
               PROVE  /\ p[read.m[k]] = None => dirty.nil \/ dirty.m[k] = read.m[k]
                      /\ p[read.m[k]] = Expunged => ~dirty.nil /\ dirty.m[k] = None
                      /\ p[read.m[k]] > 0 => dirty.nil \/ dirty.m[k] = read.m[k]
    BY DEF EntriesAsDocumented, KeysOf
  <2>1. CoreOK /\ LockInv /\ EntryInv
    BY DEF Inv, MapInv
  <2>2. ~Copying(k)
    BY <2>1, NotCopying DEF Copying
  <2>3. ~(p[read.m[k]] > 0 /\ p[read.m[k]] = Expunged) /\ None # Expunged
    BY DEF Expunged, None
  <2> QED
    BY <2>1, <2>2, <2>3 DEF EntryInv
<1> QED
  BY <1>1, InvHolds, PTL

(* Range (map.go:328-363) passes over no key that is present all the time  *)
(* that it runs, however often the maps are swapped and entries expunged.  *)
THEOREM RangeVisitsAllPresent == Spec => []RangeVisitsAll
<1>1. Inv => RangeVisitsAll
  BY DEF Inv, RangeInv, RangeAt, RangeVisitsAll
<1> QED
  BY <1>1, InvHolds, PTL

-----------------------------------------------------------------------------
(* The map implements ConcurrentMap.                                       *)

(* What the call of a thread has become by the step.                       *)
LEMMA OthersReturn ==
    ASSUME MapInv, CoreOK', NEW t \in Threads, Effect(t), Others(t), NEW u \in Threads \ {t}
    PROVE  CallOf(u)' = CallOf(u)
<1>1. th'[u] = th[u] /\ CoreOK /\ OwnInv /\ FoundInv
  BY DEF Others, MapInv
<1>2. CASE ~(th[u].pc = "entry" /\ th[u].op = "LoadAndDelete")
  BY <1>1, <1>2 DEF CallOf, Unlinked
<1>3. CASE th[u].pc = "entry" /\ th[u].op = "LoadAndDelete"
  <2> DEFINE k == th[u].key
             e == th[u].e
  <2>1. k \in Keys /\ k # None /\ e \in Entries /\ e # None /\ th[u].pc \in EntryPCs /\ Deletes(u)
    BY <1>1, <1>3, KeyKnown DEF Deletes
  <2>2. Unlinked(u)' <=> EntryThen(k) # e
    BY <1>1, <1>3, <2>1 DEF Unlinked, EntryOf, EntryThen
  <2>3. Unlinked(u) <=> EntryOf(k) # e
    BY <1>3 DEF Unlinked
  <2>4. p[e] > 0 <=> ValueOf(e) # None
    BY <1>1, <2>1 DEF CoreOK, Values, ValueOf, Calls, None, Expunged
  <2>5. p'[e] > 0 <=> ValueThen(e) # None
    BY <2>1 DEF CoreOK, Values, ValueThen, Calls, None, Expunged
  <2>6. ValueOf(e) # None => ValueOf(e) = p[e]
    BY DEF ValueOf
  <2>7. ValueThen(e) # None => ValueThen(e) = p'[e]
    BY DEF ValueThen
  <2>8. ValueOf(e) # None /\ EntryOf(k) # e => TakenOut(u)
    <3>1. ASSUME read.m[k] = e PROVE EntryOf(k) = e
      BY <2>1, <3>1 DEF EntryOf
    <3> QED
      BY <1>1, <2>1, <3>1 DEF FoundInv, ValueOf
  <2>9. EntryOf(k) # e /\ ValueOf(e) # None => EntryThen(k) # e /\ ValueThen(e) = ValueOf(e)
    <3> SUFFICES ASSUME EntryOf(k) # e, ValueOf(e) # None
                 PROVE  EntryThen(k) # e /\ ValueThen(e) = ValueOf(e)
      OBVIOUS
    <3>1. CASE Still
      BY <2>1, <3>1 DEF Still, Kept, Same
    <3>2. CASE th[t].pc \in EntryPCs /\ (\E v \in Values : Written(th[t].key, th[t].e, v))
      <4>1. th[t].e = e => th[t].key = k
        BY <1>1, <2>1, <3>2, OwnFacts
      <4> QED
        BY <2>1, <3>2, <4>1 DEF Written, Kept, Same
    <3>3. CASE Deletes(t) /\ Erased(th[t].key, th[t].e)
      <4>1. th[t].e # e
        BY <2>8, <3>3 DEF TakenOut
      <4> QED
        BY <2>1, <3>3, <4>1 DEF Erased, Kept, Same
    <3>4. CASE Taken(th[t].key)
      BY <2>1, <3>4 DEF Taken, Kept, Same
    <3>5. CASE th[t].pc \in {"insert", "copy"} /\ Inserted(th[t].key, th[t].n)
      <4>1. th[t].n # e
        BY <1>1, <2>1, <3>5, OwnFacts DEF KeyPCs
      <4> QED
        BY <2>1, <3>5, <4>1 DEF Inserted, Kept, Same
    <3> QED
      BY <3>1, <3>2, <3>3, <3>4, <3>5 DEF Effect
  <2>10. EntryOf(k) = e /\ EntryThen(k) # e => ValueThen(e) = None
    <3> SUFFICES ASSUME EntryOf(k) = e, EntryThen(k) # e PROVE ValueThen(e) = None
      OBVIOUS
    <3>1. CASE Kept(k)
      <4>1. ValueOf(e) = None
        BY <3>1 DEF Kept, ValueOf
      <4>2. Same(e) \/ (th[t].pc \in EntryPCs /\ th[t].e = e /\ \E v \in Values : Written(th[t].key, e, v))
                    \/ Erased(th[t].key, e) \/ (th[t].pc \in {"insert", "copy"} /\ th[t].n = e)
        BY <2>1 DEF Effect, Still, Written, Erased, Taken, Inserted
      <4>3. CASE th[t].pc \in EntryPCs /\ th[t].e = e /\ \E v \in Values : Written(th[t].key, e, v)
        <5>1. th[t].key = k
          BY <1>1, <2>1, <4>3, OwnFacts
        <5> QED
          BY <4>3, <5>1 DEF Written
      <4>4. CASE th[t].pc \in {"insert", "copy"} /\ th[t].n = e
        BY <1>1, <2>1, <4>4, OwnFacts DEF KeyPCs
      <4> QED
        BY <4>1, <4>2, <4>3, <4>4 DEF Same, Erased
    <3>2. CASE th[t].pc = "lock" /\ th[t].op = "LoadAndDelete" /\ Taken(th[t].key) /\ k = th[t].key
      <4>1. read.m[k] # e /\ dirty.m[k] = e
        BY <2>1, <3>2 DEF Taken, EntryOf
      <4>2. p[e] = Expunged /\ Same(e)
        BY <1>1, <2>1, <3>2, <4>1 DEF FoundInv, TakenOut, Taken
      <4> QED
        BY <4>2 DEF Same, ValueOf
    <3>3. CASE Inserted(th[t].key, th[t].n) /\ k = th[t].key
      BY <2>1, <3>3 DEF Inserted
    <3> QED
      BY <2>1, <3>1, <3>2, <3>3 DEF Effect, Still, Written, Erased, Taken, Inserted
  <2>11. EntryOf(k) # e /\ ValueOf(e) = None => EntryThen(k) = e \/ ValueThen(e) = None
    <3>1. CASE th[t].pc \in EntryPCs /\ th[t].e = e /\ \E v \in Values : Written(th[t].key, e, v)
      <4>1. th[t].key = k
        BY <1>1, <2>1, <3>1, OwnFacts
      <4> QED
        BY <3>1, <4>1 DEF Written
    <3>2. CASE th[t].pc \in {"insert", "copy"} /\ th[t].n = e
      BY <1>1, <2>1, <3>2, OwnFacts DEF KeyPCs
    <3> QED
      BY <2>1, <3>1, <3>2 DEF Effect, Still, Written, Erased, Taken, Inserted, Same
  <2> QED
    BY <1>1, <1>3, <2>1, <2>2, <2>3, <2>4, <2>5, <2>6, <2>7, <2>9, <2>10, <2>11 DEF CallOf
<1> QED
  BY <1>2, <1>3

(* The map after a step.                                                   *)
LEMMA ContentsAfter ==
    ASSUME MapInv, CoreOK'
    PROVE  /\ Still => Contents' = Contents
           /\ \A k \in Keys, e \in Entries, v \in Values :
                Written(k, e, v) => Contents' = [Contents EXCEPT ![k] = v]
           /\ \A k \in Keys, e \in Entries :
                Erased(k, e) /\ (\A x \in Keys : EntryOf(x) # e) => Contents' = Contents
           /\ \A k \in Keys : Taken(k) => Contents' = [Contents EXCEPT ![k] = None]
           /\ \A k \in Keys, n \in Entries :
                Inserted(k, n) /\ (\A x \in Keys : EntryOf(x) # n) => Contents' = [Contents EXCEPT ![k] = n]
<1>1. CoreOK /\ OwnInv
  BY DEF MapInv
<1>2. /\ \A k \in Keys : Contents[k] = IF Linked(k) THEN ValueOf(EntryOf(k)) ELSE None
      /\ \A k \in Keys : Contents'[k] = ContentThen(k)
      /\ \A k \in Keys : Linked(k) => EntryOf(k) \in Entries
  BY <1>1, ValueIs, ThenIs, ValuesOK DEF Linked
<1>3. /\ Contents = [k \in Keys |-> Contents[k]] /\ Contents' = [k \in Keys |-> Contents'[k]]
  BY DEF Contents
<1>4. \A k \in Keys : Kept(k) /\ (Linked(k) => Same(EntryOf(k))) => Contents'[k] = Contents[k]
  <2> SUFFICES ASSUME NEW k \in Keys, Kept(k), Linked(k) => Same(EntryOf(k))
               PROVE  ContentThen(k) = IF Linked(k) THEN ValueOf(EntryOf(k)) ELSE None
    BY <1>2
  <2>1. CASE EntryThen(k) = EntryOf(k)
    BY <2>1 DEF ContentThen, Linked, Same
  <2>2. CASE EntryThen(k) = None /\ Linked(k) /\ p[EntryOf(k)] = Expunged
    BY <2>2 DEF ContentThen, ValueOf
  <2> QED
    BY <2>1, <2>2 DEF Kept
<1>5. \A k, x \in Keys : k # x /\ Linked(k) => EntryOf(k) # EntryOf(x)
  BY <1>1, OwnFacts DEF Linked
<1>6. Still => Contents' = Contents
  BY <1>2, <1>3, <1>4 DEF Still
<1>7. ASSUME NEW k \in Keys, NEW e \in Entries, NEW v \in Values, Written(k, e, v)
      PROVE  Contents' = [Contents EXCEPT ![k] = v]
  <2>1. Contents'[k] = v
    BY <1>2, <1>7, Names DEF Written, ContentThen
  <2>2. \A x \in Keys \ {k} : Contents'[x] = Contents[x]
    BY <1>2, <1>4, <1>5, <1>7 DEF Written
  <2> QED
    BY <1>3, <2>1, <2>2
<1>8. ASSUME NEW k \in Keys, NEW e \in Entries, Erased(k, e), \A x \in Keys : EntryOf(x) # e
      PROVE  Contents' = Contents
  BY <1>2, <1>3, <1>4, <1>8 DEF Erased
<1>9. ASSUME NEW k \in Keys, Taken(k)
      PROVE  Contents' = [Contents EXCEPT ![k] = None]
  <2>1. Contents'[k] = None
    BY <1>2, <1>9 DEF Taken, ContentThen
  <2>2. \A x \in Keys \ {k} : Contents'[x] = Contents[x]
    BY <1>2, <1>4, <1>9 DEF Taken
  <2> QED
    BY <1>3, <2>1, <2>2
<1>10. ASSUME NEW k \in Keys, NEW n \in Entries, Inserted(k, n), \A x \in Keys : EntryOf(x) # n
       PROVE  Contents' = [Contents EXCEPT ![k] = n]
  <2>1. Contents'[k] = n
    BY <1>2, <1>10, Names DEF Inserted, ContentThen
  <2>2. \A x \in Keys \ {k} : Contents'[x] = Contents[x]
    BY <1>2, <1>4, <1>10 DEF Inserted
  <2> QED
    BY <1>3, <2>1, <2>2
<1> QED
  BY <1>6, <1>7, <1>8, <1>9, <1>10

(* What the other threads have seen after a step.                          *)
LEMMA OthersSeen ==
    ASSUME Inv, CoreOK', Remember, NEW t \in Threads, Others(t), NEW u \in Threads, u # t \/ th'[t].key = th[t].key
    PROVE  /\ th'[u].key = th[u].key
           /\ seen'[u] = IF th[u].key = None THEN seen[u] ELSE seen[u] \cup {Contents'[th[u].key]}
           /\ th[u].key # None => Contents[th[u].key] \in seen[u]
  BY RememberSeen DEF Others, Inv, SeenInv

LEMMA CallIs ==
    ASSUME CoreOK, NEW u \in Threads
    PROVE  /\ th[u].key = None => CallOf(u) = Abstract!NoCall
           /\ th[u].key # None =>
                /\ CallOf(u).op = th[u].op /\ CallOf(u).key = th[u].key /\ CallOf(u).value = th[u].n
                /\ CallOf(u) = [op |-> th[u].op, key |-> th[u].key, value |-> th[u].n,
                                returns |-> CallOf(u).returns]
                /\ CallOf(u) # Abstract!NoCall
<1>1. CASE th[u].key = None
  BY <1>1 DEF CallOf, Abstract!NoCall
<1>2. CASE th[u].key # None
  <2>1. th[u].op # "none"
    BY <1>2, Fields DEF ThreadOK
  <2> DEFINE r == IF th[u].pc = "return" THEN {th[u].result}
                  ELSE IF Unlinked(u) /\ p[th[u].e] > 0 THEN {p[th[u].e]} ELSE {}
  <2>2. CallOf(u) = [op |-> th[u].op, key |-> th[u].key, value |-> th[u].n, returns |-> r]
    BY <1>2 DEF CallOf
  <2>3. CallOf(u).op = th[u].op /\ Abstract!NoCall.op = "none"
    BY <2>2 DEF Abstract!NoCall
  <2> QED
    BY <1>2, <2>1, <2>2, <2>3
<1> QED
  BY <1>1, <1>2

LEMMA SeenStays ==
    ASSUME Inv, CoreOK', Remember, NEW t \in Threads, Others(t), Contents' = Contents,
           th'[t].key = th[t].key
    PROVE  seen' = seen
<1>1. ASSUME NEW u \in Threads PROVE seen'[u] = seen[u]
  <2>1. /\ seen'[u] = IF th[u].key = None THEN seen[u] ELSE seen[u] \cup {Contents[th[u].key]}
        /\ th[u].key # None => Contents[th[u].key] \in seen[u]
    BY OthersSeen
  <2> QED
    BY <2>1
<1> QED
  BY <1>1 DEF Remember, Inv, HistoryOK

(* Which calls have taken effect.                                          *)
LEMMA ReturnsIs ==
    ASSUME CoreOK, NEW u \in Threads, th[u].key # None
    PROVE  /\ th[u].pc = "return" => CallOf(u).returns = {th[u].result}
           /\ th[u].pc # "return" /\ ~Unlinked(u) => CallOf(u).returns = {}
           /\ Unlinked(u) => CallOf(u).returns = IF ValueOf(th[u].e) = None THEN {} ELSE {ValueOf(th[u].e)}
<1>1. th[u].pc = "return" => CallOf(u).returns = {th[u].result}
  BY DEF CallOf
<1>2. th[u].pc # "return" /\ ~Unlinked(u) => CallOf(u).returns = {}
  BY DEF CallOf
<1>3. CASE Unlinked(u)
  <2>1. th[u].pc = "entry" /\ th[u].e \in Entries
    BY <1>3, KeyKnown DEF Unlinked
  <2>2. CallOf(u).returns = IF p[th[u].e] > 0 THEN {p[th[u].e]} ELSE {}
    BY <1>3, <2>1 DEF CallOf
  <2>3. p[th[u].e] \in Calls \/ p[th[u].e] = None \/ p[th[u].e] = Expunged
    BY <2>1 DEF CoreOK, Values
  <2>4. /\ p[th[u].e] \in Calls => p[th[u].e] > 0 /\ ValueOf(th[u].e) = p[th[u].e] /\ p[th[u].e] # None
        /\ p[th[u].e] \notin Calls => ~(p[th[u].e] > 0) /\ ValueOf(th[u].e) = None
    BY <2>3 DEF Calls, None, Expunged, ValueOf
  <2> QED
    BY <1>3, <2>1, <2>2, <2>4
<1> QED
  BY <1>1, <1>2, <1>3

-----------------------------------------------------------------------------
(* The steps of ConcurrentMap.                                             *)

LEMMA AbstractStutter ==
    ASSUME Inv, CoreOK', Remember, NEW t \in Threads, Others(t), Effect(t), Contents' = Contents,
           th'[t].key = th[t].key, CallOf(t)' = CallOf(t)
    PROVE  UNCHANGED Abstract!vars
<1>1. \A u \in Threads : CallOf(u)' = CallOf(u)
  BY OthersReturn DEF Inv
<1>3. seen' = seen
  BY SeenStays
<1> QED
  BY <1>1, <1>3 DEF Abstract!vars

LEMMA AbstractObserve ==
    ASSUME Inv, CoreOK', Remember, NEW t \in Threads, Others(t), Effect(t), Contents' = Contents,
           th[t].key # None, CallOf(t).returns = {}, NEW v, v \in seen[t], Ended(t, v),
           \/ th[t].op = "Load"
           \/ th[t].op = "LoadOrStore" /\ v # None
           \/ th[t].op = "LoadAndDelete" /\ v = None
    PROVE  Abstract!Observe(t)
<1>1. /\ th'[t].key = th[t].key /\ th'[t].op = th[t].op /\ th'[t].n = th[t].n
      /\ th'[t].pc = "return" /\ th'[t].result = v
  BY DEF Ended, Moved, SameCall
<1>2. \A u \in Threads \ {t} : CallOf(u)' = CallOf(u)
  BY OthersReturn DEF Inv
<1>3. CallOf(t)' = [CallOf(t) EXCEPT !.returns = {v}]
  <2>1. CallOf(t) = [op |-> th[t].op, key |-> th[t].key, value |-> th[t].n, returns |-> {}]
    BY CallIs DEF Inv, MapInv
  <2>2. CallOf(t)' = [op |-> th[t].op, key |-> th[t].key, value |-> th[t].n, returns |-> {v}]
    BY <1>1 DEF CallOf
  <2> QED
    BY <2>1, <2>2
<1>5. seen' = seen
  BY <1>1, SeenStays
<1>6. CallOf(t).op = th[t].op /\ CallOf(t) # Abstract!NoCall
  BY CallIs DEF Inv, MapInv
<1>7. [u \in Threads |-> CallOf(u)]' = [[u \in Threads |-> CallOf(u)] EXCEPT ![t].returns = {v}]
  BY <1>2, <1>3
<1> QED
  BY <1>5, <1>6, <1>7 DEF Abstract!Observe, Abstract!Pending

LEMMA AbstractBecomes ==
    ASSUME Inv, CoreOK', Remember, NEW t \in Threads, Others(t), Effect(t),
           th[t].key \in Keys, th'[t].key = th[t].key, NEW v, NEW r,
           Contents' = [Contents EXCEPT ![th[t].key] = v],
           CallOf(t)' = [CallOf(t) EXCEPT !.returns = {r}]
    PROVE  Abstract!Becomes(t, v, r)
<1> DEFINE k == th[t].key
           C == [u \in Threads |-> CallOf(u)]
<1>1. CoreOK /\ k # None
  BY Names DEF Inv, MapInv
<1>2. \A u \in Threads \ {t} : CallOf(u)' = CallOf(u)
  BY OthersReturn DEF Inv
<1>3. C' = [C EXCEPT ![t].returns = {r}]
  BY <1>2
<1>4. \A u \in Threads : u \in Abstract!Pending <=> th[u].key # None
  BY <1>1, CallIs DEF Abstract!Pending
<1>5. \A u \in Threads : th[u].key # None => C[u].key = th[u].key
  BY <1>1, CallIs
<1>6. Contents'[k] = v /\ \A x \in Keys \ {k} : Contents'[x] = Contents[x]
  BY <1>1, ValuesOK
<1>7. ASSUME NEW u \in Threads
      PROVE  seen'[u] = IF u \in Abstract!Pending /\ C[u].key = k THEN seen[u] \cup {v} ELSE seen[u]
  <2>1. /\ seen'[u] = IF th[u].key = None THEN seen[u] ELSE seen[u] \cup {Contents'[th[u].key]}
        /\ th[u].key # None => Contents[th[u].key] \in seen[u]
    BY OthersSeen
  <2>2. th[u].key \in Keys \cup {None}
    BY <1>1, KeyKnown
  <2> QED
    BY <1>4, <1>5, <1>6, <2>1, <2>2
<1>8. seen' = [u \in Threads |-> IF u \in Abstract!Pending /\ C[u].key = k THEN seen[u] \cup {v} ELSE seen[u]]
  BY <1>7 DEF Remember
<1>9. C[t].key = k
  BY <1>1, <1>5
<1> QED
  BY <1>3, <1>8, <1>9 DEF Abstract!Becomes

LEMMA AbstractChange ==
    ASSUME Inv, CoreOK', Remember, NEW t \in Threads, Others(t), Effect(t),
           th[t].key \in Keys, th'[t].key = th[t].key, NEW v, NEW r,
           Contents' = [Contents EXCEPT ![th[t].key] = v],
           CallOf(t)' = [CallOf(t) EXCEPT !.returns = {r}],
           CallOf(t).returns = {},
           \/ th[t].op = "Store" /\ v = th[t].n /\ r = v
           \/ th[t].op = "LoadOrStore" /\ Contents[th[t].key] = None /\ v = th[t].n /\ r = v
           \/ th[t].op = "LoadAndDelete" /\ r = Contents[th[t].key] /\ r # None /\ v = None
    PROVE  Abstract!Change(t)
<1>1. Abstract!Becomes(t, v, r)
  BY AbstractBecomes
<1>2. CoreOK /\ th[t].key # None
  BY Names DEF Inv, MapInv
<1>3. /\ CallOf(t).op = th[t].op /\ CallOf(t).key = th[t].key /\ CallOf(t).value = th[t].n
      /\ CallOf(t) # Abstract!NoCall
  BY <1>2, CallIs
<1> QED
  BY <1>1, <1>3 DEF Abstract!Change, Abstract!Pending

(* A call that ends with what it has changed.                              *)
LEMMA EndedChange ==
    ASSUME Inv, CoreOK', Remember, NEW t \in Threads, Effect(t), th[t].pc \in KeyPCs, ~Unlinked(t),
           NEW v, NEW r, Ended(t, r),
           Contents' = [Contents EXCEPT ![th[t].key] = v],
           \/ th[t].op = "Store" /\ v = th[t].n /\ r = v
           \/ th[t].op = "LoadOrStore" /\ Contents[th[t].key] = None /\ v = th[t].n /\ r = v
           \/ th[t].op = "LoadAndDelete" /\ r = Contents[th[t].key] /\ r # None /\ v = None
    PROVE  Abstract!Change(t)
<1>1. CoreOK /\ th[t].key \in Keys /\ th[t].key # None /\ th[t].pc # "return"
  BY Fields DEF Inv, MapInv, KeyPCs
<1>2. /\ th'[t].key = th[t].key /\ th'[t].op = th[t].op /\ th'[t].n = th[t].n
      /\ th'[t].pc = "return" /\ th'[t].result = r /\ Others(t)
  BY DEF Ended, Moved, SameCall
<1>3. CallOf(t).returns = {}
  BY <1>1, ReturnsIs
<1>4. CallOf(t) = [op |-> th[t].op, key |-> th[t].key, value |-> th[t].n, returns |-> {}]
  BY <1>1, <1>3, CallIs
<1>5. CallOf(t)' = [op |-> th[t].op, key |-> th[t].key, value |-> th[t].n, returns |-> {r}]
  BY <1>1, <1>2 DEF CallOf
<1>6. CallOf(t)' = [CallOf(t) EXCEPT !.returns = {r}]
  BY <1>4, <1>5
<1> QED
  BY <1>1, <1>2, <1>3, <1>6, AbstractChange

LEMMA AbstractInvoke ==
    ASSUME Inv, CoreOK', Remember, NEW t \in Threads, Others(t), Effect(t), Contents' = Contents,
           th[t].key = None, th'[t].key \in Keys, th'[t].op \in Ops \ {"Range"}, th'[t].pc = "read"
    PROVE  Abstract!Invoke(t)
<1>1. CoreOK /\ th'[t].key # None /\ th'[t].n \in Calls
  BY Names DEF Inv, MapInv, CoreOK, ThreadOK, KeyPCs
<1>2. \A u \in Threads \ {t} : CallOf(u)' = CallOf(u)
  BY OthersReturn DEF Inv
<1>3. CallOf(t)' = [op |-> th'[t].op, key |-> th'[t].key, value |-> th'[t].n, returns |-> {}]
  BY <1>1 DEF CallOf, Unlinked
<1>4. CallOf(t) = Abstract!NoCall
  BY <1>1, CallIs
<1>5. [u \in Threads |-> CallOf(u)]' =
        [[u \in Threads |-> CallOf(u)] EXCEPT
           ![t] = [op |-> th'[t].op, key |-> th'[t].key, value |-> th'[t].n, returns |-> {}]]
  BY <1>2, <1>3
<1>6. \A u \in Threads \ {t} : seen'[u] = seen[u]
  <2> TAKE u \in Threads \ {t}
  <2>1. /\ seen'[u] = IF th[u].key = None THEN seen[u] ELSE seen[u] \cup {Contents[th[u].key]}
        /\ th[u].key # None => Contents[th[u].key] \in seen[u]
    BY OthersSeen
  <2> QED
    BY <2>1
<1>7. seen'[t] = {Contents[th'[t].key]}
  BY <1>1 DEF Remember
<1>8. seen' = [seen EXCEPT ![t] = {Contents[th'[t].key]}]
  BY <1>6, <1>7 DEF Remember, Inv, HistoryOK
<1> QED
  BY <1>1, <1>4, <1>5, <1>8 DEF Abstract!Invoke

LEMMA AbstractReturn ==
    ASSUME Inv, CoreOK', Remember, NEW t \in Threads, Others(t), Effect(t), Contents' = Contents,
           th[t].key # None, th[t].pc = "return", th'[t] = Idle
    PROVE  Abstract!Return(t)
<1>1. CoreOK /\ th'[t].key = None
  BY DEF Inv, MapInv, Idle
<1>2. \A u \in Threads \ {t} : CallOf(u)' = CallOf(u)
  BY OthersReturn DEF Inv
<1>3. CallOf(t)' = Abstract!NoCall
  BY <1>1 DEF CallOf, Abstract!NoCall
<1>4. CallOf(t) # Abstract!NoCall /\ CallOf(t).returns # {}
  BY <1>1, CallIs, ReturnsIs
<1>5. [u \in Threads |-> CallOf(u)]' = [[u \in Threads |-> CallOf(u)] EXCEPT ![t] = Abstract!NoCall]
  BY <1>2, <1>3
<1>6. \A u \in Threads \ {t} : seen'[u] = seen[u]
  <2> TAKE u \in Threads \ {t}
  <2>1. /\ seen'[u] = IF th[u].key = None THEN seen[u] ELSE seen[u] \cup {Contents[th[u].key]}
        /\ th[u].key # None => Contents[th[u].key] \in seen[u]
    BY OthersSeen
  <2> QED
    BY <2>1
<1>7. seen' = [seen EXCEPT ![t] = {}]
  BY <1>1, <1>6 DEF Remember, Inv, HistoryOK
<1> QED
  BY <1>4, <1>5, <1>7 DEF Abstract!Return, Abstract!Pending

(* A step that is none of ConcurrentMap.                                   *)
LEMMA CallSame ==
    ASSUME NEW t \in Threads, th'[t].key = th[t].key, th'[t].op = th[t].op, th'[t].n = th[t].n,
           th[t].pc \notin {"return", "entry"}, th'[t].pc \notin {"return", "entry"}
    PROVE  CallOf(t)' = CallOf(t)
  BY DEF CallOf, Unlinked

LEMMA ReturnsThen ==
    ASSUME CoreOK', NEW t \in Threads, th'[t].pc = "entry"
    PROVE  CallOf(t)' = [op |-> th'[t].op, key |-> th'[t].key, value |-> th'[t].n,
                         returns |-> IF /\ th'[t].op = "LoadAndDelete"
                                        /\ EntryThen(th'[t].key) # th'[t].e
                                        /\ ValueThen(th'[t].e) # None
                                     THEN {ValueThen(th'[t].e)} ELSE {}]
<1>1. th'[t].key # None /\ th'[t].e \in Entries
  BY Names DEF CoreOK, ThreadOK, KeyPCs, EntryPCs
<1>2. p'[th'[t].e] \in Calls \/ p'[th'[t].e] = None \/ p'[th'[t].e] = Expunged
  BY <1>1 DEF CoreOK, Values
<1>3. /\ p'[th'[t].e] \in Calls => p'[th'[t].e] > 0 /\ ValueThen(th'[t].e) = p'[th'[t].e] /\ p'[th'[t].e] # None
      /\ p'[th'[t].e] \notin Calls => ~(p'[th'[t].e] > 0) /\ ValueThen(th'[t].e) = None
  BY <1>2 DEF Calls, None, Expunged, ValueThen
<1>4. Unlinked(t)' <=> th'[t].op = "LoadAndDelete" /\ EntryThen(th'[t].key) # th'[t].e
  BY DEF Unlinked, EntryOf, EntryThen
<1>5. CallOf(t)' = [op |-> th'[t].op, key |-> th'[t].key, value |-> th'[t].n,
                    returns |-> IF Unlinked(t)' /\ p'[th'[t].e] > 0 THEN {p'[th'[t].e]} ELSE {}]
  BY <1>1 DEF CallOf
<1> QED
  BY <1>2, <1>3, <1>4, <1>5

LEMMA CallRefines ==
    ASSUME Inv, CoreOK', Remember, NEW t \in Threads, Call(t)
    PROVE  Abstract!Invoke(t) \/ UNCHANGED Abstract!vars
<1>1. /\ CoreOK /\ MapInv /\ Still /\ th[t].pc = "idle" /\ Effect(t) /\ Others(t)
  BY SameMaps, StepEffect DEF Inv, MapInv, Call
<1>2. Contents' = Contents /\ th[t].key = None
  BY <1>1, ContentsAfter, Fields DEF ThreadOK
<1>3. \/ th'[t].op = "Range" /\ th'[t].key = None
      \/ th'[t].pc = "read" /\ th'[t].key \in Keys /\ th'[t].op \in Ops \ {"Range"}
  BY <1>1, CallDoes
<1>4. th'[t].key = None => CallOf(t)' = CallOf(t)
  BY <1>2 DEF CallOf
<1> QED
  BY <1>1, <1>2, <1>3, <1>4, AbstractInvoke, AbstractStutter

LEMMA StillRefines ==
    ASSUME Inv, CoreOK', Remember, NEW t \in Threads, Others(t), Still,
           th'[t].key = th[t].key, th'[t].op = th[t].op, th'[t].n = th[t].n,
           th[t].pc \notin {"return", "entry"}, th'[t].pc \notin {"return", "entry"}
    PROVE  UNCHANGED Abstract!vars
<1>1. Effect(t)
  BY DEF Effect
<1>2. Contents' = Contents
  BY ContentsAfter DEF Inv
<1> QED
  BY <1>1, <1>2, CallSame, AbstractStutter

LEMMA LockedRefines ==
    ASSUME Inv, CoreOK', Remember, NEW t \in Threads,
           FindReadLocked(t) \/ FindDirtyLocked(t) \/ Unexpunge(t) \/ FindNothingLocked(t) \/ CopyEntry(t)
    PROVE  UNCHANGED Abstract!vars
<1>1. CoreOK /\ MapInv
  BY DEF Inv, MapInv
<1>2. CASE FindReadLocked(t) \/ FindDirtyLocked(t)
  <2>1. Still
    BY <1>2, SameMaps DEF FindReadLocked, FindDirtyLocked
  <2> QED
    BY <1>1, <1>2, <2>1, FindLockedDoes, StillRefines DEF Found
<1>3. CASE Unexpunge(t)
  <2>1. th[t].pc = "unexpunge"
    BY <1>3 DEF Unexpunge
  <2> QED
    BY <1>1, <1>3, <2>1, UnexpungeEffect, StillRefines DEF Moved, SameCall
<1>4. CASE FindNothingLocked(t)
  <2>1. th[t].pc = "lock"
    BY <1>4 DEF FindNothingLocked
  <2> QED
    BY <1>1, <1>4, <2>1, FindNothingLockedEffect, StillRefines
<1>5. CASE CopyEntry(t)
  <2>1. th[t].pc = "copy"
    BY <1>5 DEF CopyEntry
  <2> QED
    BY <1>1, <1>5, <2>1, CopyEntryEffect, StillRefines
<1> QED
  BY <1>2, <1>3, <1>4, <1>5

LEMMA ReadFastRefines ==
    ASSUME Inv, CoreOK', Remember, NEW t \in Threads, ReadFast(t)
    PROVE  Abstract!Observe(t) \/ UNCHANGED Abstract!vars
<1> DEFINE k == th[t].key
<1>1. /\ CoreOK /\ MapInv /\ DirtyInv /\ SeenInv /\ Still /\ Effect(t) /\ Others(t) /\ th[t].pc = "read"
      /\ k \in Keys /\ k # None
  BY SameMaps, StepEffect, Fields DEF Inv, MapInv, ReadFast, Work, KeyPCs
<1>2. CASE Found(t, "fast", read.m[k]) \/ Moved(t, "lock")
  BY <1>1, <1>2, StillRefines DEF Found, Moved, SameCall
<1>3. CASE read.m[k] = None /\ ~read.amended /\ Ended(t, None) /\ th[t].op \in {"Load", "LoadAndDelete"}
  <2>1. Contents[k] = None
    BY <1>1, <1>3, ValueIs DEF Linked, EntryOf, DirtyInv
  <2>2. None \in seen[t]
    BY <1>1, <2>1 DEF SeenInv
  <2>3. CallOf(t).returns = {}
    BY <1>1, ReturnsIs DEF Unlinked
  <2>4. Contents' = Contents
    BY <1>1, ContentsAfter
  <2> QED
    BY <1>1, <1>3, <2>2, <2>3, <2>4, AbstractObserve
<1> QED
  BY <1>1, <1>2, <1>3, ReadFastDoes

LEMMA LoadEntryRefines ==
    ASSUME Inv, CoreOK', Remember, NEW t \in Threads, LoadEntry(t)
    PROVE  Abstract!Observe(t)
<1>1. /\ CoreOK /\ MapInv /\ SeenInv /\ Still /\ Effect(t) /\ Others(t)
      /\ th[t].pc \in {"fast", "entry"} /\ th[t].op = "Load"
  BY SameMaps, StepEffect DEF Inv, MapInv, LoadEntry, Work
<1>2. th[t].key # None /\ ValueOf(th[t].e) \in seen[t] /\ Ended(t, ValueOf(th[t].e))
  BY <1>1, KeyKnown, LoadEntryDoes DEF SeenInv
<1>3. CallOf(t).returns = {}
  BY <1>1, <1>2, ReturnsIs DEF Unlinked
<1>4. Contents' = Contents
  BY <1>1, ContentsAfter
<1> QED
  BY <1>1, <1>2, <1>3, <1>4, AbstractObserve

LEMMA DeleteEntryRefines ==
    ASSUME Inv, CoreOK', Remember, NEW t \in Threads, DeleteEntry(t)
    PROVE  Abstract!Change(t) \/ Abstract!Observe(t) \/ UNCHANGED Abstract!vars
<1> DEFINE k == th[t].key
           e == th[t].e
<1>1. /\ CoreOK /\ MapInv /\ OwnInv /\ SeenInv /\ Effect(t) /\ Others(t)
      /\ th[t].pc \in {"fast", "entry"} /\ th[t].op = "LoadAndDelete"
  BY StepEffect DEF Inv, MapInv, DeleteEntry, Work
<1>2. /\ k \in Keys /\ k # None /\ e \in Entries /\ e # None
      /\ th[t].pc \in EntryPCs /\ th[t].pc \in KeyPCs
  BY <1>1, KeyKnown
<1>3. ValueOf(e) \in seen[t] /\ Ended(t, ValueOf(e))
  BY <1>1, DeleteEntryDoes DEF SeenInv
<1>4. CASE Still /\ ValueOf(e) = None
  <2>1. CallOf(t).returns = {}
    BY <1>1, <1>2, <1>4, ReturnsIs
  <2>2. Contents' = Contents
    BY <1>1, <1>4, ContentsAfter
  <2> QED
    BY <1>1, <1>2, <1>3, <1>4, <2>1, <2>2, AbstractObserve
<1>5. CASE ValueOf(e) # None /\ Written(k, e, None)
  <2>1. EntryOf(k) = e /\ ~Unlinked(t)
    BY <1>5 DEF Written, Unlinked
  <2>2. Contents[k] = ValueOf(e)
    BY <1>1, <1>2, <2>1, ValueIs DEF Linked
  <2>3. Contents' = [Contents EXCEPT ![k] = None]
    BY <1>1, <1>2, <1>5, ContentsAfter DEF Values
  <2> QED
    BY <1>1, <1>2, <1>3, <1>5, <2>1, <2>2, <2>3, EndedChange
<1>6. CASE ValueOf(e) # None /\ Erased(k, e) /\ Deletes(t)
  <2>1. Unlinked(t)
    BY <1>6 DEF Erased, Deletes, Unlinked
  <2>2. \A x \in Keys : EntryOf(x) # e
    <3> SUFFICES ASSUME NEW x \in Keys, EntryOf(x) = e PROVE FALSE
      OBVIOUS
    <3>1. x = k
      BY <1>1, <1>2, OwnFacts DEF EntryOf
    <3> QED
      BY <1>6, <3>1 DEF Erased
  <2>3. Contents' = Contents
    BY <1>1, <1>2, <1>6, <2>2, ContentsAfter
  <2>4. CallOf(t) = [op |-> th[t].op, key |-> k, value |-> th[t].n, returns |-> {ValueOf(e)}]
    BY <1>1, <1>2, <1>6, <2>1, ReturnsIs, CallIs
  <2>5. /\ th'[t].key = k /\ th'[t].op = th[t].op /\ th'[t].n = th[t].n
        /\ th'[t].pc = "return" /\ th'[t].result = ValueOf(e)
    BY <1>3 DEF Ended, Moved, SameCall
  <2>6. CallOf(t)' = [op |-> th[t].op, key |-> k, value |-> th[t].n, returns |-> {ValueOf(e)}]
    BY <1>2, <2>5 DEF CallOf
  <2> QED
    BY <1>1, <2>3, <2>4, <2>5, <2>6, AbstractStutter
<1> QED
  BY <1>1, <1>4, <1>5, <1>6, DeleteEntryEffect

LEMMA StoreRefines ==
    ASSUME Inv, CoreOK', Remember, NEW t \in Threads, TryStore(t) \/ TryLoadOrStore(t)
    PROVE  Abstract!Change(t) \/ Abstract!Observe(t) \/ UNCHANGED Abstract!vars
<1> DEFINE k == th[t].key
           e == th[t].e
<1>1. /\ CoreOK /\ MapInv /\ SeenInv /\ Effect(t) /\ Others(t) /\ th[t].pc = "fast"
      /\ TryStore(t) => th[t].op = "Store"
      /\ TryLoadOrStore(t) => th[t].op = "LoadOrStore"
  BY StepEffect DEF Inv, MapInv, TryStore, TryLoadOrStore, Work
<1>2. /\ k \in Keys /\ k # None /\ e \in Entries /\ th[t].pc \in KeyPCs /\ ~Unlinked(t)
      /\ th[t].n \in Values /\ ValueOf(e) \in seen[t]
  BY <1>1, KeyKnown, FastFinds DEF Unlinked, Values, SeenInv
<1>3. CASE Still /\ Moved(t, "lock")
  BY <1>1, <1>3, StillRefines DEF Moved, SameCall
<1>4. CASE /\ Written(k, e, th[t].n) /\ Ended(t, th[t].n)
           /\ TryStore(t) \/ (TryLoadOrStore(t) /\ Contents[k] = None)
  <2>1. Contents' = [Contents EXCEPT ![k] = th[t].n]
    BY <1>1, <1>2, <1>4, ContentsAfter
  <2> QED
    BY <1>1, <1>2, <1>4, <2>1, EndedChange
<1>5. CASE TryLoadOrStore(t) /\ Still /\ ValueOf(e) # None /\ Ended(t, ValueOf(e))
  <2>1. CallOf(t).returns = {} /\ Contents' = Contents
    BY <1>1, <1>2, <1>5, ReturnsIs, ContentsAfter
  <2> QED
    BY <1>1, <1>2, <1>5, <2>1, AbstractObserve
<1> QED
  BY <1>1, <1>3, <1>4, <1>5, TryStoreEffect, TryLoadOrStoreEffect

LEMMA LookLockedRefines ==
    ASSUME Inv, CoreOK', Remember, NEW t \in Threads, LookLocked(t)
    PROVE  Abstract!Change(t) \/ Abstract!Observe(t) \/ UNCHANGED Abstract!vars
<1> DEFINE k == th[t].key
<1>1. /\ CoreOK /\ MapInv /\ SeenInv /\ Effect(t) /\ Others(t) /\ th[t].pc = "lock"
      /\ th[t].op \in {"Load", "LoadAndDelete"} /\ k \in Keys /\ k # None
  BY StepEffect, Fields DEF Inv, MapInv, LookLocked, Work, KeyPCs
<1>2. CallOf(t).returns = {} /\ Contents[k] \in seen[t]
  BY <1>1, ReturnsIs DEF Unlinked, SeenInv
<1>3. CASE ~Linked(k) /\ Ended(t, None) /\ Still
  <2>1. Contents[k] = None /\ Contents' = Contents
    BY <1>1, <1>3, ValueIs, ContentsAfter
  <2> QED
    BY <1>1, <1>2, <1>3, <2>1, AbstractObserve
<1>4. CASE Linked(k) /\ th'[t].pc = "entry" /\ th'[t].e = EntryOf(k)
  <2> DEFINE e == EntryOf(k)
  <2>1. th'[t].op = th[t].op /\ th'[t].key = k /\ th'[t].n = th[t].n
    BY <1>1, LookLockedEffect
  <2>2. e \in Entries /\ Contents[k] = ValueOf(e)
    BY <1>1, <1>4, ValueIs, ValuesOK DEF Linked
  <2>3. CallOf(t) = [op |-> th[t].op, key |-> k, value |-> th[t].n, returns |-> {}]
    BY <1>1, <1>2, CallIs
  <2>4. CallOf(t)' = [op |-> th[t].op, key |-> k, value |-> th[t].n,
                      returns |-> IF th[t].op = "LoadAndDelete" /\ EntryThen(k) # e /\ ValueThen(e) # None
                                  THEN {ValueThen(e)} ELSE {}]
    BY <1>4, <2>1, ReturnsThen
  <2>5. CASE Still
    <3>1. EntryThen(k) = e \/ ValueThen(e) = None
      BY <1>1, <2>2, <2>5 DEF Still, Kept, Same, ValueOf
    <3>2. CallOf(t)' = CallOf(t)
      BY <2>3, <2>4, <3>1
    <3>3. Contents' = Contents
      BY <1>1, <2>5, ContentsAfter
    <3> QED
      BY <1>1, <2>1, <3>2, <3>3, AbstractStutter
  <2>6. CASE th[t].op = "LoadAndDelete" /\ Taken(k)
    <3>1. EntryThen(k) = None /\ e # None /\ ValueThen(e) = Contents[k]
      BY <1>4, <2>2, <2>6 DEF Taken, Same, Linked
    <3>2. Contents' = [Contents EXCEPT ![k] = None]
      BY <1>1, <2>6, ContentsAfter
    <3>3. CASE Contents[k] = None
      <4>1. Contents' = Contents
        BY <1>1, <3>2, <3>3, ValuesOK
      <4>2. CallOf(t)' = CallOf(t)
        BY <2>3, <2>4, <3>1, <3>3
      <4> QED
        BY <1>1, <2>1, <4>1, <4>2, AbstractStutter
    <3>4. CASE Contents[k] # None
      <4>1. CallOf(t)' = [op |-> th[t].op, key |-> k, value |-> th[t].n, returns |-> {Contents[k]}]
        BY <2>4, <2>6, <3>1, <3>4
      <4>2. CallOf(t)' = [CallOf(t) EXCEPT !.returns = {Contents[k]}]
        BY <2>3, <4>1
      <4> QED
        BY <1>1, <1>2, <2>1, <2>6, <3>2, <3>4, <4>2, AbstractChange
    <3> QED
      BY <3>3, <3>4
  <2> QED
    BY <1>1, <2>5, <2>6, LookLockedEffect
<1> QED
  BY <1>1, <1>3, <1>4, LookLockedEffect

LEMMA StoreLockedRefines ==
    ASSUME Inv, CoreOK', Remember, NEW t \in Threads, StoreLocked(t)
    PROVE  Abstract!Change(t) \/ Abstract!Observe(t)
<1> DEFINE k == th[t].key
           e == th[t].e
<1>1. /\ CoreOK /\ MapInv /\ SeenInv /\ Effect(t) /\ Others(t) /\ th[t].pc = "store"
  BY StepEffect DEF Inv, MapInv, StoreLocked, Work
<1>2. /\ k \in Keys /\ k # None /\ e \in Entries /\ th[t].pc \in KeyPCs /\ ~Unlinked(t)
      /\ th[t].n \in Values
  BY <1>1, Fields DEF Unlinked, Values, KeyPCs, EntryPCs
<1>3. CASE /\ th[t].op = "Store" \/ (th[t].op = "LoadOrStore" /\ Contents[k] = None)
           /\ Written(k, e, th[t].n) /\ Ended(t, th[t].n)
  <2>1. Contents' = [Contents EXCEPT ![k] = th[t].n]
    BY <1>1, <1>2, <1>3, ContentsAfter
  <2> QED
    BY <1>1, <1>2, <1>3, <2>1, EndedChange
<1>4. CASE th[t].op = "LoadOrStore" /\ Contents[k] # None /\ Still /\ Ended(t, Contents[k])
  <2>1. CallOf(t).returns = {} /\ Contents' = Contents /\ Contents[k] \in seen[t]
    BY <1>1, <1>2, <1>4, ReturnsIs, ContentsAfter DEF SeenInv
  <2> QED
    BY <1>1, <1>2, <1>4, <2>1, AbstractObserve
<1> QED
  BY <1>1, <1>3, <1>4, StoreLockedEffect

LEMMA InsertRefines ==
    ASSUME Inv, CoreOK', Remember, NEW t \in Threads, Insert(t)
    PROVE  Abstract!Change(t)
<1> DEFINE k == th[t].key
           n == th[t].n
<1>1. /\ CoreOK /\ MapInv /\ Effect(t) /\ Others(t) /\ k \in Keys /\ n \in Entries
      /\ th[t].pc \in {"insert", "copy"}
      /\ read.m[k] = None /\ dirty.m[k] = None
      /\ \A x \in Keys : read.m[x] # n /\ dirty.m[x] # n
  BY StepEffect, InsertFacts DEF Inv, MapInv, Work
<1>2. th[t].pc \in KeyPCs /\ ~Unlinked(t) /\ th[t].op \in {"Store", "LoadOrStore"}
  BY <1>1, Fields DEF Unlinked, KeyPCs, ThreadOK, LockPCs
<1>3. Contents[k] = None
  BY <1>1, ValueIs DEF Linked, EntryOf
<1>4. Contents' = [Contents EXCEPT ![k] = n] /\ Ended(t, n)
  BY <1>1, ContentsAfter, InsertEffect DEF EntryOf
<1> QED
  BY <1>1, <1>2, <1>3, <1>4, EndedChange

LEMMA RangeRefines ==
    ASSUME Inv, CoreOK', Remember, NEW t \in Threads,
           StartRange(t) \/ Promote(t) \/ WalkEntry(t) \/ FinishRange(t) \/ Return(t)
    PROVE  Abstract!Return(t) \/ UNCHANGED Abstract!vars
<1>1. CoreOK /\ MapInv /\ Effect(t) /\ Others(t) /\ ThreadOK(th[t])
  BY StepEffect, Fields DEF Inv, MapInv, Work
<1>2. Contents' = Contents
  <2>1. Still
    BY <1>1, SameMaps, PromoteEffect DEF StartRange, WalkEntry, FinishRange, Return
  <2> QED
    BY <1>1, <2>1, ContentsAfter
<1>3. CASE th[t].pc \in {"range", "promote", "walk"}
  <2>1. th[t].key = None
    BY <1>1, <1>3 DEF ThreadOK, RangePCs
  <2>2. th'[t].key = th[t].key
    BY <1>1, <1>3, StartRangeDoes, PromoteDoes, WalkEntryDoes, FinishRangeDoes
       DEF WalkOf, Moved, SameCall, Return
  <2>3. CallOf(t)' = CallOf(t)
    BY <2>1, <2>2 DEF CallOf
  <2> QED
    BY <1>1, <1>2, <2>2, <2>3, AbstractStutter
<1>4. CASE Return(t)
  <2>1. th'[t] = Idle /\ th'[t].key = None /\ th[t].pc = "return"
    <3>1. th'[t] = Idle /\ th[t].pc = "return"
      BY <1>1, <1>4, ReturnDoes DEF Return
    <3>2. Idle.key = None
      BY DEF Idle
    <3> QED
      BY <3>1, <3>2
  <2>2. CASE th[t].key = None
    <3>1. CallOf(t)' = CallOf(t)
      BY <2>1, <2>2 DEF CallOf
    <3> QED
      BY <1>1, <1>2, <2>1, <2>2, <3>1, AbstractStutter
  <2>3. CASE th[t].key # None
    BY <1>1, <1>2, <2>1, <2>3, AbstractReturn
  <2> QED
    BY <2>2, <2>3
<1> QED
  BY <1>3, <1>4 DEF StartRange, Promote, WalkEntry, FinishRange

(* sync.Map is linearizable: each Load, Store, LoadOrStore and             *)
(* LoadAndDelete (map.go:110-319) takes effect at one moment between its   *)
(* call and its return, for any number of threads, of keys and of calls.   *)
THEOREM MapIsLinearizable == Spec => ImplementsMap
<1>1. Init => Abstract!Init
  <2> SUFFICES ASSUME Init PROVE Abstract!Init
    OBVIOUS
  <2>1. CoreOK
    BY InitMap DEF MapInv
  <2>2. \A k \in Keys : Contents[k] = None
    BY <2>1, ValueIs, EmptyMap DEF Init, NoDirty, Linked, EntryOf
  <2>3. Contents = [k \in Keys |-> None]
    BY <2>2 DEF Contents
  <2>4. \A t \in Threads : CallOf(t) = Abstract!NoCall
    BY <2>1, CallIs DEF Init, Idle
  <2> QED
    BY <2>3, <2>4 DEF Init, Abstract!Init
<1>2. Inv /\ Inv' /\ [Next]_vars => [Abstract!Next]_Abstract!vars
  <2> SUFFICES ASSUME Inv, Inv', [Next]_vars PROVE Abstract!Next \/ UNCHANGED Abstract!vars
    OBVIOUS
  <2>1. CASE Next
    <3>1. PICK t \in Threads : Call(t) \/ Work(t)
      BY <2>1 DEF Next
    <3>2. Remember /\ CoreOK'
      BY <2>1 DEF Next, Inv, MapInv
    <3>3. Abstract!Invoke(t) \/ Abstract!Change(t) \/ Abstract!Observe(t) \/ Abstract!Return(t)
            \/ UNCHANGED Abstract!vars
      BY <3>1, <3>2, CallRefines, ReadFastRefines, LoadEntryRefines, DeleteEntryRefines, StoreRefines,
         LookLockedRefines, LockedRefines, StoreLockedRefines, InsertRefines, RangeRefines DEF Work
    <3> QED
      BY <3>3 DEF Abstract!Next
  <2>2. CASE UNCHANGED vars
    BY <2>2 DEF vars, Abstract!vars, Contents, CallOf, Unlinked, Value, EntryOf
  <2> QED
    BY <2>1, <2>2
<1> QED
  BY <1>1, <1>2, InvHolds, PTL DEF Spec, ImplementsMap, Abstract!Spec
=============================================================================
