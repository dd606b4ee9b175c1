---------------------------- MODULE ConcurrentMap ----------------------------
(***************************************************************************)
(* What the concurrent maps of the program promise to those who call Load, *)
(* Store, LoadOrStore and LoadAndDelete: a call that changes the map does  *)
(* so at one moment between its beginning and its return, and returns what *)
(* it changed; a call that changes nothing returns what its key had at a   *)
(* moment between its beginning and its return.                            *)
(***************************************************************************)
CONSTANTS Keys, Threads, Values, Absent, Ops

VARIABLES
    map,     \* key -> value
    call,    \* thread -> its call: what it is, what it returns
    seen     \* thread -> the values its key had since the call began

vars == <<map, call, seen>>

NoCall  == [op |-> "none"]
Pending == {t \in Threads : call[t] # NoCall}

Init == /\ map = [k \in Keys |-> Absent]
        /\ call = [t \in Threads |-> NoCall]
        /\ seen = [t \in Threads |-> {}]

Invoke(t) ==
    /\ call[t] = NoCall
    /\ \E op \in Ops, k \in Keys, v \in Values :
         /\ call' = [call EXCEPT ![t] = [op |-> op, key |-> k, value |-> v, returns |-> {}]]
         /\ seen' = [seen EXCEPT ![t] = {map[k]}]
    /\ UNCHANGED map

(* The moment of a call that changes the map: the other calls for its key  *)
(* can see the change.                                                     *)
Becomes(t, v, result) ==
    LET k == call[t].key
    IN  /\ map' = [map EXCEPT ![k] = v]
        /\ call' = [call EXCEPT ![t].returns = {result}]
        /\ seen' = [u \in Threads |-> IF u \in Pending /\ call[u].key = k THEN seen[u] \cup {v}
                                                                         ELSE seen[u]]

Change(t) ==
    /\ t \in Pending /\ call[t].returns = {}
    /\ LET old == map[call[t].key]
           new == call[t].value
       IN  \/ call[t].op = "Store" /\ Becomes(t, new, new)
           \/ call[t].op = "LoadOrStore" /\ old = Absent /\ Becomes(t, new, new)
           \/ call[t].op = "LoadAndDelete" /\ old # Absent /\ Becomes(t, Absent, old)

(* A call that leaves the map alone.                                       *)
Observe(t) ==
    /\ t \in Pending /\ call[t].returns = {}
    /\ \E v \in seen[t] :
         /\ \/ call[t].op = "Load"
            \/ call[t].op = "LoadOrStore" /\ v # Absent
            \/ call[t].op = "LoadAndDelete" /\ v = Absent
         /\ call' = [call EXCEPT ![t].returns = {v}]
    /\ UNCHANGED <<map, seen>>

Return(t) ==
    /\ t \in Pending /\ call[t].returns # {}
    /\ call' = [call EXCEPT ![t] = NoCall]
    /\ seen' = [seen EXCEPT ![t] = {}]
    /\ UNCHANGED map

Next == \E t \in Threads : Invoke(t) \/ Change(t) \/ Observe(t) \/ Return(t)

Spec == Init /\ [][Next]_vars
=============================================================================
