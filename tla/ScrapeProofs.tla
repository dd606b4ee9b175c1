---------------------------- MODULE ScrapeProofs ----------------------------
(***************************************************************************)
(* Proofs about Scrape, for any number of requests, processes and          *)
(* connections and any room in the channel.                                *)
(***************************************************************************)
EXTENDS Scrape, FiniteSetTheorems, SequenceTheorems, TLAPS

Walking == {"processes", "connections"}

(* Whoever walks the tables holds mu, and closes its channel later.        *)
LockInv ==
    /\ DOMAIN req = Requests
    /\ \A r \in Requests :
         /\ {"pc", "gather", "closed"} \subseteq DOMAIN req[r]
         /\ req[r].closed \in BOOLEAN
         /\ req[r].gather \in Walking => mu = r
         /\ req[r].closed => req[r].gather = "done"
         /\ req[r].pc = "new" => req[r].gather = "off"

LEMMA LockInvInit == Init => LockInv
<1> SUFFICES ASSUME Init PROVE LockInv
  OBVIOUS
<1>1. DOMAIN req = Requests /\ mu = Free
  BY DEF Init
<1>2. ASSUME NEW r \in Requests PROVE req[r] = Fresh
  BY DEF Init
<1>3. {"pc", "gather", "closed"} \subseteq DOMAIN Fresh
  BY DEF Fresh
<1>4. Fresh.gather = "off" /\ Fresh.closed = FALSE /\ Fresh.pc = "new"
  BY DEF Fresh
<1> QED
  BY <1>1, <1>2, <1>3, <1>4 DEF LockInv, Walking

(* A step of one request changes the others only through mu, and a change  *)
(* of the tables changes none.                                             *)
LEMMA LockInvStep == LockInv /\ [Next]_vars => LockInv'
<1> SUFFICES ASSUME LockInv, [Next]_vars PROVE LockInv'
  OBVIOUS
<1> USE DEF LockInv, Walking
<1>1. CASE Engine
  <2>1. PICK s, c : Change(s, c)
    BY <1>1 DEF Engine, AddProcess, RemoveProcess, ChangeConnection
  <2>2. DOMAIN req' = Requests /\ mu' = mu
    BY <2>1 DEF Change
  <2>3. ASSUME NEW r \in Requests
        PROVE  req'[r] = [req[r] EXCEPT !.always = {p \in @ : s[p] = "present"}]
    BY <2>1 DEF Change
  <2> QED
    BY <2>2, <2>3
<1>2. ASSUME NEW r \in Requests, Refuse(r) PROVE LockInv'
  BY <1>2 DEF Refuse
<1>3. ASSUME NEW r \in Requests, Collect(r) PROVE LockInv'
  BY <1>3 DEF Collect
<1>4. ASSUME NEW r \in Requests, Gather(r) PROVE LockInv'
  <2>1. CASE StartGather(r)
    BY <2>1, ScrapeAssumption DEF StartGather
  <2>2. CASE PassProcess(r)
    BY <2>2 DEF PassProcess
  <2>3. CASE GatherProcess(r)
    BY <2>3 DEF GatherProcess
  <2>4. CASE GatherConnection(r)
    BY <2>4 DEF GatherConnection
  <2>5. CASE NextProcess(r)
    BY <2>5 DEF NextProcess
  <2>6. CASE EndGather(r)
    BY <2>6 DEF EndGather
  <2> QED
    BY <1>4, <2>1, <2>2, <2>3, <2>4, <2>5, <2>6 DEF Gather
<1>5. ASSUME NEW r \in Requests, Close(r) PROVE LockInv'
  BY <1>5 DEF Close
<1>6. ASSUME NEW r \in Requests, Emit(r) \/ Answer(r) PROVE LockInv'
  <2>1. CASE Emit(r)
    BY <2>1 DEF Emit
  <2>2. CASE Answer(r)
    BY <2>2 DEF Answer
  <2> QED
    BY <1>6, <2>1, <2>2
<1>7. CASE UNCHANGED vars
  BY <1>7 DEF vars
<1> QED
  BY <1>1, <1>2, <1>3, <1>4, <1>5, <1>6, <1>7 DEF Next

(* One goroutine walks the tables at a time, and nobody sends to a channel *)
(* that was closed (Gather in src/web/prom/pb_puller.go, Collect in        *)
(* puller.go).                                                             *)
THEOREM OneGathersAtATime == Spec => []GathersAlone
<1>1. LockInv => GathersAlone
  BY DEF LockInv, GathersAlone, Walking
<1> QED
  BY <1>1, LockInvInit, LockInvStep, PTL DEF Spec
-----------------------------------------------------------------------------
(* What a request has gathered.  Each process that is to be answered is    *)
(* still to be visited, or in the channel, or has been emitted: it is in   *)
(* one of these places alone, since a walk visits it once.                 *)

Lines == [name : {m.name : m \in Metrics}, labels : Processes \cup Sockets, field : Fields]

Reqs == [pc : {"new", "refused", "collect"} \cup Ended,
         gather : {"off", "lock"} \cup Walking \cup {"done"},
         closed : BOOLEAN, generalCh : Seq(Metrics), out : Seq(Lines),
         procs : SUBSET Processes, p : Processes \cup {None}, fds : SUBSET FDs,
         always : SUBSET Processes]

TypeInv ==
    /\ state \in [Processes -> {"new", "present", "gone"}]
    /\ connections \in [Processes -> [FDs -> Sockets \cup {NoSocket}]]
    /\ changes \in 0 .. MaxChanges
    /\ mu \in Requests \cup {Free}
    /\ req \in [Requests -> Reqs]

IsOf(m, p)    == m.name = "process_bandwidth" /\ m.labels = p
Waiting(q, p) == {i \in DOMAIN q.generalCh : IsOf(q.generalCh[i], p)}
Emitted(q, p) == {i \in DOMAIN q.out : IsOf(q.out[i], p)}

ProcessInv(q, p) ==
    /\ \A i, j \in Waiting(q, p) : i = j
    /\ Emitted(q, p) = {} \/ Cardinality(Emitted(q, p)) = 2
    /\ Waiting(q, p) = {} \/ Emitted(q, p) = {}
    /\ p \in q.procs => Waiting(q, p) = {} /\ Emitted(q, p) = {}
    /\ p \in q.always \ q.procs => Waiting(q, p) # {} \/ Emitted(q, p) # {}

RequestInv(q) ==
    /\ Len(q.generalCh) <= GeneralSize
    /\ q.gather \in {"off", "lock"} => q.generalCh = <<>> /\ q.out = <<>> /\ q.always = {}
    /\ q.gather = "connections" => q.p \in Processes
    /\ q.gather = "done" => q.procs = {}
    /\ q.pc \in Ended => q.closed /\ q.generalCh = <<>>
    /\ \A p \in Processes : ProcessInv(q, p)

IInv ==
    /\ TypeInv /\ LockInv
    /\ \A r \in Requests : RequestInv(req[r]) /\ req[r].always \subseteq Present

-----------------------------------------------------------------------------
(* A metric is converted to one line for each of its two fields.           *)
LEMMA ConvertFacts ==
    ASSUME NEW m \in Metrics
    PROVE  /\ Convert(m) \in Seq(Lines) /\ Len(Convert(m)) = 2
           /\ \A i \in 1 .. 2 : Convert(m)[i].name = m.name /\ Convert(m)[i].labels = m.labels
<1> DEFINE L(f) == [name |-> m.name, labels |-> m.labels, field |-> f]
           S    == [name : {m.name}, labels : {m.labels}, field : Fields]
<1>1. m.labels \in Processes \cup Sockets
  BY DEF Metrics
<1>2. S \subseteq Lines
  BY <1>1 DEF Lines
<1>3. S = {L("in"), L("out")} /\ L("in") # L("out")
  <2>1. ASSUME NEW x \in S PROVE x = L("in") \/ x = L("out")
    BY DEF Fields
  <2>2. L("in") \in S /\ L("out") \in S
    BY DEF Fields
  <2>3. L("in").field = "in" /\ L("out").field = "out"
    OBVIOUS
  <2> QED
    BY <2>1, <2>2, <2>3
<1>4. Cardinality(S) = 2
  <2>1. IsFiniteSet({}) /\ Cardinality({}) = 0
    BY FS_EmptySet
  <2>2. IsFiniteSet({L("in")}) /\ Cardinality({L("in")}) = 1
    BY FS_Singleton
  <2>3. Cardinality({L("in")} \cup {L("out")}) = 2
    <3> HIDE DEF L
    <3>1. L("out") \notin {L("in")}
      BY <1>3
    <3> QED
      BY <2>2, <3>1, FS_AddElement
  <2>4. S = {L("in")} \cup {L("out")}
    BY <1>3
  <2> QED
    BY <2>3, <2>4
<1>5. \E f \in [1 .. 2 -> S] : IsInjective(f)
  <2> DEFINE g == [i \in 1 .. 2 |-> IF i = 1 THEN L("in") ELSE L("out")]
  <2>1. g \in [1 .. 2 -> S]
    BY <1>3
  <2>2. IsInjective(g)
    BY <1>3 DEF IsInjective
  <2> QED
    BY <2>1, <2>2
<1>6. Convert(m) \in [1 .. 2 -> S]
  <2>1. Convert(m) = CHOOSE f \in [1 .. 2 -> S] : IsInjective(f)
    BY <1>4 DEF Convert, SetToSeq
  <2> QED
    BY <1>5, <2>1
<1>7. Convert(m) \in [1 .. 2 -> Lines]
  BY <1>2, <1>6
<1>8. Convert(m) \in Seq(Lines) /\ Len(Convert(m)) = 2
  <2>1. Convert(m) \in Seq(Lines)
    BY <1>7, SeqDef
  <2> QED
    BY <1>7, <2>1, LenProperties
<1>9. \A i \in 1 .. 2 : Convert(m)[i] \in S
  BY <1>6
<1> QED
  BY <1>8, <1>9

(* A step of one request changes that one.                                 *)
LEMMA OneRequest ==
    ASSUME IInv, LockInv', NEW r \in Requests, NEW q \in Reqs, req' = [req EXCEPT ![r] = q],
           UNCHANGED tables, mu' \in Requests \cup {Free},
           RequestInv(q), q.always \subseteq Present
    PROVE  IInv'
<1>1. TypeInv'
  BY DEF IInv, TypeInv, tables
<1>2. ASSUME NEW s \in Requests PROVE RequestInv(req'[s]) /\ req'[s].always \subseteq Present
  BY DEF IInv, TypeInv
<1>3. Present' = Present
  BY DEF Present, tables
<1> QED
  BY <1>1, <1>2, <1>3 DEF IInv

LEMMA IInvInit == Init => IInv
<1> SUFFICES ASSUME Init PROVE IInv
  OBVIOUS
<1>1. LockInv
  BY LockInvInit
<1>2. Fresh \in Reqs
  BY DEF Fresh, Reqs
<1>3. TypeInv
  BY <1>2, ScrapeAssumption DEF Init, TypeInv
<1>4. Fresh.generalCh = <<>> /\ Fresh.out = <<>> /\ Fresh.always = {} /\ Fresh.procs = {}
      /\ Fresh.gather = "off" /\ Fresh.pc = "new"
  BY DEF Fresh
<1>5. \A p \in Processes : Waiting(Fresh, p) = {} /\ Emitted(Fresh, p) = {}
  BY <1>4 DEF Waiting, Emitted
<1>6. RequestInv(Fresh)
  BY <1>4, <1>5, ScrapeAssumption DEF RequestInv, ProcessInv, Ended
<1> QED
  BY <1>1, <1>3, <1>4, <1>6 DEF IInv, Init

(* A process that has left the tables need not be answered any more.       *)
LEMMA ChangeOK ==
    ASSUME IInv, LockInv', NEW s \in [Processes -> {"new", "present", "gone"}],
           NEW c \in [Processes -> [FDs -> Sockets \cup {NoSocket}]], Change(s, c)
    PROVE  IInv'
<1>1. /\ TypeInv /\ state' = s /\ connections' = c /\ mu' = mu /\ changes' = changes + 1
      /\ changes < MaxChanges
  BY DEF Change, IInv
<1>2. ASSUME NEW r \in Requests
      PROVE  /\ req'[r] \in Reqs /\ RequestInv(req'[r])
             /\ req'[r].always \subseteq Present'
  <2> DEFINE q == req[r]
             n == [q EXCEPT !.always = {p \in q.always : s[p] = "present"}]
  <2>1. req'[r] = n /\ q \in Reqs
    BY <1>1 DEF Change, TypeInv
  <2>2. n \in Reqs
    BY <2>1 DEF Reqs
  <2>3. /\ n.pc = q.pc /\ n.gather = q.gather /\ n.closed = q.closed /\ n.generalCh = q.generalCh
        /\ n.out = q.out /\ n.procs = q.procs /\ n.p = q.p
        /\ n.always = {p \in q.always : s[p] = "present"}
    BY <2>1 DEF Reqs
  <2>4. RequestInv(q)
    BY DEF IInv
  <2> HIDE DEF n
  <2>5. \A p \in Processes : Waiting(n, p) = Waiting(q, p) /\ Emitted(n, p) = Emitted(q, p)
    BY <2>3 DEF Waiting, Emitted
  <2>6. RequestInv(n)
    BY <2>3, <2>4, <2>5 DEF RequestInv, ProcessInv
  <2>7. n.always \subseteq Present'
    BY <1>1, <2>1, <2>2, <2>3 DEF Present, Reqs
  <2> QED
    BY <2>1, <2>2, <2>6, <2>7
<1>3. req' \in [Requests -> Reqs]
  BY <1>2 DEF Change
<1>4. changes' \in 0 .. MaxChanges
  BY <1>1, ScrapeAssumption DEF TypeInv
<1> QED
  BY <1>1, <1>2, <1>3, <1>4 DEF IInv, TypeInv

LEMMA SameLines ==
    ASSUME NEW q, NEW n, n.generalCh = q.generalCh, n.out = q.out
    PROVE  \A p \in Processes : Waiting(n, p) = Waiting(q, p) /\ Emitted(n, p) = Emitted(q, p)
  BY DEF Waiting, Emitted

(* A process that is visited now was neither in the channel nor emitted.   *)
LEMMA Sending ==
    ASSUME NEW q \in Reqs, NEW m \in Metrics, NEW n, n.generalCh = Append(q.generalCh, m)
    PROVE  /\ n.generalCh \in Seq(Metrics) /\ Len(n.generalCh) = Len(q.generalCh) + 1
           /\ \A p \in Processes :
                Waiting(n, p) = Waiting(q, p)
                                  \cup (IF IsOf(m, p) THEN {Len(q.generalCh) + 1} ELSE {})
<1> DEFINE s == q.generalCh
           t == n.generalCh
<1>1. s \in Seq(Metrics)
  BY DEF Reqs
<1>2. t \in Seq(Metrics) /\ Len(t) = Len(s) + 1 /\ Len(s) \in Nat
  BY <1>1, AppendProperties, LenProperties
<1>3. DOMAIN t = 1 .. Len(s) + 1 /\ DOMAIN s = 1 .. Len(s)
  BY <1>1, <1>2, LenProperties
<1>4. t[Len(s) + 1] = m /\ \A i \in 1 .. Len(s) : t[i] = s[i]
  BY <1>1, AppendProperties
<1> HIDE DEF s, t
<1>5. ASSUME NEW p \in Processes
      PROVE  {i \in DOMAIN t : IsOf(t[i], p)} =
               {i \in DOMAIN s : IsOf(s[i], p)} \cup (IF IsOf(m, p) THEN {Len(s) + 1} ELSE {})
  <2>1. \A i \in 1 .. Len(s) + 1 : i \in 1 .. Len(s) \/ i = Len(s) + 1
    BY <1>2
  <2>2. 1 .. Len(s) \subseteq 1 .. Len(s) + 1 /\ Len(s) + 1 \in 1 .. Len(s) + 1
        /\ Len(s) + 1 \notin 1 .. Len(s)
    BY <1>2
  <2> HIDE DEF IsOf
  <2> QED
    BY <1>3, <1>4, <2>1, <2>2
<1> QED
  BY <1>2, <1>5 DEF s, t, Waiting

(* What is taken from the channel is emitted, twice.                       *)
LEMMA Emitting ==
    ASSUME NEW q \in Reqs, NEW n, q.generalCh # <<>>, n.generalCh = Tail(q.generalCh),
           n.out = q.out \o Convert(Head(q.generalCh)), NEW p \in Processes, ProcessInv(q, p),
           n.procs = q.procs, n.always = q.always
    PROVE  ProcessInv(n, p)
<1> DEFINE s == q.generalCh
           t == n.generalCh
           m == Head(s)
           o == q.out
           u == n.out
           k == Len(o)
<1>1. s \in Seq(Metrics) /\ o \in Seq(Lines)
  BY DEF Reqs
<1>2. /\ m = s[1] /\ m \in Metrics /\ 1 \in DOMAIN s
      /\ \A i \in DOMAIN t : t[i] = s[i + 1] /\ i + 1 \in DOMAIN s /\ i + 1 # 1
      /\ \A i \in DOMAIN s : i = 1 \/ (i - 1 \in DOMAIN t /\ t[i - 1] = s[i])
  <2>1. Len(s) \in Nat \ {0} /\ DOMAIN s = 1 .. Len(s)
    BY <1>1, EmptySeq, LenProperties
  <2>2. 1 \in DOMAIN s /\ m = s[1] /\ m \in Metrics
    BY <1>1, <2>1, ElementOfSeq
  <2>3. /\ t \in Seq(Metrics) /\ Len(t) = Len(s) - 1
        /\ \A i \in 1 .. Len(t) : t[i] = s[i + 1]
    BY <1>1, HeadTailProperties
  <2>4. DOMAIN t = 1 .. Len(s) - 1
    BY <2>3, LenProperties
  <2>5. \A i \in DOMAIN t : t[i] = s[i + 1] /\ i + 1 \in DOMAIN s /\ i + 1 # 1
    BY <2>1, <2>3, <2>4
  <2>6. ASSUME NEW i \in DOMAIN s, i # 1
        PROVE  i - 1 \in DOMAIN t /\ t[i - 1] = s[i]
    <3>1. i - 1 \in DOMAIN t /\ (i - 1) + 1 = i
      BY <2>1, <2>4, <2>6
    <3> QED
      BY <2>5, <3>1
  <2> QED
    BY <2>2, <2>5, <2>6
<1>3. /\ k \in Nat /\ DOMAIN o = 1 .. k /\ DOMAIN u = 1 .. k + 2
      /\ \A i \in 1 .. k : u[i] = o[i]
      /\ \A i \in {k + 1, k + 2} : u[i].name = m.name /\ u[i].labels = m.labels
  <2>1. k \in Nat /\ DOMAIN o = 1 .. k
    BY <1>1, LenProperties
  <2>2. /\ Convert(m) \in Seq(Lines) /\ Len(Convert(m)) = 2
        /\ \A i \in 1 .. 2 : Convert(m)[i].name = m.name /\ Convert(m)[i].labels = m.labels
    BY <1>2, ConvertFacts
  <2> DEFINE w == Convert(m)
  <2>3. u = o \o w /\ w \in Seq(Lines) /\ Len(w) = 2
    BY <2>2
  <2> HIDE DEF u, o, w
  <2>4. /\ u \in Seq(Lines) /\ Len(u) = k + 2
        /\ \A i \in 1 .. k + 2 : u[i] = IF i <= k THEN o[i] ELSE w[i - k]
    <3>1. /\ o \o w \in Seq(Lines) /\ Len(o \o w) = Len(o) + Len(w)
          /\ \A i \in 1 .. Len(o) + Len(w) : (o \o w)[i] = IF i <= Len(o) THEN o[i] ELSE w[i - Len(o)]
      BY <1>1, <2>3, ConcatProperties
    <3> QED
      BY <2>3, <3>1
  <2>5. DOMAIN u = 1 .. k + 2
    BY <2>4, LenProperties
  <2> HIDE DEF k
  <2>6. u[k + 1] = w[1] /\ u[k + 2] = w[2]
    <3>1. /\ k + 1 \in 1 .. k + 2 /\ ~(k + 1 <= k) /\ (k + 1) - k = 1
          /\ k + 2 \in 1 .. k + 2 /\ ~(k + 2 <= k) /\ (k + 2) - k = 2
      BY <2>1
    <3> QED
      BY <2>4, <3>1
  <2>7. \A i \in 1 .. k : u[i] = o[i]
    BY <2>1, <2>4
  <2> QED
    BY <2>1, <2>2, <2>5, <2>6, <2>7 DEF w
<1> HIDE DEF s, t, m, o, u, k
<1>4. /\ Waiting(q, p) = {i \in DOMAIN s : IsOf(s[i], p)}
      /\ Waiting(n, p) = {i \in DOMAIN t : IsOf(t[i], p)}
      /\ Emitted(q, p) = {i \in DOMAIN o : IsOf(o[i], p)}
      /\ Emitted(n, p) = {i \in DOMAIN u : IsOf(u[i], p)}
  BY DEF Waiting, Emitted, s, t, o, u
<1>5. \A i \in 1 .. k + 2 : i \in 1 .. k \/ i \in {k + 1, k + 2}
  BY <1>3
<1>6. 1 .. k \subseteq 1 .. k + 2 /\ {k + 1, k + 2} \subseteq 1 .. k + 2
      /\ k + 1 # k + 2
  BY <1>3
<1>7. \A i \in {k + 1, k + 2} : IsOf(u[i], p) <=> IsOf(m, p)
  BY <1>3 DEF IsOf
<1>8. \A i \in 1 .. k : IsOf(u[i], p) <=> IsOf(o[i], p)
  BY <1>3
<1>9. \A i \in Waiting(n, p) : i + 1 \in Waiting(q, p) /\ i + 1 # 1 /\ i \in Int
  <2>1. DOMAIN t \subseteq Int
    BY <1>1, HeadTailProperties, LenProperties DEF s, t
  <2> QED
    BY <1>2, <1>4, <2>1
<1>10. \A i \in Waiting(q, p) : i = 1 \/ i - 1 \in Waiting(n, p)
  BY <1>2, <1>4
<1>11. CASE IsOf(m, p)
  <2>1. 1 \in Waiting(q, p)
    BY <1>2, <1>4, <1>11
  <2>2. Waiting(n, p) = {}
    BY <1>9, <2>1 DEF ProcessInv
  <2>3. Emitted(q, p) = {} /\ p \notin q.procs
    BY <2>1 DEF ProcessInv
  <2>4. Emitted(n, p) = {k + 1} \cup {k + 2}
    BY <1>3, <1>4, <1>5, <1>6, <1>7, <1>8, <1>11, <2>3
  <2>5. Cardinality({k + 1}) = 1 /\ IsFiniteSet({k + 1})
    BY FS_Singleton
  <2>6. k + 2 \notin {k + 1}
    BY <1>6
  <2>7. Cardinality({k + 1} \cup {k + 2}) = 2
    <3> DEFINE a == {k + 1}
    <3>1. IsFiniteSet(a) /\ Cardinality(a) = 1 /\ k + 2 \notin a
      BY <2>5, <2>6
    <3> HIDE DEF a
    <3>2. Cardinality(a \cup {k + 2}) = 1 + 1
      BY <3>1, FS_AddElement
    <3> QED
      BY <3>2 DEF a
  <2> QED
    BY <2>2, <2>3, <2>4, <2>7 DEF ProcessInv
<1>12. CASE ~IsOf(m, p)
  <2>1. Emitted(n, p) = Emitted(q, p)
    BY <1>3, <1>4, <1>5, <1>6, <1>7, <1>8, <1>12
  <2>2. 1 \notin Waiting(q, p)
    BY <1>2, <1>4, <1>12
  <2>3. Waiting(n, p) = {} <=> Waiting(q, p) = {}
    BY <1>9, <1>10, <2>2
  <2>4. ASSUME NEW i \in Waiting(n, p), NEW j \in Waiting(n, p)
        PROVE  i = j
    <3>1. i + 1 = j + 1 /\ i \in Int /\ j \in Int
      BY <1>9 DEF ProcessInv
    <3> QED
      BY <3>1
  <2> QED
    BY <2>1, <2>3, <2>4 DEF ProcessInv
<1> QED
  BY <1>11, <1>12

-----------------------------------------------------------------------------
(* The steps of a request.                                                 *)

(* What a step that leaves the channel and the lines alone has to keep.    *)
LEMMA SameGathered ==
    ASSUME NEW q, NEW n, n.generalCh = q.generalCh, n.out = q.out, n.procs = q.procs,
           n.always = q.always, NEW p \in Processes, ProcessInv(q, p)
    PROVE  ProcessInv(n, p)
  BY SameLines DEF ProcessInv

LEMMA OutsideOK ==
    ASSUME IInv, LockInv', NEW r \in Requests,
           Refuse(r) \/ Collect(r) \/ Close(r) \/ Answer(r)
    PROVE  IInv'
<1> DEFINE q == req[r]
<1>0. /\ q \in Reqs /\ RequestInv(q) /\ q.always \subseteq Present /\ mu \in Requests \cup {Free}
      /\ q.pc = "new" => q.gather = "off"
  BY DEF IInv, TypeInv, LockInv
<1>1. CASE Refuse(r)
  <2> DEFINE n == [q EXCEPT !.pc = "refused"]
  <2>1. n \in Reqs /\ req' = [req EXCEPT ![r] = n]
    BY <1>0, <1>1 DEF Reqs, Refuse
  <2>2. n.pc = "refused" /\ \A f \in DOMAIN q \ {"pc"} : n[f] = q[f]
    BY <1>0 DEF Reqs
  <2>3. RequestInv(n) /\ n.always \subseteq Present
    BY <1>0, <2>2, SameGathered DEF RequestInv, Reqs, Ended
  <2> QED
    BY <1>0, <1>1, <2>1, <2>3, OneRequest DEF Refuse, tables
<1>2. CASE Collect(r)
  <2> DEFINE n == [q EXCEPT !.pc = "collect", !.gather = "lock"]
  <2>1. n \in Reqs /\ req' = [req EXCEPT ![r] = n]
    BY <1>0, <1>2 DEF Reqs, Collect, IInv, TypeInv
  <2>2. n.pc = "collect" /\ n.gather = "lock" /\ \A f \in DOMAIN q \ {"pc", "gather"} : n[f] = q[f]
    BY <1>0 DEF Reqs
  <2>3. q.gather = "off"
    BY <1>0, <1>2 DEF Collect
  <2>4. RequestInv(n) /\ n.always \subseteq Present
    BY <1>0, <2>2, <2>3, SameGathered DEF RequestInv, Reqs, Ended
  <2> QED
    BY <1>0, <1>2, <2>1, <2>4, OneRequest DEF Collect, tables
<1>3. CASE Close(r)
  <2> DEFINE n == [q EXCEPT !.closed = TRUE]
  <2>1. n \in Reqs /\ req' = [req EXCEPT ![r] = n]
    BY <1>0, <1>3 DEF Reqs, Close
  <2>2. n.closed = TRUE /\ \A f \in DOMAIN q \ {"closed"} : n[f] = q[f]
    BY <1>0 DEF Reqs
  <2>3. RequestInv(n) /\ n.always \subseteq Present
    BY <1>0, <2>2, SameGathered DEF RequestInv, Reqs
  <2> QED
    BY <1>0, <1>3, <2>1, <2>3, OneRequest DEF Close, tables
<1>4. CASE Answer(r)
  <2>0. PICK e \in Ended : req' = [req EXCEPT ![r].pc = e]
    BY <1>4 DEF Answer, Ended
  <2> DEFINE n == [q EXCEPT !.pc = e]
  <2>1. n \in Reqs /\ req' = [req EXCEPT ![r] = n]
    BY <1>0, <2>0 DEF Reqs
  <2>2. n.pc = e /\ \A f \in DOMAIN q \ {"pc"} : n[f] = q[f]
    BY <1>0 DEF Reqs
  <2>3. RequestInv(n) /\ n.always \subseteq Present
    BY <1>0, <1>4, <2>2, SameGathered DEF Answer, RequestInv, Reqs
  <2> QED
    BY <1>0, <1>4, <2>1, <2>3, OneRequest DEF Answer, tables
<1> QED
  BY <1>1, <1>2, <1>3, <1>4

LEMMA EmitOK ==
    ASSUME IInv, LockInv', NEW r \in Requests, Emit(r)
    PROVE  IInv'
<1> DEFINE q == req[r]
           c == Tail(q.generalCh)
           o == q.out \o Convert(Head(q.generalCh))
           n == [q EXCEPT !.generalCh = c, !.out = o]
<1>0. /\ q \in Reqs /\ RequestInv(q) /\ q.always \subseteq Present /\ mu \in Requests \cup {Free}
      /\ q.generalCh # <<>> /\ q.pc = "collect" /\ q.generalCh \in Seq(Metrics) /\ q.out \in Seq(Lines)
  BY DEF IInv, TypeInv, Emit, Reqs
<1>1. c \in Seq(Metrics) /\ Len(c) = Len(q.generalCh) - 1 /\ Head(q.generalCh) \in Metrics
      /\ Len(q.generalCh) \in Nat
  BY <1>0, HeadTailProperties, LenProperties
<1>2. o \in Seq(Lines)
  <2>1. Convert(Head(q.generalCh)) \in Seq(Lines)
    BY <1>1, ConvertFacts
  <2> QED
    BY <1>0, <2>1, ConcatProperties
<1>3. req' = [req EXCEPT ![r] = n] /\ UNCHANGED <<tables, mu>>
  BY <1>0 DEF Emit, IInv, TypeInv
<1>4. n.generalCh = c /\ n.out = o /\ \A f \in DOMAIN q \ {"generalCh", "out"} : n[f] = q[f]
  BY <1>0 DEF Reqs
<1>5. n \in Reqs
  BY <1>0, <1>1, <1>2 DEF Reqs
<1>6. /\ n.pc = q.pc /\ n.gather = q.gather /\ n.closed = q.closed /\ n.procs = q.procs
      /\ n.p = q.p /\ n.always = q.always
  BY <1>0, <1>4 DEF Reqs
<1>7. \A p \in Processes : ProcessInv(n, p)
  BY <1>0, <1>4, <1>6, Emitting DEF RequestInv
<1>8. Len(n.generalCh) <= GeneralSize
  BY <1>0, <1>1, <1>4, ScrapeAssumption DEF RequestInv
<1>9. q.gather \notin {"off", "lock"}
  BY <1>0 DEF RequestInv
<1> HIDE DEF n
<1>10. RequestInv(n)
  BY <1>0, <1>6, <1>7, <1>8, <1>9 DEF RequestInv, Ended
<1> QED
  BY <1>0, <1>3, <1>5, <1>6, <1>10, OneRequest

LEMMA GatherProcessOK ==
    ASSUME IInv, LockInv', NEW r \in Requests, GatherProcess(r)
    PROVE  IInv'
<1> DEFINE q == req[r]
<1>0. /\ q \in Reqs /\ RequestInv(q) /\ q.always \subseteq Present /\ mu \in Requests \cup {Free}
      /\ q.gather = "processes" /\ q.generalCh \in Seq(Metrics)
  BY DEF IInv, TypeInv, GatherProcess, Reqs
<1>1. PICK p \in q.procs \cap Present, S \in SUBSET FDs :
        req' = [req EXCEPT ![r].generalCh = Append(@, [name |-> "process_bandwidth", labels |-> p]),
                  ![r].gather = "connections", ![r].procs = @ \ {p}, ![r].p = p, ![r].fds = S]
  BY DEF GatherProcess
<1> DEFINE m == [name |-> "process_bandwidth", labels |-> p]
           c == Append(q.generalCh, m)
           n == [q EXCEPT !.generalCh = c, !.gather = "connections", !.procs = q.procs \ {p},
                          !.p = p, !.fds = S]
<1>2. p \in Processes /\ m \in Metrics /\ IsOf(m, p)
      /\ \A x \in Processes \ {p} : ~IsOf(m, x)
  BY DEF Present, Metrics, IsOf
<1> HIDE DEF m
<1>3. req' = [req EXCEPT ![r] = n] /\ UNCHANGED <<tables, mu>>
  BY <1>0, <1>1 DEF GatherProcess, IInv, TypeInv, m
<1>4. c \in Seq(Metrics)
  BY <1>0, <1>2, AppendProperties
<1>5. n \in Reqs
  BY <1>0, <1>2, <1>4 DEF Reqs, Walking
<1>6. /\ n.pc = q.pc /\ n.gather = "connections" /\ n.closed = q.closed /\ n.procs = q.procs \ {p}
      /\ n.p = p /\ n.always = q.always /\ n.generalCh = c /\ n.out = q.out
  BY <1>0 DEF Reqs
<1> HIDE DEF n
<1>7. /\ Len(n.generalCh) = Len(q.generalCh) + 1
      /\ \A x \in Processes : Waiting(n, x) = Waiting(q, x)
                                \cup (IF IsOf(m, x) THEN {Len(q.generalCh) + 1} ELSE {})
  BY <1>0, <1>2, <1>6, Sending
<1>8. ASSUME NEW x \in Processes PROVE ProcessInv(n, x)
  <2>1. ProcessInv(q, x) /\ Emitted(n, x) = Emitted(q, x)
    BY <1>0, <1>6 DEF RequestInv, Emitted
  <2>2. CASE x = p
    <3>1. Waiting(q, x) = {} /\ Emitted(q, x) = {}
      BY <2>1, <2>2 DEF ProcessInv
    <3>2. Waiting(n, x) = {Len(q.generalCh) + 1}
      BY <1>2, <1>7, <2>2, <3>1
    <3> QED
      BY <1>6, <2>1, <2>2, <3>1, <3>2 DEF ProcessInv
  <2>3. CASE x # p
    <3>1. Waiting(n, x) = Waiting(q, x)
      BY <1>2, <1>7, <2>3
    <3> QED
      BY <1>6, <2>1, <2>3, <3>1 DEF ProcessInv
  <2> QED
    BY <2>2, <2>3
<1>9. Len(n.generalCh) <= GeneralSize
  <2>1. Len(q.generalCh) < GeneralSize /\ Len(q.generalCh) \in Nat
    BY <1>0, LenProperties DEF GatherProcess, Room
  <2> QED
    BY <1>7, <2>1, ScrapeAssumption
<1>10. q.pc \notin Ended
  BY <1>0 DEF RequestInv, IInv, LockInv
<1>11. RequestInv(n)
  BY <1>2, <1>6, <1>8, <1>9, <1>10 DEF RequestInv
<1> QED
  BY <1>0, <1>3, <1>5, <1>6, <1>11, OneRequest

LEMMA GatherConnectionOK ==
    ASSUME IInv, LockInv', NEW r \in Requests, GatherConnection(r)
    PROVE  IInv'
<1> DEFINE q == req[r]
<1>0. /\ q \in Reqs /\ RequestInv(q) /\ q.always \subseteq Present /\ mu \in Requests \cup {Free}
      /\ q.gather = "connections" /\ q.generalCh \in Seq(Metrics) /\ q.p \in Processes
  BY DEF IInv, TypeInv, GatherConnection, Reqs, RequestInv
<1>1. PICK f \in q.fds :
        LET s == connections[q.p][f]
        IN  IF s = NoSocket
            THEN req' = [req EXCEPT ![r].fds = @ \ {f}]
            ELSE /\ Room(r)
                 /\ req' = [req EXCEPT ![r].fds = @ \ {f},
                      ![r].generalCh = Append(@, [name |-> "process_bandwidth_connection", labels |-> s])]
  BY DEF GatherConnection
<1>2. UNCHANGED <<tables, mu>>
  BY DEF GatherConnection
<1>3. q.pc \notin Ended
  BY <1>0 DEF RequestInv, IInv, LockInv
<1> DEFINE s == connections[q.p][f]
<1>4. CASE s = NoSocket
  <2> DEFINE n == [q EXCEPT !.fds = q.fds \ {f}]
  <2>1. n \in Reqs /\ req' = [req EXCEPT ![r] = n]
    BY <1>0, <1>1, <1>4 DEF Reqs, IInv, TypeInv
  <2>2. \A g \in DOMAIN q \ {"fds"} : n[g] = q[g]
    BY <1>0 DEF Reqs
  <2>3. RequestInv(n) /\ n.always \subseteq Present
    BY <1>0, <2>2, SameGathered DEF RequestInv, Reqs
  <2> QED
    BY <1>0, <1>2, <2>1, <2>3, OneRequest
<1>5. CASE s # NoSocket
  <2> DEFINE m == [name |-> "process_bandwidth_connection", labels |-> s]
             c == Append(q.generalCh, m)
             n == [q EXCEPT !.fds = q.fds \ {f}, !.generalCh = c]
  <2>1. m \in Metrics /\ \A x \in Processes : ~IsOf(m, x)
    <3>1. f \in FDs
      BY <1>0, <1>1 DEF Reqs
    <3>2. s \in Sockets
      BY <1>0, <1>5, <3>1 DEF IInv, TypeInv
    <3> QED
      BY <3>2 DEF Metrics, IsOf
  <2>2. req' = [req EXCEPT ![r] = n] /\ Room(r)
    BY <1>0, <1>1, <1>5 DEF IInv, TypeInv
  <2> HIDE DEF m, s
  <2>3. c \in Seq(Metrics)
    BY <1>0, <2>1, AppendProperties
  <2>4. n \in Reqs
    BY <1>0, <2>3 DEF Reqs
  <2>5. /\ n.pc = q.pc /\ n.gather = q.gather /\ n.closed = q.closed /\ n.procs = q.procs
        /\ n.p = q.p /\ n.always = q.always /\ n.generalCh = c /\ n.out = q.out
    BY <1>0 DEF Reqs
  <2> HIDE DEF n
  <2>6. /\ Len(n.generalCh) = Len(q.generalCh) + 1
        /\ \A x \in Processes : Waiting(n, x) = Waiting(q, x)
                                  \cup (IF IsOf(m, x) THEN {Len(q.generalCh) + 1} ELSE {})
    BY <1>0, <2>1, <2>5, Sending
  <2>7. ASSUME NEW x \in Processes PROVE ProcessInv(n, x)
    <3>1. ProcessInv(q, x) /\ Emitted(n, x) = Emitted(q, x)
      BY <1>0, <2>5 DEF RequestInv, Emitted
    <3>2. Waiting(n, x) = Waiting(q, x)
      BY <2>1, <2>6
    <3> QED
      BY <2>5, <3>1, <3>2 DEF ProcessInv
  <2>8. Len(n.generalCh) <= GeneralSize
    <3>1. Len(q.generalCh) < GeneralSize /\ Len(q.generalCh) \in Nat
      BY <1>0, <2>2, LenProperties DEF Room
    <3> QED
      BY <2>6, <3>1, ScrapeAssumption
  <2>9. RequestInv(n)
    BY <1>0, <1>3, <2>5, <2>7, <2>8 DEF RequestInv
  <2> QED
    BY <1>0, <1>2, <2>2, <2>4, <2>5, <2>9, OneRequest
<1> QED
  BY <1>4, <1>5

(* The walk starts with all that is present, and what it leaves out is     *)
(* gone.                                                                   *)
LEMMA WalkOK ==
    ASSUME IInv, LockInv', NEW r \in Requests,
           StartGather(r) \/ PassProcess(r) \/ NextProcess(r) \/ EndGather(r)
    PROVE  IInv'
<1> DEFINE q == req[r]
<1>0. /\ q \in Reqs /\ RequestInv(q) /\ q.always \subseteq Present /\ mu \in Requests \cup {Free}
      /\ q.closed => q.gather = "done"
  BY DEF IInv, TypeInv, LockInv
<1>1. CASE StartGather(r)
  <2>1. PICK S \in SUBSET Processes :
          /\ Present \subseteq S
          /\ req' = [req EXCEPT ![r].gather = "processes", ![r].procs = S, ![r].always = Present]
    BY <1>1 DEF StartGather
  <2> DEFINE n == [q EXCEPT !.gather = "processes", !.procs = S, !.always = Present]
  <2>2. req' = [req EXCEPT ![r] = n] /\ Present \subseteq Processes
    BY <2>1 DEF IInv, TypeInv, Present
  <2>3. n \in Reqs
    BY <1>0, <2>2 DEF Reqs, Walking
  <2>4. /\ n.pc = q.pc /\ n.gather = "processes" /\ n.closed = q.closed /\ n.procs = S
        /\ n.always = Present /\ n.generalCh = q.generalCh /\ n.out = q.out
    BY <1>0 DEF Reqs
  <2> HIDE DEF n
  <2>5. q.generalCh = <<>> /\ q.out = <<>> /\ q.pc \notin Ended /\ Len(q.generalCh) <= GeneralSize
    BY <1>0, <1>1 DEF StartGather, RequestInv
  <2>6. \A p \in Processes : Waiting(n, p) = {} /\ Emitted(n, p) = {}
    BY <2>4, <2>5 DEF Waiting, Emitted
  <2>7. RequestInv(n)
    BY <2>1, <2>4, <2>5, <2>6 DEF RequestInv, ProcessInv
  <2> QED
    BY <1>1, <2>2, <2>3, <2>4, <2>7, OneRequest DEF StartGather
<1>2. CASE PassProcess(r)
  <2>1. PICK x \in q.procs \ Present : req' = [req EXCEPT ![r].procs = @ \ {x}]
    BY <1>2 DEF PassProcess
  <2> DEFINE n == [q EXCEPT !.procs = q.procs \ {x}]
  <2>2. n \in Reqs /\ req' = [req EXCEPT ![r] = n]
    BY <1>0, <2>1 DEF Reqs, IInv, TypeInv
  <2>3. /\ n.pc = q.pc /\ n.gather = "processes" /\ n.closed = q.closed /\ n.procs = q.procs \ {x}
        /\ n.always = q.always /\ n.generalCh = q.generalCh /\ n.out = q.out
    BY <1>0, <1>2 DEF Reqs, PassProcess
  <2> HIDE DEF n
  <2>4. \A p \in Processes : ProcessInv(n, p)
    BY <1>0, <2>1, <2>3, SameLines DEF RequestInv, ProcessInv
  <2>5. RequestInv(n)
    BY <1>0, <1>2, <2>3, <2>4 DEF RequestInv, PassProcess
  <2> QED
    BY <1>0, <1>2, <2>2, <2>3, <2>5, OneRequest DEF PassProcess
<1>3. CASE NextProcess(r)
  <2> DEFINE n == [q EXCEPT !.gather = "processes", !.p = None]
  <2>1. n \in Reqs /\ req' = [req EXCEPT ![r] = n]
    BY <1>0, <1>3 DEF Reqs, Walking, NextProcess, IInv, TypeInv
  <2>2. n.gather = "processes" /\ \A f \in DOMAIN q \ {"gather", "p"} : n[f] = q[f]
    BY <1>0 DEF Reqs
  <2>3. RequestInv(n) /\ n.always \subseteq Present
    BY <1>0, <1>3, <2>2, SameGathered DEF NextProcess, RequestInv, Reqs
  <2> QED
    BY <1>0, <1>3, <2>1, <2>3, OneRequest DEF NextProcess
<1>4. CASE EndGather(r)
  <2> DEFINE n == [q EXCEPT !.gather = "done"]
  <2>1. n \in Reqs /\ req' = [req EXCEPT ![r] = n]
    BY <1>0, <1>4 DEF Reqs, EndGather
  <2>2. n.gather = "done" /\ \A f \in DOMAIN q \ {"gather"} : n[f] = q[f]
    BY <1>0 DEF Reqs
  <2>3. RequestInv(n) /\ n.always \subseteq Present
    BY <1>0, <1>4, <2>2, SameGathered DEF EndGather, RequestInv, Reqs
  <2> QED
    BY <1>0, <1>4, <2>1, <2>3, OneRequest DEF EndGather
<1> QED
  BY <1>1, <1>2, <1>3, <1>4

LEMMA IInvStep == IInv /\ [Next]_vars => IInv'
<1> SUFFICES ASSUME IInv, [Next]_vars PROVE IInv'
  OBVIOUS
<1>0. LockInv'
  BY LockInvStep DEF IInv
<1>1. CASE Engine
  <2>0. TypeInv
    BY DEF IInv
  <2>1. ASSUME NEW p \in Processes, AddProcess(p) PROVE IInv'
    BY <1>0, <2>0, <2>1, ChangeOK DEF AddProcess, TypeInv
  <2>2. ASSUME NEW p \in Processes, RemoveProcess(p) PROVE IInv'
    BY <1>0, <2>0, <2>2, ChangeOK DEF RemoveProcess, TypeInv
  <2>3. ASSUME NEW p \in Processes, NEW f \in FDs, NEW s \in Sockets \cup {NoSocket},
               ChangeConnection(p, f, s)
        PROVE  IInv'
    BY <1>0, <2>0, <2>3, ChangeOK DEF ChangeConnection, TypeInv
  <2> QED
    BY <1>1, <2>1, <2>2, <2>3 DEF Engine
<1>2. ASSUME NEW r \in Requests,
             Refuse(r) \/ Collect(r) \/ Gather(r) \/ Close(r) \/ Emit(r) \/ Answer(r)
      PROVE  IInv'
  BY <1>0, <1>2, OutsideOK, WalkOK, GatherProcessOK, GatherConnectionOK, EmitOK DEF Gather
<1>3. CASE UNCHANGED vars
  BY <1>0, <1>3 DEF vars, tables, IInv, TypeInv, Present
<1> QED
  BY <1>1, <1>2, <1>3 DEF Next

(* The tables, the requests and their channels keep their types, and the   *)
(* channel its capacity (puller.go, accumulator.go).                       *)
THEOREM ScrapeTypeCorrect == Spec => []TypeOK
<1>1. IInv => TypeOK
  BY DEF IInv, TypeInv, TypeOK, RequestInv, Reqs, Walking, Lines
<1> QED
  BY <1>1, IInvInit, IInvStep, PTL DEF Spec

(* A request is answered with each process that was there during the whole *)
(* walk, and with none twice (Gather in pb_puller.go, Collect in           *)
(* puller.go): what Collect has not emitted when the channel is closed and *)
(* empty was not to be visited.                                            *)
THEOREM ScrapesAreComplete == Spec => []AnswersAreComplete
<1>1. IInv => AnswersAreComplete
  <2> SUFFICES ASSUME IInv, NEW r \in Requests, req[r].pc \in Ended, NEW p \in Processes
               PROVE  Cardinality({i \in DOMAIN req[r].out : IsOf(req[r].out[i], p)})
                        \in (IF p \in req[r].always THEN {2} ELSE {0, 2})
    BY DEF AnswersAreComplete, IsOf
  <2> DEFINE q == req[r]
  <2>1. /\ q.generalCh = <<>> /\ q.closed /\ q.gather = "done" /\ q.procs = {}
        /\ ProcessInv(q, p)
    BY DEF IInv, RequestInv, LockInv
  <2>2. Waiting(q, p) = {}
    BY <2>1 DEF Waiting
  <2>3. Cardinality({}) = 0
    BY FS_EmptySet
  <2> HIDE DEF q
  <2>4. Cardinality(Emitted(q, p)) \in (IF p \in q.always THEN {2} ELSE {0, 2})
    BY <2>1, <2>2, <2>3 DEF ProcessInv
  <2> QED
    BY <2>4 DEF Emitted, q
<1> QED
  BY <1>1, IInvInit, IInvStep, PTL DEF Spec

-----------------------------------------------------------------------------
(* Waiting.  The goroutines of a request can go on if the walk has room,   *)
(* or there is something to receive, or all is gathered.                   *)
Ready(r) ==
    /\ req[r].pc = "collect"
    /\ \/ req[r].gather = "lock" /\ mu = Free
       \/ req[r].gather \in Walking /\ Room(r)
       \/ req[r].gather = "done" /\ ~req[r].closed
       \/ req[r].generalCh # <<>>
       \/ req[r].closed

(* Who waits for mu waits for somebody who can go on.                      *)
NobodyStalls ==
    \A r \in Requests :
        req[r].pc = "collect" => Ready(r) \/ (mu \in Requests \ {r} /\ Ready(mu))

(* mu is held by a request that walks, and whose Collect is receiving.     *)
HolderInv ==
    /\ mu # Free => mu \in Requests /\ req[mu].gather \in Walking
    /\ \A r \in Requests : req[r].gather = "off" <=> req[r].pc \in {"new", "refused"}

LEMMA HolderInit == Init => HolderInv
  BY DEF Init, HolderInv, Fresh

LEMMA HolderStep == IInv /\ HolderInv /\ [Next]_vars => HolderInv'
<1> SUFFICES ASSUME IInv, HolderInv, [Next]_vars PROVE HolderInv'
  OBVIOUS
<1>0. TypeInv /\ LockInv
  BY DEF IInv
<1>1. CASE Engine
  <2>1. PICK s, c : Change(s, c)
    BY <1>1 DEF Engine, AddProcess, RemoveProcess, ChangeConnection
  <2>2. mu' = mu /\ \A r \in Requests : req'[r].gather = req[r].gather /\ req'[r].pc = req[r].pc
    BY <1>0, <2>1 DEF Change, TypeInv, Reqs
  <2> QED
    BY <2>2 DEF HolderInv
<1>2. ASSUME NEW r \in Requests, Refuse(r) \/ Collect(r) \/ Close(r) \/ Emit(r) \/ Answer(r)
      PROVE  HolderInv'
  <2>1. /\ mu' = mu
        /\ \A s \in Requests \ {r} : req'[s] = req[s]
        /\ req[r] \in Reqs
    BY <1>0, <1>2 DEF Refuse, Collect, Close, Emit, Answer, TypeInv
  <2>2. CASE Refuse(r)
    BY <1>0, <2>1, <2>2 DEF Refuse, HolderInv, TypeInv, LockInv, Reqs, Walking
  <2>3. CASE Collect(r)
    BY <1>0, <2>1, <2>3 DEF Collect, HolderInv, TypeInv, LockInv, Reqs, Walking
  <2>4. CASE Close(r) \/ Emit(r)
    <3>1. req'[r].gather = req[r].gather /\ req'[r].pc = req[r].pc
      BY <1>0, <2>1, <2>4 DEF Close, Emit, TypeInv, Reqs
    <3> QED
      BY <2>1, <3>1 DEF HolderInv
  <2>5. CASE Answer(r)
    <3>1. req[r].gather = "done" /\ req'[r].gather = "done" /\ req'[r].pc \in Ended
      BY <1>0, <2>1, <2>5 DEF Answer, TypeInv, LockInv, Reqs, Ended
    <3> QED
      BY <2>1, <3>1 DEF HolderInv, Walking, Ended
  <2> QED
    BY <1>2, <2>2, <2>3, <2>4, <2>5
<1>3. ASSUME NEW r \in Requests, Gather(r) PROVE HolderInv'
  <2>0. req \in [Requests -> Reqs] /\ req[r] \in Reqs
    BY <1>0 DEF TypeInv
  <2>a. ASSUME req'[r].pc = req[r].pc, \A s \in Requests \ {r} : req'[s] = req[s],
               req[r].gather \in Walking, req'[r].gather \in Walking, mu' = mu
        PROVE  HolderInv'
    BY <2>a DEF HolderInv, Walking
  <2>1. CASE StartGather(r)
    <3>1. /\ mu' = r /\ req'[r].gather = "processes" /\ req[r].gather = "lock"
          /\ req'[r].pc = req[r].pc /\ \A s \in Requests \ {r} : req'[s] = req[s]
      BY <2>0, <2>1 DEF StartGather, Reqs
    <3> QED
      BY <3>1 DEF HolderInv, Walking
  <2>2. CASE EndGather(r)
    <3>1. /\ mu' = Free /\ req'[r].gather = "done" /\ req[r].gather = "processes"
          /\ req'[r].pc = req[r].pc /\ \A s \in Requests \ {r} : req'[s] = req[s]
      BY <2>0, <2>2 DEF EndGather, Reqs
    <3> QED
      BY <3>1 DEF HolderInv, Walking
  <2>3. CASE PassProcess(r)
    <3>1. /\ mu' = mu /\ req'[r].gather = "processes" /\ req[r].gather = "processes"
          /\ req'[r].pc = req[r].pc /\ \A s \in Requests \ {r} : req'[s] = req[s]
      BY <2>0, <2>3 DEF PassProcess, Reqs
    <3> QED
      BY <2>a, <3>1 DEF Walking
  <2>4. CASE GatherProcess(r)
    <3>1. /\ mu' = mu /\ req'[r].gather = "connections" /\ req[r].gather = "processes"
          /\ req'[r].pc = req[r].pc /\ \A s \in Requests \ {r} : req'[s] = req[s]
      BY <2>0, <2>4 DEF GatherProcess, Reqs
    <3> QED
      BY <2>a, <3>1 DEF Walking
  <2>5. CASE GatherConnection(r)
    <3>1. \E f, c : \/ req' = [req EXCEPT ![r].fds = @ \ {f}]
                    \/ req' = [req EXCEPT ![r].fds = @ \ {f}, ![r].generalCh = c]
      BY <2>0, <2>5 DEF GatherConnection
    <3>2. /\ mu' = mu /\ req'[r].gather = "connections" /\ req[r].gather = "connections"
          /\ req'[r].pc = req[r].pc /\ \A s \in Requests \ {r} : req'[s] = req[s]
      BY <2>0, <2>5, <3>1 DEF GatherConnection, Reqs
    <3> QED
      BY <2>a, <3>2 DEF Walking
  <2>6. CASE NextProcess(r)
    <3>1. /\ mu' = mu /\ req'[r].gather = "processes" /\ req[r].gather = "connections"
          /\ req'[r].pc = req[r].pc /\ \A s \in Requests \ {r} : req'[s] = req[s]
      BY <2>0, <2>6 DEF NextProcess, Reqs
    <3> QED
      BY <2>a, <3>1 DEF Walking
  <2> QED
    BY <1>3, <2>1, <2>2, <2>3, <2>4, <2>5, <2>6 DEF Gather
<1>4. CASE UNCHANGED vars
  BY <1>4 DEF vars, HolderInv
<1> QED
  BY <1>1, <1>2, <1>3, <1>4 DEF Next

(* The three goroutines of a request, and the requests, never wait for     *)
(* each other in a circle: Gather blocks on a full channel with mu held,   *)
(* but a full channel is one that Collect receives from                    *)
(* (puller_accumulator.go, puller.go).                                     *)
THEOREM ScrapesNeverStall == Spec => []NobodyStalls
<1>1. IInv /\ HolderInv => NobodyStalls
  <2> SUFFICES ASSUME IInv, HolderInv, NEW r \in Requests, req[r].pc = "collect"
               PROVE  Ready(r) \/ (mu \in Requests \ {r} /\ Ready(mu))
    BY DEF NobodyStalls
  <2>0. TypeInv /\ LockInv
    BY DEF IInv
  <2>1. ASSUME NEW s \in Requests, req[s].gather \in Walking PROVE Ready(s)
    <3>1. req[s].pc = "collect"
      <4>1. req[s].pc \notin {"new", "refused"} /\ req[s].pc \notin Ended
        BY <2>0, <2>1 DEF HolderInv, IInv, RequestInv, LockInv, Walking
      <4> QED
        BY <2>0, <4>1 DEF TypeInv, Reqs
    <3>2. CASE req[s].generalCh = <<>>
      BY <2>1, <3>1, <3>2, ScrapeAssumption DEF Ready, Room
    <3>3. CASE req[s].generalCh # <<>>
      BY <3>1, <3>3 DEF Ready
    <3> QED
      BY <3>2, <3>3
  <2>2. req[r].gather # "off" /\ req[r].gather \in {"off", "lock"} \cup Walking \cup {"done"}
        /\ req[r].closed \in BOOLEAN
    BY <2>0 DEF TypeInv, Reqs, HolderInv
  <2>3. CASE req[r].gather = "lock"
    BY <2>1, <2>3 DEF Ready, HolderInv, Walking
  <2>4. CASE req[r].gather = "done"
    BY <2>2, <2>4 DEF Ready
  <2> QED
    BY <2>1, <2>2, <2>3, <2>4
<1> QED
  BY <1>1, IInvInit, IInvStep, HolderInit, HolderStep, PTL DEF Spec
=============================================================================
