------------------------------ MODULE TopProofs ------------------------------
(***************************************************************************)
(* Proofs about Top, for any processes, connections and intervals and any  *)
(* number of keys.                                                         *)
(***************************************************************************)
EXTENDS Top, TLAPS

Jobs == [pc : PCs, rest : Seq(Functions), todo : SUBSET (Pids \cup Conns),
         bp : Objects \cup {Nil}, slice : Seq(Objects), i : Nat, n : Nat, exists : BOOLEAN]

(* What a goroutine keeps in its locals.                                   *)
JobInv(g) ==
    /\ job[g].pc # "next" => Refreshes(g)
    /\ job[g].pc = "append" => job[g].bp \in Objects
    /\ job[g].pc = "rows" => job[g].i >= 1
    /\ job[g].pc = "rowsOf" => job[g].todo \subseteq Conns
    /\ job[g].pc \notin {"rows", "rowsOf"} => ~job[g].exists

(* Two refreshes at once are remembered.                                   *)
AloneInv == Refreshes("ui") /\ Refreshes("tick") => overlapped

(* What a refresh that runs alone has read stays as it was.                *)
ReadInv(g) ==
    ~overlapped =>
        /\ job[g].pc = "rows" => job[g].n = Len(processes)
        /\ job[g].pc \in {"selected", "plotSelected"} => selectedProcess # Nil
        /\ job[g].pc \in {"first", "plotFirst"} => processes # <<>>
        /\ job[g].pc = "plotConnection" => selectedConnection # Nil

(* While the rows are set, exists says whether one is that of the          *)
(* selection; otherwise the selection is in the table.                     *)
ProcessShown    == \E o \in Range(pTable) : PidOf[o] = PidOf[selectedProcess]
ConnectionShown == \E c \in Range(cTable) : KeyOf[c] = KeyOf[selectedConnection]

ProcessInv(g) ==
    ~overlapped /\ job[g].pc = "rows" =>
        /\ job[g].exists => ProcessShown
        /\ \A k \in DOMAIN pTable : k < job[g].i

ConnectionInv(g) ==
    ~overlapped =>
        /\ job[g].pc \in {"selected", "first", "list"} => cTable = <<>>
        /\ job[g].pc = "rowsOf" =>
             /\ job[g].exists => ConnectionShown
             /\ \A k \in DOMAIN cTable : k < job[g].i

ShownInv ==
    ~overlapped =>
        /\ selectedProcess # Nil /\ (\A g \in Goroutines : job[g].pc # "rows") => ProcessShown
        /\ selectedConnection # Nil /\ (\A g \in Goroutines : job[g].pc # "rowsOf") =>
             cTable = <<>> \/ ConnectionShown

GInv(g) == JobInv(g) /\ ReadInv(g) /\ ProcessInv(g) /\ ConnectionInv(g)

IInv == /\ TypeOK /\ AloneInv /\ ShownInv /\ (crash = "view" => overlapped)
        /\ \A g \in Goroutines : GInv(g)

-----------------------------------------------------------------------------
LEMMA IdleFacts ==
    /\ Idle \in Jobs
    /\ \A r \in Seq(Functions) :
         /\ [Idle EXCEPT !.rest = r] \in Jobs
         /\ [Idle EXCEPT !.rest = r].pc = "next" /\ ~[Idle EXCEPT !.rest = r].exists
         /\ [Idle EXCEPT !.rest = r].rest = r
<1>1. <<>> \in Seq(Functions) /\ <<>> \in Seq(Objects)
  OBVIOUS
<1>2. "next" \in PCs /\ 0 \in Nat /\ FALSE \in BOOLEAN
  BY DEF PCs
<1>3. Idle \in Jobs
  BY <1>1, <1>2 DEF Idle, Jobs
<1>4. Idle.pc = "next" /\ ~Idle.exists
  BY DEF Idle
<1> QED
  BY <1>3, <1>4 DEF Jobs

LEMMA SequenceFacts ==
    /\ <<"connections", "graph">> \in Seq(Functions)
    /\ refreshAll \in Seq(Functions) /\ refreshAll \o <<"draw">> \in Seq(Functions)
    /\ \A t \in {"processes", "connections"} : <<t>> \in Seq(Functions)
    /\ \A r \in Seq(Functions) : r # <<>> => Tail(r) \in Seq(Functions)
<1>1. /\ {"processes", "connections", "graph", "draw", "processes?", "connections?"} \subseteq Functions
  BY DEF Functions
<1>2. refreshAll \in Seq(Functions) /\ <<"draw">> \in Seq(Functions)
  BY <1>1 DEF refreshAll
<1>3. refreshAll \o <<"draw">> \in Seq(Functions)
  BY <1>2
<1>4. <<"connections", "graph">> \in Seq(Functions)
  BY <1>1
<1> QED
  BY <1>1, <1>2, <1>3, <1>4

LEMMA RefreshFacts ==
    ASSUME NEW g \in Goroutines, NEW f, Begins(g, f), f # "draw"
    PROVE  Refreshes(g)
  BY DEF Begins, At, Busy, Refreshes

LEMMA InitOK == Init => IInv
<1> SUFFICES ASSUME Init PROVE IInv
  OBVIOUS
<1>1. TypeOK
  <2>1. job \in [Goroutines -> Jobs]
    BY IdleFacts DEF Init
  <2>2. <<>> \in Seq(Objects) /\ DOMAIN <<>> \subseteq Nat /\ Range(<<>>) = {}
    BY DEF Range
  <2>3. {tickInterval, ticker, waits} \subseteq Intervals /\ keys \in 0 .. MaxKeys
    BY TopAssumption DEF Init
  <2> QED
    BY <2>1, <2>2, <2>3 DEF Init, TypeOK, Jobs, Table
<1>2. \A g \in Goroutines : job[g] = Idle /\ Idle.pc = "next" /\ ~Idle.exists
  BY DEF Init, Idle
<1> QED
  BY <1>1, <1>2 DEF Init, IInv, AloneInv, ShownInv, GInv, JobInv, ReadInv, ProcessInv,
                    ConnectionInv, Refreshes, Idle, Goroutines

(* While a goroutine refreshes and no two have, the other does not.        *)
LEMMA Alone ==
    ASSUME IInv, NEW g \in Goroutines, NEW h \in Goroutines, g # h, Refreshes(g), ~overlapped
    PROVE  ~Refreshes(h) /\ job[h].pc = "next"
  BY DEF IInv, AloneInv, GInv, JobInv, Goroutines

(* A step of a refresh disturbs nobody else.                               *)
LEMMA RefreshFrame ==
    ASSUME IInv, NEW g \in Goroutines, Refreshes(g), UNCHANGED overlapped,
           NEW j, job' = [job EXCEPT ![g] = j],
           TypeOK', ShownInv', (crash = "view" => overlapped)', GInv(g)'
    PROVE  IInv'
<1>1. \A h \in Goroutines \ {g} : job'[h] = job[h]
  BY DEF IInv, TypeOK
<1>2. ASSUME NEW h \in Goroutines \ {g} PROVE GInv(h)'
  <2>1. JobInv(h)'
    BY <1>1 DEF IInv, GInv, JobInv, Refreshes
  <2>2. ~overlapped => job'[h].pc = "next"
    BY <1>1, Alone
  <2>3. ReadInv(h)' /\ ProcessInv(h)' /\ ConnectionInv(h)'
    BY <2>2 DEF ReadInv, ProcessInv, ConnectionInv
  <2> QED
    BY <2>1, <2>3 DEF GInv
<1>3. AloneInv'
  BY <1>1 DEF IInv, AloneInv, Refreshes, Goroutines
<1> QED
  BY <1>2, <1>3 DEF IInv

(* Outside the loops over rows, a selection that is shown stays shown.     *)
LEMMA ShownFrame ==
    ASSUME IInv, NEW g \in Goroutines, Refreshes(g), job[g].pc \notin {"rows", "rowsOf"},
           UNCHANGED <<overlapped, selected, pTable, cTable>>
    PROVE  ShownInv'
<1>1. ~overlapped => \A h \in Goroutines : job[h].pc \notin {"rows", "rowsOf"}
  BY Alone
<1> QED
  BY <1>1 DEF IInv, ShownInv, ProcessShown, ConnectionShown, selected

LEMMA JobType ==
    ASSUME TypeOK, NEW g \in Goroutines, NEW j \in Jobs, job' = [job EXCEPT ![g] = j]
    PROVE  job' \in [Goroutines -> Jobs] /\ job'[g] = j
  BY DEF TypeOK, Jobs

(* A function that ends leaves an idle job, or the next one's.             *)
LEMMA ReturnOK ==
    ASSUME IInv, NEW g \in Goroutines, Refreshes(g), Return(g), ShownInv',
           UNCHANGED <<tables, lists, view, options, crash, overlapped>>,
           selectedProcess' \in Objects \cup {Nil}, selectedConnection' \in Conns \cup {Nil}
    PROVE  IInv'
<1> DEFINE j == [Idle EXCEPT !.rest = Tail(job[g].rest)]
<1>1. job' = [job EXCEPT ![g] = j]
  BY DEF Return, Call
<1>2. job[g].rest \in Seq(Functions) /\ job[g].rest # <<>>
  BY DEF IInv, TypeOK, Refreshes
<1>3. j \in Jobs /\ j.pc = "next" /\ ~j.exists
  BY <1>2, SequenceFacts, IdleFacts
<1> HIDE DEF j
<1>4. job' \in [Goroutines -> Jobs] /\ job'[g] = j
  BY <1>1, <1>3, JobType DEF IInv
<1>5. TypeOK'
  BY <1>4 DEF IInv, TypeOK, Jobs, tables, lists, view, options
<1>6. GInv(g)'
  BY <1>3, <1>4 DEF GInv, JobInv, ReadInv, ProcessInv, ConnectionInv
<1> QED
  BY <1>1, <1>5, <1>6, RefreshFrame DEF IInv

LEMMA SkipTableOK == ASSUME IInv, NEW g \in Goroutines, SkipTable(g) PROVE IInv'
<1>1. PICK t \in DOMAIN recent : Begins(g, Unless[t])
  BY DEF SkipTable
<1>2. DOMAIN recent = {"processes", "connections"}
  BY DEF IInv, TypeOK
<1>3. Refreshes(g) /\ job[g].pc = "next"
  BY <1>1, <1>2, RefreshFacts DEF Unless, Begins, At
<1>4. ShownInv'
  BY <1>3, ShownFrame DEF SkipTable, view
<1> QED
  BY <1>3, <1>4, ReturnOK DEF SkipTable, IInv, TypeOK, selected

LEMMA BeginsRefresh ==
    ASSUME NEW g \in Goroutines, NEW t \in {"processes", "connections"}, Refresh(g, t)
    PROVE  Refreshes(g) /\ job[g].pc = "next"
<1>1. Unless[t] # "draw"
  BY DEF Unless
<1> QED
  BY <1>1, RefreshFacts DEF Refresh, Begins, At

LEMMA StartProcessesOK == ASSUME IInv, NEW g \in Goroutines, StartProcesses(g) PROVE IInv'
<1>1. Refreshes(g) /\ job[g].pc = "next"
  BY BeginsRefresh DEF StartProcesses
<1>2. PICK S \in SUBSET Pids : job' = [job EXCEPT ![g].pc = "range", ![g].todo = S]
  BY DEF StartProcesses
<1> DEFINE j == [job[g] EXCEPT !.pc = "range", !.todo = S]
<1>3. job[g] \in Jobs
  BY DEF IInv, TypeOK, Jobs
<1>4. job' = [job EXCEPT ![g] = j]
  BY <1>2, <1>3 DEF IInv, TypeOK
<1>5. j \in Jobs /\ j.pc = "range" /\ j.rest = job[g].rest /\ j.exists = job[g].exists
  BY <1>3 DEF Jobs, PCs
<1> HIDE DEF j
<1>6. job' \in [Goroutines -> Jobs] /\ job'[g] = j
  BY <1>4, <1>5, JobType DEF IInv
<1>7. TypeOK'
  BY <1>6 DEF IInv, TypeOK, Jobs, StartProcesses, tables, selected, view, options
<1>8. GInv(g)'
  BY <1>1, <1>5, <1>6 DEF IInv, GInv, JobInv, ReadInv, ProcessInv, ConnectionInv, Refreshes
<1>9. ShownInv'
  BY <1>1, ShownFrame DEF StartProcesses, view
<1> QED
  BY <1>1, <1>4, <1>7, <1>8, <1>9, RefreshFrame DEF IInv, StartProcesses

LEMMA VisitProcessOK == ASSUME IInv, NEW g \in Goroutines, VisitProcess(g) PROVE IInv'
<1>1. job[g] \in Jobs /\ job[g].pc = "range" /\ Refreshes(g)
  BY DEF IInv, TypeOK, Jobs, VisitProcess, At, GInv, JobInv
<1>2. PICK j \in Jobs : /\ job' = [job EXCEPT ![g] = j] /\ j.rest = job[g].rest
                        /\ j.exists = job[g].exists
                        /\ \/ j.pc = "range"
                           \/ j.pc = "append" /\ j.bp \in Objects
  <2>1. PICK p \in job[g].todo :
         \/ job' = [job EXCEPT ![g].todo = job[g].todo \ {p}]
         \/ \E o \in PresentWith(p) :
              job' = [job EXCEPT ![g].pc = "append", ![g].todo = job[g].todo \ {p}, ![g].bp = o,
                                 ![g].slice = processes]
    BY DEF VisitProcess
  <2>2. CASE job' = [job EXCEPT ![g].todo = job[g].todo \ {p}]
    <3> DEFINE j == [job[g] EXCEPT !.todo = job[g].todo \ {p}]
    <3>1. j \in Jobs /\ j.rest = job[g].rest /\ j.exists = job[g].exists /\ j.pc = "range"
      BY <1>1 DEF Jobs
    <3>2. job' = [job EXCEPT ![g] = j]
      BY <2>2
    <3> QED
      BY <3>1, <3>2
  <2>3. ASSUME NEW o \in PresentWith(p),
               job' = [job EXCEPT ![g].pc = "append", ![g].todo = job[g].todo \ {p}, ![g].bp = o,
                                  ![g].slice = processes]
        PROVE  \E j \in Jobs : /\ job' = [job EXCEPT ![g] = j] /\ j.rest = job[g].rest
                              /\ j.exists = job[g].exists
                              /\ j.pc = "append" /\ j.bp \in Objects
    <3> DEFINE j == [job[g] EXCEPT !.pc = "append", !.todo = job[g].todo \ {p}, !.bp = o,
                                   !.slice = processes]
    <3>1. o \in Objects /\ processes \in Seq(Objects)
      BY DEF PresentWith, IInv, TypeOK
    <3>2. j \in Jobs /\ j.rest = job[g].rest /\ j.exists = job[g].exists /\ j.pc = "append"
          /\ j.bp = o
      BY <1>1, <3>1 DEF Jobs, PCs
    <3>3. job' = [job EXCEPT ![g] = j]
      BY <2>3, <1>1 DEF IInv, TypeOK
    <3> QED
      BY <3>1, <3>2, <3>3
  <2> QED
    BY <2>1, <2>2, <2>3
<1>3. job' \in [Goroutines -> Jobs] /\ job'[g] = j
  BY <1>2, JobType DEF IInv
<1>4. TypeOK'
  BY <1>3 DEF IInv, TypeOK, Jobs, VisitProcess, tables, selected, lists, view, options
<1>5. GInv(g)'
  BY <1>1, <1>2, <1>3 DEF IInv, GInv, JobInv, ReadInv, ProcessInv, ConnectionInv, Refreshes
<1>6. ShownInv'
  BY <1>1, ShownFrame DEF VisitProcess, view
<1> QED
  BY <1>1, <1>2, <1>4, <1>5, <1>6, RefreshFrame DEF IInv, VisitProcess

LEMMA AppendProcessOK == ASSUME IInv, NEW g \in Goroutines, AppendProcess(g) PROVE IInv'
<1>1. job[g] \in Jobs /\ job[g].pc = "append" /\ Refreshes(g) /\ job[g].bp \in Objects
  BY DEF IInv, TypeOK, Jobs, AppendProcess, At, GInv, JobInv
<1> DEFINE j == [job[g] EXCEPT !.pc = "range", !.bp = Nil, !.slice = <<>>]
<1>2. job' = [job EXCEPT ![g] = j]
  BY <1>1 DEF AppendProcess, IInv, TypeOK
<1>3. j \in Jobs /\ j.pc = "range" /\ j.rest = job[g].rest /\ j.exists = job[g].exists
  <2>1. <<>> \in Seq(Objects) /\ "range" \in PCs
    BY DEF PCs
  <2> QED
    BY <1>1, <2>1 DEF Jobs
<1> HIDE DEF j
<1>4. job' \in [Goroutines -> Jobs] /\ job'[g] = j
  BY <1>2, <1>3, JobType DEF IInv
<1>5. processes' \in Seq(Objects)
  BY <1>1 DEF AppendProcess, Jobs
<1>6. TypeOK'
  BY <1>4, <1>5 DEF IInv, TypeOK, Jobs, AppendProcess, tables, selected, view, options
<1>7. GInv(g)'
  BY <1>1, <1>3, <1>4 DEF IInv, GInv, JobInv, ReadInv, ProcessInv, ConnectionInv, Refreshes
<1>8. ShownInv'
  BY <1>1, ShownFrame DEF AppendProcess, view
<1> QED
  BY <1>1, <1>2, <1>6, <1>7, <1>8, RefreshFrame DEF IInv, AppendProcess

(* A new order of a slice has its elements.                                *)
LEMMA OrdersType ==
    ASSUME NEW S, NEW s \in Seq(S), NEW r \in Orders(s)
    PROVE  r \in Seq(S) /\ Len(r) = Len(s)
<1>1. PICK f \in Bijection(DOMAIN s, DOMAIN s) : r = [k \in DOMAIN s |-> s[f[k]]]
  BY DEF Orders
<1>2. f \in [DOMAIN s -> DOMAIN s]
  BY DEF Bijection, Injection, Surjection
<1>3. DOMAIN s = 1 .. Len(s) /\ Len(s) \in Nat
  OBVIOUS
<1>4. r \in [1 .. Len(s) -> S]
  BY <1>1, <1>2, <1>3
<1> QED
  BY <1>3, <1>4

LEMMA SortProcessesOK == ASSUME IInv, NEW g \in Goroutines, SortProcesses(g) PROVE IInv'
<1>1. job[g] \in Jobs /\ job[g].pc = "range" /\ Refreshes(g) /\ ~job[g].exists
  BY DEF IInv, TypeOK, Jobs, SortProcesses, At, GInv, JobInv
<1> DEFINE j == [job[g] EXCEPT !.pc = "rows", !.i = 1, !.n = Len(processes)]
<1>2. job' = [job EXCEPT ![g] = j]
  BY <1>1 DEF SortProcesses, IInv, TypeOK
<1>3. processes' \in Seq(Objects) /\ Len(processes') = Len(processes)
  BY OrdersType DEF SortProcesses, IInv, TypeOK
<1>4. /\ j \in Jobs /\ j.pc = "rows" /\ j.rest = job[g].rest /\ ~j.exists /\ j.i = 1
      /\ j.n = Len(processes)
  <2>1. Len(processes) \in Nat /\ "rows" \in PCs
    BY DEF IInv, TypeOK, PCs
  <2> QED
    BY <1>1, <2>1 DEF Jobs
<1> HIDE DEF j
<1>5. job' \in [Goroutines -> Jobs] /\ job'[g] = j
  BY <1>2, <1>4, JobType DEF IInv
<1>6. pTable' = <<>> /\ DOMAIN pTable' = {} /\ Range(pTable') = {}
  BY DEF SortProcesses, Range
<1>7. TypeOK'
  BY <1>3, <1>5, <1>6 DEF IInv, TypeOK, Jobs, SortProcesses, Table, tables, selected, options
<1>8. GInv(g)'
  BY <1>1, <1>3, <1>4, <1>5, <1>6
     DEF IInv, GInv, JobInv, ReadInv, ProcessInv, ConnectionInv, Refreshes
<1>9. ShownInv'
  <2>1. ~overlapped => \A h \in Goroutines : job[h].pc \notin {"rows", "rowsOf"}
    BY <1>1, Alone
  <2> QED
    BY <1>4, <1>5, <2>1 DEF IInv, ShownInv, ConnectionShown, SortProcesses, selected
<1> QED
  BY <1>1, <1>2, <1>7, <1>8, <1>9, RefreshFrame DEF IInv, SortProcesses

(* A row set after all others keeps them.                                  *)
LEMMA SetRowFacts ==
    ASSUME NEW S, NEW t, Table(S, t), NEW i \in Nat, NEW x \in S
    PROVE  /\ Table(S, SetRow(t, i, x)) /\ x \in Range(SetRow(t, i, x))
           /\ (\A k \in DOMAIN t : k < i) =>
                /\ Range(t) \subseteq Range(SetRow(t, i, x))
                /\ \A k \in DOMAIN SetRow(t, i, x) : k < i + 1
<1> DEFINE r == SetRow(t, i, x)
<1>1. /\ DOMAIN r = DOMAIN t \cup {i} /\ r[i] = x
      /\ \A k \in DOMAIN t : k # i => r[k] = t[k]
  BY DEF SetRow
<1> HIDE DEF r
<1>2. DOMAIN t \subseteq Nat /\ \A k \in DOMAIN t : t[k] \in S
  BY DEF Table, Range
<1>3. DOMAIN r \subseteq Nat /\ \A k \in DOMAIN r : r[k] \in S
  BY <1>1, <1>2
<1>4. Table(S, r) /\ x \in Range(r)
  BY <1>1, <1>3 DEF Table, Range
<1>5. ASSUME \A k \in DOMAIN t : k < i
      PROVE  Range(t) \subseteq Range(r) /\ \A k \in DOMAIN r : k < i + 1
  <2>1. \A k \in DOMAIN t : k # i /\ k < i + 1
    BY <1>2, <1>5
  <2>2. \A k \in DOMAIN r : k < i + 1
    BY <1>1, <2>1
  <2>3. \A k \in DOMAIN t : k \in DOMAIN r /\ r[k] = t[k]
    BY <1>1, <2>1
  <2> QED
    BY <2>2, <2>3 DEF Range
<1> QED
  BY <1>4, <1>5 DEF r

LEMMA PanicOK ==
    ASSUME IInv, NEW cause \in {"view", "ring"}, Panic(cause), cause = "view" => overlapped,
           UNCHANGED <<tables, selected, lists, view, options, overlapped>>
    PROVE  IInv'
<1>1. crash' = cause /\ UNCHANGED <<tables, selected, lists, view, options, job, overlapped>>
  BY DEF Panic
<1>2. TypeOK'
  BY <1>1 DEF IInv, TypeOK, tables, selected, lists, view, options
<1>3. AloneInv' /\ ShownInv'
  BY <1>1 DEF IInv, AloneInv, ShownInv, Refreshes, ProcessShown, ConnectionShown, selected, view
<1>4. \A g \in Goroutines : GInv(g)'
  BY <1>1 DEF IInv, GInv, JobInv, ReadInv, ProcessInv, ConnectionInv, Refreshes, ProcessShown,
              ConnectionShown, selected, lists, view
<1>5. crash' = "view" => overlapped'
  BY <1>1
<1> QED
  BY <1>2, <1>3, <1>4, <1>5 DEF IInv

(* The job of the next row.                                                *)
LEMMA NextRow ==
    ASSUME NEW j \in Jobs, NEW k \in Nat, NEW e \in BOOLEAN
    PROVE  [j EXCEPT !.i = k, !.exists = e] \in Jobs
  BY DEF Jobs

LEMMA RowOK == ASSUME IInv, NEW g \in Goroutines, Row(g) PROVE IInv'
<1> DEFINE i     == job[g].i
           bp    == processes[i]
           found == selectedProcess # Nil /\ PidOf[selectedProcess] = PidOf[bp]
<1>1. job[g] \in Jobs /\ job[g].pc = "rows" /\ Refreshes(g) /\ i \in Nat /\ i >= 1 /\ i <= job[g].n
  BY DEF IInv, TypeOK, Jobs, Row, At, GInv, JobInv
<1>2. processes \in Seq(Objects) /\ Len(processes) \in Nat
  BY DEF IInv, TypeOK
<1>3. CASE i > Len(processes)
  <2>1. overlapped
    BY <1>1, <1>2, <1>3 DEF IInv, GInv, ReadInv
  <2>2. Panic("view") /\ UNCHANGED <<pTable, recent>>
    BY <1>3 DEF Row
  <2> QED
    BY <2>1, <2>2, PanicOK DEF Row, view
<1>4. CASE ~(i > Len(processes))
  <2>0. PICK e \in BOOLEAN : e <=> job[g].exists \/ found
    <3>1. (job[g].exists \/ found) \in BOOLEAN
      OBVIOUS
    <3> QED
      BY <3>1
  <2> DEFINE j == [job[g] EXCEPT !.i = i + 1, !.exists = e]
  <2>1. /\ pTable' = SetRow(pTable, i, bp)
        /\ recent' = [recent EXCEPT !["processes"] =
                        recent["processes"] \/ found \/ (selectedProcess = Nil /\ i = 1)]
        /\ job' = [job EXCEPT ![g].i = i + 1, ![g].exists = job[g].exists \/ found]
        /\ UNCHANGED crash
    BY <1>4 DEF Row
  <2>2. bp \in Objects
    BY <1>1, <1>2, <1>4
  <2>3. job' = [job EXCEPT ![g] = j]
    <3>1. (job[g].exists \/ found) = e
      BY <2>0
    <3> QED
      BY <1>1, <2>1, <3>1 DEF IInv, TypeOK
  <2>5. /\ j \in Jobs /\ j.pc = "rows" /\ j.rest = job[g].rest /\ j.i = i + 1
        /\ j.n = job[g].n /\ j.exists = e
    <3>1. i + 1 \in Nat
      BY <1>1
    <3>2. j \in Jobs
      BY <1>1, <3>1, NextRow
    <3>3. j.pc = job[g].pc /\ j.rest = job[g].rest /\ j.i = i + 1 /\ j.n = job[g].n
      BY <1>1, <3>1 DEF Jobs
    <3>4. j.exists = e
      BY <1>1 DEF Jobs
    <3> QED
      BY <1>1, <3>2, <3>3, <3>4
  <2> HIDE DEF j
  <2>6. job' \in [Goroutines -> Jobs] /\ job'[g] = j
    BY <2>3, <2>5, JobType DEF IInv
  <2>7. /\ Table(Objects, pTable') /\ bp \in Range(pTable')
        /\ (\A k \in DOMAIN pTable : k < i) =>
             Range(pTable) \subseteq Range(pTable') /\ \A k \in DOMAIN pTable' : k < i + 1
    BY <1>1, <2>1, <2>2, SetRowFacts DEF IInv, TypeOK
  <2>8. recent' \in [{"processes", "connections"} -> BOOLEAN]
    BY <2>1 DEF IInv, TypeOK
  <2>9. TypeOK'
    BY <2>1, <2>6, <2>7, <2>8 DEF IInv, TypeOK, Jobs, Row, tables, selected, lists, options
  <2>10. ~overlapped => /\ j.exists => ProcessShown'
                        /\ \A k \in DOMAIN pTable' : k < j.i
    <3>1. UNCHANGED selectedProcess
      BY DEF Row, selected
    <3>2. ~overlapped => /\ job[g].exists => ProcessShown
                         /\ \A k \in DOMAIN pTable : k < i
      BY <1>1 DEF IInv, GInv, ProcessInv
    <3> QED
      BY <2>0, <2>5, <2>7, <3>1, <3>2 DEF ProcessShown
  <2>11. GInv(g)'
    <3>1. JobInv(g)' /\ ConnectionInv(g)'
      BY <1>1, <2>5, <2>6 DEF JobInv, ConnectionInv, Refreshes
    <3>2. ReadInv(g)'
      BY <1>1, <2>5, <2>6 DEF IInv, GInv, ReadInv, Row, lists
    <3>3. ProcessInv(g)'
      BY <2>5, <2>6, <2>10 DEF ProcessInv, Row
    <3> QED
      BY <3>1, <3>2, <3>3 DEF GInv
  <2>12. ShownInv'
    <3>1. ~overlapped => \A h \in Goroutines : job[h].pc # "rowsOf"
      BY <1>1, Alone
    <3> QED
      BY <2>5, <2>6, <3>1 DEF IInv, ShownInv, ConnectionShown, Row, selected
  <2> QED
    BY <1>1, <2>1, <2>3, <2>9, <2>11, <2>12, RefreshFrame DEF IInv, Row
<1> QED
  BY <1>3, <1>4

LEMMA FinishProcessesOK == ASSUME IInv, NEW g \in Goroutines, FinishProcesses(g) PROVE IInv'
<1>1. job[g].pc = "rows" /\ Refreshes(g)
  BY DEF IInv, FinishProcesses, At, GInv, JobInv
<1>2. /\ selectedProcess' = IF job[g].exists THEN selectedProcess ELSE Nil
      /\ UNCHANGED <<selectedConnection, pTable, cTable, overlapped>>
  BY DEF FinishProcesses, view
<1>3. ShownInv'
  <2>1. ~overlapped => \A h \in Goroutines : job[h].pc # "rowsOf"
    BY <1>1, Alone
  <2>2. ~overlapped /\ selectedProcess' # Nil => ProcessShown'
    BY <1>1, <1>2 DEF IInv, GInv, ProcessInv, ProcessShown
  <2> QED
    BY <1>2, <2>1, <2>2 DEF IInv, ShownInv, ConnectionShown
<1> QED
  BY <1>1, <1>2, <1>3, ReturnOK DEF FinishProcesses, IInv, TypeOK

LEMMA StartConnectionsOK == ASSUME IInv, NEW g \in Goroutines, StartConnections(g) PROVE IInv'
<1>1. Refreshes(g) /\ job[g].pc = "next" /\ job[g] \in Jobs /\ ~job[g].exists
  BY BeginsRefresh DEF StartConnections, IInv, TypeOK, Jobs, GInv, JobInv
<1>2. PICK pc \in {"selected", "first", "list"} :
         /\ job' = [job EXCEPT ![g].pc = pc]
         /\ pc = "selected" => selectedProcess # Nil
         /\ pc = "first" => processes # <<>>
  BY DEF StartConnections, Go
<1>3. connections' \subseteq Conns
  BY DEF StartConnections, GetConnections
<1> DEFINE j == [job[g] EXCEPT !.pc = pc]
<1>4. job' = [job EXCEPT ![g] = j]
  BY <1>2
<1>5. j \in Jobs /\ j.pc = pc /\ j.rest = job[g].rest /\ ~j.exists
  BY <1>1 DEF Jobs, PCs
<1> HIDE DEF j
<1>6. job' \in [Goroutines -> Jobs] /\ job'[g] = j
  BY <1>4, <1>5, JobType DEF IInv
<1>7. cTable' = <<>> /\ DOMAIN cTable' = {} /\ Range(cTable') = {}
  BY DEF StartConnections, Range
<1>8. TypeOK'
  BY <1>3, <1>6, <1>7 DEF IInv, TypeOK, Jobs, StartConnections, Table, tables, selected, options
<1>9. GInv(g)'
  BY <1>1, <1>2, <1>5, <1>6, <1>7
     DEF StartConnections, GInv, JobInv, ReadInv, ProcessInv, ConnectionInv, Refreshes, selected
<1>10. ShownInv'
  <2>1. ~overlapped => \A h \in Goroutines : job[h].pc \notin {"rows", "rowsOf"}
    BY <1>1, Alone
  <2> QED
    BY <1>7, <2>1 DEF IInv, ShownInv, ProcessShown, StartConnections, selected
<1> QED
  BY <1>1, <1>4, <1>8, <1>9, <1>10, RefreshFrame DEF IInv, StartConnections

LEMMA ReadPidOK == ASSUME IInv, NEW g \in Goroutines, ReadPid(g) PROVE IInv'
<1>1. job[g] \in Jobs /\ job[g].pc \in {"selected", "first"} /\ Refreshes(g) /\ ~job[g].exists
  BY DEF IInv, TypeOK, Jobs, ReadPid, At, GInv, JobInv
<1>2. CASE Panic("view")
  <2>1. \/ job[g].pc = "selected" /\ selectedProcess = Nil
        \/ job[g].pc = "first" /\ processes = <<>>
        \/ UNCHANGED crash
    BY DEF ReadPid, At
  <2>2. overlapped
    BY <1>2, <2>1 DEF IInv, GInv, ReadInv, Panic, ReadPid, At
  <2> QED
    BY <1>2, <2>2, PanicOK DEF ReadPid
<1>3. CASE Go(g, "list") /\ UNCHANGED crash
  <2> DEFINE j == [job[g] EXCEPT !.pc = "list"]
  <2>1. job' = [job EXCEPT ![g] = j]
    BY <1>3 DEF Go
  <2>2. j \in Jobs /\ j.pc = "list" /\ j.rest = job[g].rest /\ ~j.exists
    BY <1>1 DEF Jobs, PCs
  <2> HIDE DEF j
  <2>3. job' \in [Goroutines -> Jobs] /\ job'[g] = j
    BY <2>1, <2>2, JobType DEF IInv
  <2>4. TypeOK'
    BY <1>3, <2>3 DEF IInv, TypeOK, Jobs, ReadPid, tables, selected, lists, view, options
  <2>5. GInv(g)'
    BY <1>1, <2>2, <2>3 DEF IInv, ReadPid, GInv, JobInv, ReadInv, ProcessInv, ConnectionInv,
                            Refreshes, view
  <2>6. ShownInv'
    BY <1>1, ShownFrame DEF ReadPid, view
  <2> QED
    BY <1>1, <1>3, <2>1, <2>4, <2>5, <2>6, RefreshFrame DEF IInv, ReadPid
<1> QED
  BY <1>2, <1>3 DEF ReadPid

LEMMA ListConnectionsOK == ASSUME IInv, NEW g \in Goroutines, ListConnections(g) PROVE IInv'
<1>1. job[g] \in Jobs /\ job[g].pc = "list" /\ Refreshes(g) /\ ~job[g].exists
  BY DEF IInv, TypeOK, Jobs, ListConnections, At, GInv, JobInv
<1>2. ShownInv'
  BY <1>1, ShownFrame DEF ListConnections, view
<1>3. PICK L \in SUBSET connections :
        IF L = {} THEN Return(g)
        ELSE job' = [job EXCEPT ![g].pc = "rowsOf", ![g].todo = L, ![g].i = 1]
  BY DEF ListConnections
<1>4. CASE L = {}
  BY <1>1, <1>2, <1>3, <1>4, ReturnOK DEF ListConnections, IInv, TypeOK, selected
<1>5. CASE L # {}
  <2> DEFINE j == [job[g] EXCEPT !.pc = "rowsOf", !.todo = L, !.i = 1]
  <2>1. job' = [job EXCEPT ![g] = j]
    BY <1>1, <1>3, <1>5 DEF IInv, TypeOK
  <2>2. L \subseteq Conns
    BY DEF IInv, TypeOK
  <2>3. /\ j \in Jobs /\ j.pc = "rowsOf" /\ j.rest = job[g].rest /\ ~j.exists
        /\ j.todo = L /\ j.i = 1
    BY <1>1, <2>2 DEF Jobs, PCs
  <2> HIDE DEF j
  <2>4. job' \in [Goroutines -> Jobs] /\ job'[g] = j
    BY <2>1, <2>3, JobType DEF IInv
  <2>5. TypeOK'
    BY <2>4 DEF IInv, TypeOK, Jobs, ListConnections, tables, selected, lists, view, options
  <2>6. ~overlapped => cTable = <<>> /\ UNCHANGED cTable
    BY <1>1 DEF IInv, GInv, ConnectionInv, ListConnections, view
  <2>7. GInv(g)'
    BY <1>1, <2>2, <2>3, <2>4, <2>6 DEF ListConnections, GInv, JobInv, ReadInv, ProcessInv,
                                        ConnectionInv, Refreshes
  <2> QED
    BY <1>1, <1>2, <2>1, <2>5, <2>7, RefreshFrame DEF IInv, ListConnections
<1> QED
  BY <1>4, <1>5

LEMMA ConnectionRowOK == ASSUME IInv, NEW g \in Goroutines, ConnectionRow(g) PROVE IInv'
<1> DEFINE i == job[g].i
<1>1. /\ job[g] \in Jobs /\ job[g].pc = "rowsOf" /\ Refreshes(g) /\ i \in Nat
      /\ job[g].todo \subseteq Conns
  BY DEF IInv, TypeOK, Jobs, ConnectionRow, At, GInv, JobInv
<1>2. PICK c \in job[g].todo :
         LET found == selectedConnection # Nil /\ KeyOf[selectedConnection] = KeyOf[c]
         IN  /\ cTable' = SetRow(cTable, i, c)
             /\ recent' = [recent EXCEPT !["connections"] = recent["connections"] \/ found]
             /\ job' = [job EXCEPT ![g].todo = job[g].todo \ {c}, ![g].i = i + 1,
                                   ![g].exists = job[g].exists \/ found]
  BY DEF ConnectionRow
<1> DEFINE found == selectedConnection # Nil /\ KeyOf[selectedConnection] = KeyOf[c]
           T     == job[g].todo \ {c}
<1>3. PICK e \in BOOLEAN : e <=> job[g].exists \/ found
  <2>1. (job[g].exists \/ found) \in BOOLEAN
    OBVIOUS
  <2> QED
    BY <2>1
<1> DEFINE j0 == [job[g] EXCEPT !.todo = T]
           j  == [job[g] EXCEPT !.todo = T, !.i = i + 1, !.exists = e]
<1>4. job' = [job EXCEPT ![g] = j]
  <2>1. (job[g].exists \/ found) = e
    BY <1>3
  <2> QED
    BY <1>1, <1>2, <2>1 DEF IInv, TypeOK
<1>5. /\ j \in Jobs /\ j.pc = "rowsOf" /\ j.rest = job[g].rest /\ j.i = i + 1
      /\ j.todo \subseteq Conns /\ j.exists = e
  <2>1. i + 1 \in Nat /\ T \subseteq Conns
    BY <1>1
  <2>2. j0 \in Jobs
    BY <1>1, <2>1 DEF Jobs
  <2>3. j = [j0 EXCEPT !.i = i + 1, !.exists = e]
    BY <1>1 DEF Jobs
  <2>4. j \in Jobs
    <3> HIDE DEF j0, j
    <3> QED
      BY <2>1, <2>2, <2>3, NextRow
  <2>5. j.pc = job[g].pc /\ j.rest = job[g].rest /\ j.i = i + 1 /\ j.todo = T
    BY <1>1, <2>1 DEF Jobs
  <2>6. j.exists = e
    BY <1>1 DEF Jobs
  <2> QED
    BY <1>1, <2>1, <2>4, <2>5, <2>6
<1> HIDE DEF j
<1>6. job' \in [Goroutines -> Jobs] /\ job'[g] = j
  BY <1>4, <1>5, JobType DEF IInv
<1>7. c \in Conns
  BY <1>1
<1>8. /\ Table(Conns, cTable') /\ c \in Range(cTable')
      /\ (\A k \in DOMAIN cTable : k < i) =>
           Range(cTable) \subseteq Range(cTable') /\ \A k \in DOMAIN cTable' : k < i + 1
  BY <1>1, <1>2, <1>7, SetRowFacts DEF IInv, TypeOK
<1>9. recent' \in [{"processes", "connections"} -> BOOLEAN]
  BY <1>2 DEF IInv, TypeOK
<1>10. TypeOK'
  BY <1>6, <1>8, <1>9 DEF IInv, TypeOK, Jobs, ConnectionRow, tables, selected, lists, options
<1>11. ~overlapped => /\ j.exists => ConnectionShown'
                      /\ \A k \in DOMAIN cTable' : k < j.i
  <2>1. UNCHANGED selectedConnection
    BY DEF ConnectionRow, selected
  <2>2. ~overlapped => /\ job[g].exists => ConnectionShown
                       /\ \A k \in DOMAIN cTable : k < i
    BY <1>1 DEF IInv, GInv, ConnectionInv
  <2> QED
    BY <1>3, <1>5, <1>8, <2>1, <2>2 DEF ConnectionShown
<1>12. GInv(g)'
  <2>1. JobInv(g)' /\ ReadInv(g)' /\ ProcessInv(g)'
    BY <1>1, <1>5, <1>6 DEF JobInv, ReadInv, ProcessInv, Refreshes
  <2>2. ConnectionInv(g)'
    BY <1>5, <1>6, <1>11 DEF ConnectionInv, ConnectionRow
  <2> QED
    BY <2>1, <2>2 DEF GInv
<1>13. ShownInv'
  <2>1. ~overlapped => \A h \in Goroutines : job[h].pc # "rows"
    BY <1>1, Alone
  <2> QED
    BY <1>5, <1>6, <2>1 DEF IInv, ShownInv, ProcessShown, ConnectionRow, selected
<1> QED
  BY <1>1, <1>4, <1>10, <1>12, <1>13, RefreshFrame DEF IInv, ConnectionRow

LEMMA FinishConnectionsOK == ASSUME IInv, NEW g \in Goroutines, FinishConnections(g) PROVE IInv'
<1>1. job[g].pc = "rowsOf" /\ Refreshes(g)
  BY DEF IInv, FinishConnections, At, GInv, JobInv
<1>2. /\ selectedConnection' = IF job[g].exists THEN selectedConnection ELSE Nil
      /\ UNCHANGED <<selectedProcess, pTable, cTable, overlapped>>
  BY DEF FinishConnections, view
<1>3. ShownInv'
  <2>1. ~overlapped => \A h \in Goroutines : job[h].pc # "rows"
    BY <1>1, Alone
  <2>2. ~overlapped /\ selectedConnection' # Nil => ConnectionShown'
    BY <1>1, <1>2 DEF IInv, GInv, ConnectionInv, ConnectionShown
  <2> QED
    BY <1>2, <2>1, <2>2 DEF IInv, ShownInv, ProcessShown
<1> QED
  BY <1>1, <1>2, <1>3, ReturnOK DEF FinishConnections, IInv, TypeOK

LEMMA StartGraphOK == ASSUME IInv, NEW g \in Goroutines, StartGraph(g) PROVE IInv'
<1>1. Refreshes(g) /\ job[g].pc = "next" /\ job[g] \in Jobs /\ ~job[g].exists
  BY RefreshFacts DEF StartGraph, Begins, At, IInv, TypeOK, Jobs, GInv, JobInv
<1>2. ShownInv'
  BY <1>1, ShownFrame DEF StartGraph, view
<1>3. CASE Return(g)
  BY <1>1, <1>2, <1>3, ReturnOK DEF StartGraph, IInv, TypeOK, selected
<1>4. ASSUME NEW pc \in {"plotConnection", "plotSelected", "plotFirst"}, Go(g, pc),
             pc = "plotConnection" => selectedConnection # Nil,
             pc = "plotSelected" => selectedProcess # Nil,
             pc = "plotFirst" => processes # <<>>
      PROVE  IInv'
  <2> DEFINE j == [job[g] EXCEPT !.pc = pc]
  <2>1. job' = [job EXCEPT ![g] = j]
    BY <1>4 DEF Go
  <2>2. j \in Jobs /\ j.pc = pc /\ j.rest = job[g].rest /\ ~j.exists
    BY <1>1 DEF Jobs, PCs
  <2> HIDE DEF j
  <2>3. job' \in [Goroutines -> Jobs] /\ job'[g] = j
    BY <2>1, <2>2, JobType DEF IInv
  <2>4. TypeOK'
    BY <2>3 DEF IInv, TypeOK, Jobs, StartGraph, tables, selected, lists, view, options
  <2>5. GInv(g)'
    BY <1>1, <1>4, <2>2, <2>3 DEF StartGraph, GInv, JobInv, ReadInv, ProcessInv, ConnectionInv,
                                  Refreshes, selected, lists
  <2> QED
    BY <1>1, <1>2, <2>1, <2>4, <2>5, RefreshFrame DEF IInv, StartGraph
<1> QED
  BY <1>3, <1>4 DEF StartGraph

LEMMA ReadTitleOK == ASSUME IInv, NEW g \in Goroutines, ReadTitle(g) PROVE IInv'
<1>1. /\ job[g].pc \in {"plotConnection", "plotSelected", "plotFirst"} /\ Refreshes(g)
  BY DEF IInv, ReadTitle, At, GInv, JobInv
<1>2. CASE Panic("view")
  <2>1. overlapped
    BY <1>1, <1>2 DEF IInv, GInv, ReadInv, Panic, ReadTitle, At
  <2> QED
    BY <1>2, <2>1, PanicOK DEF ReadTitle
<1>3. CASE Return(g) /\ UNCHANGED crash
  <2>1. ShownInv'
    BY <1>1, ShownFrame DEF ReadTitle, view
  <2> QED
    BY <1>1, <1>3, <2>1, ReturnOK DEF ReadTitle, IInv, TypeOK, selected
<1> QED
  BY <1>2, <1>3 DEF ReadTitle

LEMMA PlotPanicsOK == ASSUME IInv, NEW g \in Goroutines, PlotPanics(g) PROVE IInv'
  BY PanicOK DEF PlotPanics

LEMMA RefreshStepOK == ASSUME IInv, NEW g \in Goroutines, RefreshStep(g) PROVE IInv'
  BY SkipTableOK, StartProcessesOK, VisitProcessOK, AppendProcessOK, SortProcessesOK, RowOK,
     FinishProcessesOK, StartConnectionsOK, ReadPidOK, ListConnectionsOK, ConnectionRowOK,
     FinishConnectionsOK, StartGraphOK, PlotPanicsOK, ReadTitleOK
     DEF RefreshStep

-----------------------------------------------------------------------------
(* A handler that refreshes begins while nobody does, or is remembered.    *)
LEMMA HandleOK ==
    ASSUME IInv, NEW f \in Seq(Functions), Key, Handle(f), UNCHANGED <<lists, pTable, cTable, options>>,
           recent' \in [{"processes", "connections"} -> BOOLEAN],
           selectedProcess' \in Objects \cup {Nil}, selectedConnection' \in Conns \cup {Nil},
           selectedProcess' \in {selectedProcess, Nil} \/ ProcessShown',
           selectedConnection' \in {selectedConnection, Nil} \/ ConnectionShown'
    PROVE  IInv'
<1> DEFINE j == [Idle EXCEPT !.rest = f]
<1>1. job' = [job EXCEPT !["ui"] = j] /\ "ui" \in Goroutines
  BY DEF Handle, Call, Goroutines
<1>2. j \in Jobs /\ j.pc = "next" /\ ~j.exists
  BY IdleFacts
<1> HIDE DEF j
<1>3. job' \in [Goroutines -> Jobs] /\ job'["ui"] = j /\ job'["tick"] = job["tick"]
  <2>1. job' \in [Goroutines -> Jobs] /\ job'["ui"] = j
    BY <1>1, <1>2, JobType DEF IInv
  <2> QED
    BY <1>1, <2>1 DEF IInv, TypeOK, Goroutines
<1>4. overlapped' = (overlapped \/ Refreshes("tick")) /\ crash = "no" /\ UNCHANGED crash
  BY DEF Handle, Key
<1>5. ~overlapped' => /\ ~overlapped /\ ~Refreshes("tick")
                      /\ \A g \in Goroutines : job[g].pc = "next" /\ job'[g].pc = "next"
  <2>1. job["ui"].pc = "next"
    BY DEF IInv, GInv, JobInv, Key, Busy, Refreshes, Goroutines
  <2>2. ~Refreshes("tick") => job["tick"].pc = "next"
    BY DEF IInv, GInv, JobInv, Goroutines
  <2> QED
    BY <1>2, <1>3, <1>4, <2>1, <2>2 DEF Goroutines
<1>6. TypeOK'
  <2>1. keys' \in 0 .. MaxKeys
    BY TopAssumption DEF Key, IInv, TypeOK
  <2>2. overlapped' \in BOOLEAN
    BY <1>4
  <2> QED
    BY <1>3, <1>4, <2>1, <2>2 DEF IInv, TypeOK, Jobs, Key, lists, options
<1>7. AloneInv'
  BY <1>3, <1>4 DEF AloneInv, Refreshes
<1>8. ShownInv'
  <2>1. ~overlapped' => /\ selectedProcess # Nil => ProcessShown
                        /\ selectedConnection # Nil => cTable = <<>> \/ ConnectionShown
    BY <1>5 DEF IInv, ShownInv
  <2> QED
    BY <1>5, <2>1 DEF ShownInv, ProcessShown, ConnectionShown
<1>9. \A g \in Goroutines : JobInv(g)'
  BY <1>2, <1>3 DEF IInv, GInv, JobInv, Refreshes, Goroutines
<1>10. \A g \in Goroutines : ReadInv(g)' /\ ProcessInv(g)' /\ ConnectionInv(g)'
  BY <1>5 DEF ReadInv, ProcessInv, ConnectionInv
<1> QED
  BY <1>4, <1>6, <1>7, <1>8, <1>9, <1>10 DEF IInv, GInv

LEMMA HandlersOK ==
    ASSUME IInv,
           \/ \E o \in Choices(pTable) : ChooseProcess(o)
           \/ \E c \in Choices(cTable) : ChooseConnection(c)
           \/ \E t \in DOMAIN recent : SortBy(t)
           \/ Filter
    PROVE  IInv'
<1>1. ASSUME NEW o \in Choices(pTable), ChooseProcess(o) PROVE IInv'
  <2>1. o \in Objects \cup {Nil} /\ (o = Nil \/ o \in Range(pTable))
    BY <1>1 DEF Choices, IInv, TypeOK, Table
  <2>2. selectedProcess' = o /\ selectedConnection' = Nil /\ UNCHANGED <<pTable, recent>>
    BY <1>1 DEF ChooseProcess, view
  <2>3. selectedProcess' \in {selectedProcess, Nil} \/ ProcessShown'
    BY <2>1, <2>2 DEF ProcessShown
  <2>4. Key /\ Handle(<<"connections", "graph">>) /\ UNCHANGED <<lists, pTable, cTable, options>>
    BY <1>1 DEF ChooseProcess, view
  <2> QED
    BY <2>1, <2>2, <2>3, <2>4, HandleOK, SequenceFacts DEF IInv, TypeOK
<1>2. ASSUME NEW c \in Choices(cTable), ChooseConnection(c) PROVE IInv'
  <2>1. c \in Conns \cup {Nil} /\ (c = Nil \/ c \in Range(cTable))
    BY <1>2 DEF Choices, IInv, TypeOK, Table
  <2>2. selectedConnection' = c /\ UNCHANGED <<selectedProcess, cTable, recent>>
    BY <1>2 DEF ChooseConnection, view
  <2>3. selectedConnection' \in {selectedConnection, Nil} \/ ConnectionShown'
    BY <2>1, <2>2 DEF ConnectionShown
  <2>4. Key /\ Handle(<<"connections", "graph">>) /\ UNCHANGED <<lists, pTable, cTable, options>>
    BY <1>2 DEF ChooseConnection, view
  <2> QED
    BY <2>1, <2>2, <2>3, <2>4, HandleOK, SequenceFacts DEF IInv, TypeOK
<1>3. ASSUME NEW t \in DOMAIN recent, SortBy(t) PROVE IInv'
  <2>1. t \in {"processes", "connections"} /\ recent' \in [{"processes", "connections"} -> BOOLEAN]
    BY <1>3 DEF SortBy, IInv, TypeOK
  <2>2. Key /\ Handle(<<t>>) /\ UNCHANGED <<selected, lists, pTable, cTable, options>>
    BY <1>3 DEF SortBy
  <2> QED
    BY <2>1, <2>2, HandleOK, SequenceFacts DEF IInv, TypeOK, selected
<1>4. ASSUME Filter PROVE IInv'
  <2>1. Key /\ Handle(refreshAll) /\ UNCHANGED <<selected, lists, view, options>>
    BY <1>4 DEF Filter
  <2> QED
    BY <2>1, HandleOK, SequenceFacts DEF IInv, TypeOK, selected, view
<1> QED
  BY <1>1, <1>2, <1>3, <1>4

(* A tick begins to refresh while no handler does, or is remembered.       *)
LEMMA TickOK == ASSUME IInv, Tick PROVE IInv'
<1>1. CASE paused
  <2>1. TypeOK'
    BY <1>1 DEF IInv, TypeOK, Tick, tables, selected, lists, view
  <2> QED
    BY <1>1, <2>1 DEF IInv, Tick, AloneInv, ShownInv, GInv, JobInv, ReadInv, ProcessInv,
       ConnectionInv, Refreshes, ProcessShown, ConnectionShown, tables, selected, lists, view
<1>2. CASE ~paused
  <2> DEFINE j == [Idle EXCEPT !.rest = refreshAll \o <<"draw">>]
  <2>1. job' = [job EXCEPT !["tick"] = j] /\ "tick" \in Goroutines
    BY <1>2 DEF Tick, Call, Goroutines
  <2>2. j \in Jobs /\ j.pc = "next" /\ ~j.exists
    BY IdleFacts, SequenceFacts
  <2> HIDE DEF j
  <2>3. job' \in [Goroutines -> Jobs] /\ job'["tick"] = j /\ job'["ui"] = job["ui"]
    <3>1. job' \in [Goroutines -> Jobs] /\ job'["tick"] = j
      BY <2>1, <2>2, JobType DEF IInv
    <3> QED
      BY <2>1, <3>1 DEF IInv, TypeOK, Goroutines
  <2>4. overlapped' = (overlapped \/ Refreshes("ui")) /\ UNCHANGED crash
    BY <1>2 DEF Tick
  <2>5. ~overlapped' => /\ ~overlapped /\ ~Refreshes("ui")
                        /\ \A g \in Goroutines : job[g].pc = "next" /\ job'[g].pc = "next"
    <3>1. job["tick"].pc = "next"
      BY DEF IInv, GInv, JobInv, Tick, Busy, Refreshes, Goroutines
    <3>2. ~Refreshes("ui") => job["ui"].pc = "next"
      BY DEF IInv, GInv, JobInv, Goroutines
    <3> QED
      BY <2>2, <2>3, <2>4, <3>1, <3>2 DEF Goroutines
  <2>6. TypeOK'
    <3>1. overlapped' \in BOOLEAN
      BY <2>4
    <3> QED
      BY <1>2, <2>3, <3>1 DEF IInv, TypeOK, Jobs, Tick, tables, selected, lists, view
  <2>7. AloneInv'
    BY <2>3, <2>4 DEF AloneInv, Refreshes
  <2>8. ShownInv'
    <3>1. ~overlapped' => /\ selectedProcess # Nil => ProcessShown
                          /\ selectedConnection # Nil => cTable = <<>> \/ ConnectionShown
      BY <2>5 DEF IInv, ShownInv
    <3> QED
      BY <3>1 DEF ShownInv, ProcessShown, ConnectionShown, Tick, selected, view
  <2>9. \A g \in Goroutines : JobInv(g)'
    BY <2>2, <2>3 DEF IInv, GInv, JobInv, Refreshes, Goroutines
  <2>10. \A g \in Goroutines : ReadInv(g)' /\ ProcessInv(g)' /\ ConnectionInv(g)'
    BY <2>5 DEF ReadInv, ProcessInv, ConnectionInv
  <2> QED
    BY <2>4, <2>6, <2>7, <2>8, <2>9, <2>10 DEF IInv, GInv
<1> QED
  BY <1>1, <1>2

LEMMA DrawOK == ASSUME IInv, Draw PROVE IInv'
<1> DEFINE j == [Idle EXCEPT !.rest = Tail(job["tick"].rest)]
<1>1. job' = [job EXCEPT !["tick"] = j] /\ "tick" \in Goroutines
  BY DEF Draw, Return, Call, Goroutines
<1>2. /\ job["tick"].rest \in Seq(Functions) /\ job["tick"].rest # <<>>
      /\ job["tick"].rest = <<"draw">> /\ Tail(job["tick"].rest) = <<>>
  <2>1. job["tick"].rest = <<"draw">> /\ job["tick"].rest \in Seq(Functions)
    BY <1>1 DEF IInv, TypeOK, Draw
  <2>2. Tail(<<"draw">>) = <<>> /\ <<"draw">> # <<>>
    OBVIOUS
  <2> QED
    BY <2>1, <2>2
<1>3. j \in Jobs /\ j.pc = "next" /\ ~j.exists /\ j.rest = <<>>
  BY <1>2, SequenceFacts, IdleFacts
<1> HIDE DEF j
<1>4. job' \in [Goroutines -> Jobs] /\ job'["tick"] = j /\ job'["ui"] = job["ui"]
  <2>1. job' \in [Goroutines -> Jobs] /\ job'["tick"] = j
    BY <1>1, <1>3, JobType DEF IInv
  <2> QED
    BY <1>1, <2>1 DEF IInv, TypeOK, Goroutines
<1>5. \A g \in Goroutines : job[g].pc = "next" /\ job'[g].pc = "next"
  <2>1. job["tick"].pc = "next" /\ job["ui"].pc = "next"
    BY <1>1, <1>2 DEF Draw, IInv, GInv, JobInv, Busy, Refreshes, Goroutines
  <2> QED
    BY <1>3, <1>4, <2>1 DEF Goroutines
<1>6. TypeOK'
  BY <1>4 DEF IInv, TypeOK, Jobs, Draw, tables, selected, lists, view
<1>7. AloneInv'
  BY <1>3, <1>4 DEF AloneInv, Refreshes
<1>8. ShownInv'
  BY <1>5 DEF IInv, ShownInv, ProcessShown, ConnectionShown, Draw, selected, view
<1>9. \A g \in Goroutines : JobInv(g)'
  BY <1>3, <1>4 DEF IInv, GInv, JobInv, Refreshes, Goroutines
<1>10. \A g \in Goroutines : ReadInv(g)' /\ ProcessInv(g)' /\ ConnectionInv(g)'
  BY <1>3, <1>4, <1>5 DEF IInv, GInv, ReadInv, ProcessInv, ConnectionInv, Draw
<1>11. crash' = "view" => overlapped'
  BY DEF IInv, Draw
<1> QED
  BY <1>6, <1>7, <1>8, <1>9, <1>10, <1>11 DEF IInv, GInv

(* The other steps leave what is shown and done alone.                     *)
LEMMA FrameOK ==
    ASSUME IInv, TypeOK', UNCHANGED <<selected, lists, pTable, cTable, job, crash, overlapped>>
    PROVE  IInv'
  BY DEF IInv, AloneInv, ShownInv, GInv, JobInv, ReadInv, ProcessInv, ConnectionInv, Refreshes,
         ProcessShown, ConnectionShown, selected, lists

LEMMA EngineOK == ASSUME IInv, Engine \/ Elapse PROVE IInv'
<1>1. ASSUME NEW x \in Objects \cup Conns, NEW s \in {"present", "gone"}, Change(x, s) PROVE IInv'
  <2>1. state' \in [Objects \cup Conns -> {"new", "present", "gone"}]
    BY <1>1 DEF Change, IInv, TypeOK
  <2>2. TypeOK'
    BY <1>1, <2>1 DEF Change, IInv, TypeOK, selected, lists, view, options
  <2> QED
    BY <1>1, <2>2, FrameOK DEF Change, view
<1>2. CASE Elapse
  <2>1. recent' \in [{"processes", "connections"} -> BOOLEAN]
    BY <1>2 DEF Elapse, IInv, TypeOK
  <2>2. TypeOK'
    BY <1>2, <2>1 DEF Elapse, IInv, TypeOK, tables, selected, lists, options
  <2> QED
    BY <1>2, <2>2, FrameOK DEF Elapse
<1> QED
  BY <1>1, <1>2 DEF Engine, AddProcess, AddConnection, Remove

LEMMA OptionsOK ==
    ASSUME IInv,
           (\E t \in DOMAIN recent : Scroll(t)) \/ Pause \/ \E n \in Intervals : applyOptions(n)
    PROVE  IInv'
<1>1. Key => keys' \in 0 .. MaxKeys /\ UNCHANGED <<state, crash>>
  BY TopAssumption DEF Key, IInv, TypeOK
<1>2. ASSUME NEW t \in DOMAIN recent, Scroll(t) PROVE IInv'
  <2>1. recent' \in [{"processes", "connections"} -> BOOLEAN]
    BY <1>2 DEF Scroll, IInv, TypeOK
  <2>2. TypeOK'
    BY <1>1, <1>2, <2>1 DEF Scroll, IInv, TypeOK, selected, lists, options
  <2> QED
    BY <1>1, <1>2, <2>2, FrameOK DEF Scroll
<1>3. ASSUME Pause PROVE IInv'
  <2>1. TypeOK'
    BY <1>1, <1>3 DEF Pause, IInv, TypeOK, selected, lists, view
  <2> QED
    BY <1>1, <1>3, <2>1, FrameOK DEF Pause, view
<1>4. ASSUME NEW n \in Intervals, applyOptions(n) PROVE IInv'
  <2>1. TypeOK'
    BY <1>1, <1>4 DEF applyOptions, IInv, TypeOK, selected, lists, view
  <2> QED
    BY <1>1, <1>4, <2>1, FrameOK DEF applyOptions, view
<1> QED
  BY <1>2, <1>3, <1>4

LEMMA StepOK == IInv /\ [Next]_vars => IInv'
<1> SUFFICES ASSUME IInv, [Next]_vars PROVE IInv'
  OBVIOUS
<1>1. CASE Engine \/ Elapse
  BY <1>1, EngineOK
<1>2. CASE User
  BY <1>2, HandlersOK, OptionsOK DEF User
<1>3. CASE TickStep
  BY <1>3, TickOK, DrawOK, RefreshStepOK DEF TickStep, Goroutines
<1>4. CASE RefreshStep("ui")
  BY <1>4, RefreshStepOK DEF Goroutines
<1>5. CASE UNCHANGED vars
  <2>1. TypeOK'
    BY <1>5 DEF vars, IInv, TypeOK, tables, selected, lists, view, options
  <2> QED
    BY <1>5, <2>1, FrameOK DEF vars, view
<1> QED
  BY <1>1, <1>2, <1>3, <1>4, <1>5 DEF Next

(* The invariant holds in every behaviour of the terminal UI.              *)
LEMMA Invariance == Spec => []IInv
  BY InitOK, StepOK, PTL DEF Spec

(* Every variable of the terminal UI keeps its type.                       *)
THEOREM TypeCorrect == Spec => []TypeOK
<1>1. IInv => TypeOK
  BY DEF IInv
<1> QED
  BY <1>1, Invariance, PTL

(* A refresh panics over what it shows only if another was in progress at  *)
(* some time: alone, what it reads again after a call is still there.  (The*)
(* panic of Histories against the snapshot worker has another cause.)      *)
THEOREM PanicsNeedOverlaps == Spec => []OnlyOverlapsPanic
<1>1. IInv => OnlyOverlapsPanic
  BY DEF IInv, OnlyOverlapsPanic
<1> QED
  BY <1>1, Invariance, PTL

(* Between refreshes that ran alone, what is selected is in its table.     *)
THEOREM SelectionsAreShown == Spec => []SelectionIsShown
<1>1. IInv => SelectionIsShown
  BY DEF IInv, ShownInv, GInv, JobInv, ProcessShown, ConnectionShown, SelectionIsShown, Goroutines
<1> QED
  BY <1>1, Invariance, PTL
=============================================================================
