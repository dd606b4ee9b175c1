--------------------------------- MODULE Top ---------------------------------
(***************************************************************************)
(* The terminal UI: src/top.  Two goroutines run the same refresh          *)
(* functions over the same package variables, without a lock: the event    *)
(* loop of the widget library, which calls the handlers of keys and        *)
(* clicks, and tick(), which refreshes everything at each tick.            *)
(*                                                                         *)
(* A function is cut where it reads or writes a package variable after a   *)
(* call: what it tested before the call may be otherwise after it.         *)
(*                                                                         *)
(* External: the widgets, the tables of the engine, rates and filters      *)
(* (any row may be hidden), and the time.                                  *)
(***************************************************************************)
EXTENDS Naturals, Sequences, Functions

CONSTANTS
    Objects,       \* process objects of the engine
    Pids,
    PidOf,         \* process object -> pid
    Conns,         \* connection objects of the engine
    OwnerOf,       \* connection object -> process object
    KeyOf,         \* connection object -> its descriptor and inode
    Nil,
    Intervals,     \* intervals that are saved, in seconds
    MaxKeys        \* bound: keys and clicks

ASSUME TopAssumption ==
    /\ PidOf \in [Objects -> Pids] /\ OwnerOf \in [Conns -> Objects]
    /\ DOMAIN KeyOf = Conns
    /\ Nil \notin Objects \cup Conns
    /\ Intervals \subseteq Nat /\ 1 \in Intervals /\ MaxKeys \in Nat

Goroutines == {"ui", "tick"}

VARIABLES
    state,               \* object -> "new", "present" in the tables, or "gone"
    selectedProcess, selectedConnection,
    processes,           \* the slice that a refresh fills
    connections,         \* what GetConnections returned
    pTable, cTable,      \* row -> the reference of its cells
    recent,              \* table -> its selection changed less than 500 ms ago
    paused, tickInterval,
    ticker,              \* the interval of the channel in the variable ticker
    waits,               \* that of the channel from which tick() receives, or last did
    job,                 \* what each goroutine is doing
    keys,
    crash,               \* the panic that has ended the program: over the "view", or a "ring"
    overlapped           \* history: two refreshes were in progress at once

tables   == <<state, keys>>
selected == <<selectedProcess, selectedConnection>>
lists    == <<processes, connections>>
view     == <<pTable, cTable, recent>>
options  == <<paused, tickInterval, ticker, waits>>
vars     == <<tables, selected, lists, view, options, job, crash, overlapped>>

Present == {x \in Objects \cup Conns : state[x] = "present"}
PresentWith(p) == {o \in Objects \cap Present : PidOf[o] = p}

(* GetConnections: those of a process that are accounted.                  *)
GetConnections(o) == {c \in Conns \cap Present : OwnerOf[c] = o}

(* rest: the functions still to run, the one in progress first.            *)
Idle == [pc |-> "next", rest |-> <<>>, todo |-> {}, bp |-> Nil, slice |-> <<>>,
         i |-> 0, n |-> 0, exists |-> FALSE]

Busy(g)      == job[g].rest # <<>>
Refreshes(g) == job[g].rest \notin {<<>>, <<"draw">>}

Init == /\ state = [x \in Objects \cup Conns |-> "new"]
        /\ selectedProcess = Nil /\ selectedConnection = Nil
        /\ processes = <<>> /\ connections = {}
        /\ pTable = <<>> /\ cTable = <<>>
        /\ recent = [t \in {"processes", "connections"} |-> FALSE]
        /\ paused = FALSE /\ tickInterval = 1 /\ ticker = 1 /\ waits = 1
        /\ job = [g \in Goroutines |-> Idle]
        /\ keys = 0
        /\ crash = "no" /\ overlapped = FALSE

-----------------------------------------------------------------------------
(* The engine adds and removes objects; a pid has one object at a time.    *)
Change(x, s) ==
    /\ crash = "no"
    /\ state' = [state EXCEPT ![x] = s]
    /\ UNCHANGED <<keys, selected, lists, view, options, job, crash, overlapped>>

AddProcess(o) ==
    /\ state[o] = "new" /\ PresentWith(PidOf[o]) = {}
    /\ Change(o, "present")

AddConnection(c) ==
    /\ state[c] = "new" /\ OwnerOf[c] \in Present
    /\ Change(c, "present")

Remove(x) ==
    /\ state[x] = "present"
    /\ Change(x, "gone")

(* 500 ms go by.                                                           *)
Elapse ==
    /\ crash = "no"
    /\ \E t \in DOMAIN recent : recent[t]
    /\ recent' = [t \in DOMAIN recent |-> FALSE]
    /\ UNCHANGED <<tables, selected, lists, pTable, cTable, options, job, crash,
                   overlapped>>

-----------------------------------------------------------------------------
(* Handlers, on the event loop.                                            *)

Key == /\ crash = "no" /\ ~Busy("ui") /\ keys < MaxKeys
       /\ keys' = keys + 1
       /\ UNCHANGED <<state, crash>>

Call(g, functions) == job' = [job EXCEPT ![g] = [Idle EXCEPT !.rest = functions]]

Handle(functions) == /\ Call("ui", functions)
                     /\ overlapped' = (overlapped \/ Refreshes("tick"))

(* A row may be empty: the table has fewer, or is being refreshed.         *)
Choices(table) == Range(table) \cup {Nil}

(* Enter in the table of processes, and in that of connections.            *)
ChooseProcess(o) ==
    /\ Key
    /\ selectedProcess' = o /\ selectedConnection' = Nil
    /\ Handle(<<"connections", "graph">>)
    /\ UNCHANGED <<lists, view, options>>

ChooseConnection(c) ==
    /\ Key
    /\ selectedConnection' = c
    /\ Handle(<<"connections", "graph">>)
    /\ UNCHANGED <<selectedProcess, lists, view, options>>

(* The selection moves in a table, to the header if it is to be sorted.    *)
Scroll(t) ==
    /\ Key
    /\ recent' = [recent EXCEPT ![t] = TRUE]
    /\ UNCHANGED <<selected, lists, pTable, cTable, options, job, overlapped>>

SortBy(t) ==
    /\ Key
    /\ recent' = [recent EXCEPT ![t] = TRUE]
    /\ Handle(<<t>>)
    /\ UNCHANGED <<selected, lists, pTable, cTable, options>>

(* The two tables are refreshed unless their selection has just changed.   *)
Unless == [processes |-> "processes?", connections |-> "connections?"]
refreshAll == <<"processes?", "connections?", "graph">>

(* Enter in the filter.                                                    *)
Filter ==
    /\ Key
    /\ Handle(refreshAll)
    /\ UNCHANGED <<selected, lists, view, options>>

(* F5.                                                                     *)
Pause ==
    /\ Key
    /\ paused' = ~paused
    /\ UNCHANGED <<selected, lists, view, tickInterval, ticker, waits, job, overlapped>>

(* Mutant of applyOptions: the old ticker goes on.                         *)
SaveInterval(n) ==
    /\ Key
    /\ n # tickInterval
    /\ tickInterval' = n
    /\ UNCHANGED <<selected, lists, view, paused, ticker, waits, job, overlapped>>

(* Mutant of applyOptions: the interval is stored in milliseconds.         *)
SaveMilliseconds(n) ==
    /\ Key
    /\ n # tickInterval
    /\ tickInterval' = 1000 * n /\ ticker' = 1000 * n
    /\ UNCHANGED <<selected, lists, view, paused, waits, job, overlapped>>

(* time.Tick(0) is a nil channel.                                          *)
applyOptions(n) ==
    /\ Key
    /\ n # tickInterval
    /\ tickInterval' = n /\ ticker' = n
    /\ UNCHANGED <<selected, lists, view, paused, waits, job, overlapped>>

-----------------------------------------------------------------------------
(* tick() receives from the channel that the variable ticker had when its  *)
(* select began; from a nil channel nothing is ever received.              *)
Tick ==
    /\ crash = "no" /\ ~Busy("tick") /\ waits # 0
    /\ IF paused
       THEN waits' = ticker /\ UNCHANGED <<job, overlapped>>
       ELSE /\ Call("tick", refreshAll \o <<"draw">>)
            /\ overlapped' = (overlapped \/ Refreshes("ui"))
            /\ UNCHANGED waits
    /\ UNCHANGED <<tables, selected, lists, view, paused, tickInterval, ticker, crash>>

-----------------------------------------------------------------------------
(* The functions that a goroutine runs one after the other.                *)

At(g, pc) == crash = "no" /\ Busy(g) /\ job[g].pc = pc
Begins(g, function) == At(g, "next") /\ Head(job[g].rest) = function
Return(g) == Call(g, Tail(job[g].rest))
Go(g, pc) == job' = [job EXCEPT ![g].pc = pc]
Panic(cause) == crash' = cause /\ UNCHANGED job

(* app.Draw waits until the event loop has drawn.                          *)
Draw ==
    /\ crash = "no" /\ job["tick"].rest = <<"draw">> /\ ~Busy("ui")
    /\ Return("tick")
    /\ waits' = ticker
    /\ UNCHANGED <<tables, selected, lists, view, paused, tickInterval, ticker, crash, overlapped>>

(* refreshAll leaves a table alone if its selection has just changed.      *)
SkipTable(g) ==
    /\ \E t \in DOMAIN recent : Begins(g, Unless[t]) /\ recent[t]
    /\ Return(g)
    /\ UNCHANGED <<tables, selected, lists, view, options, crash, overlapped>>

Refresh(g, t) == Begins(g, t) \/ (Begins(g, Unless[t]) /\ ~recent[t])

(* refreshProcessTable                                                     *)
StartProcesses(g) ==
    /\ Refresh(g, "processes")
    /\ processes' = <<>>
    /\ \E S \in SUBSET Pids :
         /\ {p \in Pids : PresentWith(p) # {}} \subseteq S
         /\ job' = [job EXCEPT ![g].pc = "range", ![g].todo = S]
    /\ UNCHANGED <<tables, selected, connections, view, options, crash, overlapped>>

(* The callback of Range: the process is gone or hidden, or is appended to *)
(* the slice, which is read before it is written.                          *)
VisitProcess(g) ==
    /\ At(g, "range")
    /\ \E p \in job[g].todo :
         \/ job' = [job EXCEPT ![g].todo = @ \ {p}]
         \/ \E o \in PresentWith(p) :
              job' = [job EXCEPT ![g].pc = "append", ![g].todo = @ \ {p}, ![g].bp = o,
                                 ![g].slice = processes]
    /\ UNCHANGED <<tables, selected, lists, view, options, crash, overlapped>>

AppendProcess(g) ==
    /\ At(g, "append")
    /\ processes' = Append(job[g].slice, job[g].bp)
    /\ job' = [job EXCEPT ![g].pc = "range", ![g].bp = Nil, ![g].slice = <<>>]
    /\ UNCHANGED <<tables, selected, connections, view, options, crash, overlapped>>

(* Any order may be that of the rates.  The loop goes over as many rows as *)
(* there are when it begins.                                               *)
Orders(s) == {[k \in DOMAIN s |-> s[f[k]]] : f \in Bijection(DOMAIN s, DOMAIN s)}

SortProcesses(g) ==
    /\ At(g, "range") /\ job[g].todo = {}
    /\ processes' \in Orders(processes)
    /\ pTable' = <<>>
    /\ job' = [job EXCEPT ![g].pc = "rows", ![g].i = 1, ![g].n = Len(processes)]
    /\ UNCHANGED <<tables, selected, connections, cTable, recent, options, crash,
                   overlapped>>

SetRow(table, i, x) == [k \in DOMAIN table \cup {i} |-> IF k = i THEN x ELSE table[k]]

(* Each row is read from the variable processes.  The selected one, or the *)
(* first if none is, becomes the selection of the table.                   *)
Row(g) ==
    LET i     == job[g].i
        bp    == processes[i]
        found == selectedProcess # Nil /\ PidOf[selectedProcess] = PidOf[bp]
    IN  /\ At(g, "rows") /\ i <= job[g].n
        /\ IF i > Len(processes)
           THEN Panic("view") /\ UNCHANGED <<pTable, recent>>
           ELSE /\ pTable' = SetRow(pTable, i, bp)
                /\ recent' = [recent EXCEPT !["processes"] =
                                @ \/ found \/ (selectedProcess = Nil /\ i = 1)]
                /\ job' = [job EXCEPT ![g].i = i + 1, ![g].exists = @ \/ found]
                /\ UNCHANGED crash
        /\ UNCHANGED <<tables, selected, lists, cTable, options, overlapped>>

(* Mutant of FinishProcesses: the selection is kept.                       *)
FinishProcessesOnly(g) ==
    /\ At(g, "rows") /\ job[g].i > job[g].n
    /\ Return(g)
    /\ UNCHANGED <<tables, selected, lists, view, options, crash, overlapped>>

FinishProcesses(g) ==
    /\ At(g, "rows") /\ job[g].i > job[g].n
    /\ selectedProcess' = IF job[g].exists THEN selectedProcess ELSE Nil
    /\ Return(g)
    /\ UNCHANGED <<tables, selectedConnection, lists, view, options, crash, overlapped>>

(* Mutant of StartConnections: there is always a process.                  *)
StartConnectionsOfAny(g) ==
    /\ Refresh(g, "connections")
    /\ cTable' = <<>>
    /\ IF selectedProcess # Nil
       THEN connections' = GetConnections(selectedProcess) /\ Go(g, "selected")
       ELSE /\ connections' = IF processes = <<>> THEN {} ELSE GetConnections(processes[1])
            /\ Go(g, "first")
    /\ UNCHANGED <<tables, selected, processes, pTable, recent, options, crash, overlapped>>

(* refreshConnectionTable: of the selected process, or of the first.       *)
StartConnections(g) ==
    /\ Refresh(g, "connections")
    /\ cTable' = <<>>
    /\ \/ /\ selectedProcess # Nil
          /\ connections' = GetConnections(selectedProcess) /\ Go(g, "selected")
       \/ /\ selectedProcess = Nil /\ processes # <<>>
          /\ connections' = GetConnections(processes[1]) /\ Go(g, "first")
       \/ /\ selectedProcess = Nil /\ processes = <<>>
          /\ connections' = {} /\ Go(g, "list")
    /\ UNCHANGED <<tables, selected, processes, pTable, recent, options, crash, overlapped>>

(* After the call, the same variable is read again for the pid.            *)
ReadPid(g) ==
    /\ At(g, "selected") \/ At(g, "first")
    /\ IF \/ At(g, "selected") /\ selectedProcess = Nil
          \/ At(g, "first") /\ processes = <<>>
       THEN Panic("view")
       ELSE Go(g, "list") /\ UNCHANGED crash
    /\ UNCHANGED <<tables, selected, lists, view, options, overlapped>>

(* Those that are not hidden; if there are none nothing else is done.      *)
ListConnections(g) ==
    /\ At(g, "list")
    /\ \E L \in SUBSET connections :
         IF L = {} THEN Return(g)
         ELSE job' = [job EXCEPT ![g].pc = "rowsOf", ![g].todo = L, ![g].i = 1]
    /\ UNCHANGED <<tables, selected, lists, view, options, crash, overlapped>>

ConnectionRow(g) ==
    /\ At(g, "rowsOf")
    /\ \E c \in job[g].todo :
         LET found == selectedConnection # Nil /\ KeyOf[selectedConnection] = KeyOf[c]
         IN  /\ cTable' = SetRow(cTable, job[g].i, c)
             /\ recent' = [recent EXCEPT !["connections"] = @ \/ found]
             /\ job' = [job EXCEPT ![g].todo = @ \ {c}, ![g].i = @ + 1, ![g].exists = @ \/ found]
    /\ UNCHANGED <<tables, selected, lists, pTable, options, crash, overlapped>>

FinishConnections(g) ==
    /\ At(g, "rowsOf") /\ job[g].todo = {}
    /\ selectedConnection' = IF job[g].exists THEN selectedConnection ELSE Nil
    /\ Return(g)
    /\ UNCHANGED <<tables, selectedProcess, lists, view, options, crash, overlapped>>

(* refreshGraphPanel: calls Histories of one object, or plots the old ones.*)
StartGraph(g) ==
    /\ Begins(g, "graph")
    /\ \/ selectedConnection # Nil /\ Go(g, "plotConnection")
       \/ selectedConnection = Nil /\ selectedProcess # Nil /\ Go(g, "plotSelected")
       \/ selectedConnection = Nil /\ selectedProcess = Nil /\ processes # <<>> /\ Go(g, "plotFirst")
       \/ selectedConnection = Nil /\ selectedProcess = Nil /\ processes = <<>> /\ Return(g)
    /\ UNCHANGED <<tables, selected, lists, view, options, crash, overlapped>>

(* Histories, which does not take SnapshotLock, panics if it reads a slot  *)
(* that the snapshot worker is filling (RWCounter).                        *)
PlotPanics(g) ==
    /\ \E pc \in {"plotConnection", "plotSelected", "plotFirst"} : At(g, pc)
    /\ Panic("ring")
    /\ UNCHANGED <<tables, selected, lists, view, options, overlapped>>

(* After the call, the same variable is read again for the title.          *)
ReadTitle(g) ==
    /\ At(g, "plotConnection") \/ At(g, "plotSelected") \/ At(g, "plotFirst")
    /\ IF \/ At(g, "plotConnection") /\ selectedConnection = Nil
          \/ At(g, "plotSelected") /\ selectedProcess = Nil
          \/ At(g, "plotFirst") /\ processes = <<>>
       THEN Panic("view")
       ELSE Return(g) /\ UNCHANGED crash
    /\ UNCHANGED <<tables, selected, lists, view, options, overlapped>>

-----------------------------------------------------------------------------
RefreshStep(g) == \/ SkipTable(g)
                  \/ StartProcesses(g) \/ VisitProcess(g) \/ AppendProcess(g) \/ SortProcesses(g)
                  \/ Row(g) \/ FinishProcesses(g)
                  \/ StartConnections(g) \/ ReadPid(g) \/ ListConnections(g) \/ ConnectionRow(g)
                  \/ FinishConnections(g)
                  \/ StartGraph(g) \/ PlotPanics(g) \/ ReadTitle(g)

TickStep == Tick \/ Draw \/ RefreshStep("tick")

User == \/ \E o \in Choices(pTable) : ChooseProcess(o)
        \/ \E c \in Choices(cTable) : ChooseConnection(c)
        \/ \E t \in DOMAIN recent : Scroll(t) \/ SortBy(t)
        \/ Filter \/ Pause
        \/ \E n \in Intervals : applyOptions(n)

Engine == \/ \E o \in Objects : AddProcess(o)
          \/ \E c \in Conns : AddConnection(c)
          \/ \E x \in Objects \cup Conns : Remove(x)

Next == Engine \/ Elapse \/ User \/ TickStep \/ RefreshStep("ui")

Spec == Init /\ [][Next]_vars

(* Both goroutines run on, a ticker that is waited for ticks, time passes. *)
FairSpec == Spec /\ WF_vars(TickStep) /\ WF_vars(RefreshStep("ui")) /\ WF_vars(Elapse)

-----------------------------------------------------------------------------
(* Properties.                                                             *)

PCs == {"next", "range", "append", "rows", "selected", "first", "list", "rowsOf",
        "plotConnection", "plotSelected", "plotFirst"}
Functions == {"processes", "processes?", "connections", "connections?", "graph", "draw"}

Table(S, t) == DOMAIN t \subseteq Nat /\ Range(t) \subseteq S

(* The type invariant.                                                     *)
TypeOK ==
    /\ state \in [Objects \cup Conns -> {"new", "present", "gone"}]
    /\ selectedProcess \in Objects \cup {Nil} /\ selectedConnection \in Conns \cup {Nil}
    /\ processes \in Seq(Objects) /\ connections \subseteq Conns
    /\ Table(Objects, pTable) /\ Table(Conns, cTable)
    /\ recent \in [{"processes", "connections"} -> BOOLEAN]
    /\ paused \in BOOLEAN /\ {tickInterval, ticker, waits} \subseteq Intervals
    /\ job \in [Goroutines -> [pc : PCs, rest : Seq(Functions), todo : SUBSET (Pids \cup Conns),
                               bp : Objects \cup {Nil}, slice : Seq(Objects), i : Nat, n : Nat,
                               exists : BOOLEAN]]
    /\ keys \in 0 .. MaxKeys
    /\ crash \in {"no", "view", "ring"} /\ overlapped \in BOOLEAN

(* A refresh that runs alone never panics over what it shows, whatever the *)
(* engine adds and removes and the filters hide meanwhile: what it reads a *)
(* second time is still there.  Only a handler and a tick at once can make *)
(* it; a ring that is read while the snapshot worker fills it (PlotPanics) *)
(* is another matter, and needs no other refresh.                          *)
OnlyOverlapsPanic == crash = "view" => overlapped

(* Between refreshes that ran alone, what is selected is in its table: by  *)
(* its pid, or by its descriptor and inode unless the table is empty.      *)
SelectionIsShown ==
    ~overlapped /\ ~Refreshes("ui") /\ ~Refreshes("tick") =>
        /\ selectedProcess # Nil => \E o \in Range(pTable) : PidOf[o] = PidOf[selectedProcess]
        /\ selectedConnection # Nil =>
             cTable = <<>> \/ \E c \in Range(cTable) : KeyOf[c] = KeyOf[selectedConnection]

(* A process that has ended leaves the table, and the selection: in the    *)
(* end it is not there any more, even if refreshes overlapped, unless the  *)
(* view is paused, the program has panicked or tick() waits for ever.      *)
Departed(p) == \A o \in Objects : PidOf[o] = p => state[o] = "gone"
Out(p)      == /\ \A o \in Range(pTable) : PidOf[o] # p
               /\ selectedProcess # Nil => PidOf[selectedProcess] # p

EndedProcessesLeave ==
    <>[](~paused /\ crash = "no" /\ waits # 0) => \A p \in Pids : <>[]Departed(p) => <>[]Out(p)

(* tickInterval is "the interval we update the view" (options_panel.go:44) *)
(* once the old ticker has ticked, unless that was one of zero seconds.    *)
SavedIntervalIsUsed ==
    \A n \in Intervals : tickInterval = n ~> tickInterval # n \/ waits \in {n, 0} \/ crash # "no"
=============================================================================
