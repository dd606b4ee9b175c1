------------------------------- MODULE Scrape -------------------------------
(***************************************************************************)
(* The Prometheus endpoint: export2prometheus in src/web/api, Puller,      *)
(* ProcessBandwidthPuller and accumulator in src/web/prom.  For a request, *)
(* the registry calls Collect, which reads a channel that one goroutine    *)
(* fills, walking the tables of the engine, and that another closes when   *)
(* the first is through.                                                   *)
(*                                                                         *)
(* External: the rate limiter, the registry and its handler (a library),   *)
(* and the engine, that changes its tables meanwhile.                      *)
(***************************************************************************)
EXTENDS Integers, Sequences, FiniteSets, SequencesExt

CONSTANTS
    Requests,       \* requests for /metrics
    Processes,      \* process objects
    FDs,
    Sockets,        \* connections, by their two addresses
    NoSocket,
    GeneralSize,    \* capacity of generalCh (10)
    MaxChanges      \* bound: changes of the tables

Free == "free"   \* nobody holds mu

ASSUME ScrapeAssumption ==
    /\ Free \notin Requests
    /\ NoSocket \notin Sockets
    /\ GeneralSize \in Nat \ {0} /\ MaxChanges \in Nat
    /\ IsFiniteSet(Processes) /\ IsFiniteSet(FDs)

None == [name |-> "none"]

(* A metric has two fields; its labels are the pid and the name of the     *)
(* process, or the addresses of the connection.                            *)
Metrics == [name : {"process_bandwidth"}, labels : Processes]
             \cup [name : {"process_bandwidth_connection"}, labels : Sockets]
Fields  == {"in", "out"}

VARIABLES
    state,        \* process object -> "new", "present" in ProcessesMap, or "gone"
    connections,  \* process object -> fd -> its connection, if it is accounted
    changes,
    mu,           \* ProcessBandwidthPuller.mu
    req           \* each request: its goroutines and its channel

tables == <<state, connections, changes>>
vars   == <<tables, mu, req>>

Present == {p \in Processes : state[p] = "present"}

Fresh == [pc |-> "new", gather |-> "off", closed |-> FALSE, generalCh |-> <<>>, out |-> <<>>,
          procs |-> {}, p |-> None, fds |-> {}, always |-> {}]

Init == /\ state \in [Processes -> {"new", "present"}]
        /\ connections = [p \in Processes |-> [f \in FDs |-> NoSocket]]
        /\ changes = 0
        /\ mu = Free
        /\ req = [r \in Requests |-> Fresh]

-----------------------------------------------------------------------------
(* The engine.  Processes that share a socket both get a connection of it, *)
(* and so do two descriptors of one process.                               *)
Change(s, c) ==
    /\ changes < MaxChanges
    /\ changes' = changes + 1
    /\ state' = s /\ connections' = c
    /\ req' = [r \in Requests |-> [req[r] EXCEPT !.always = {p \in @ : s[p] = "present"}]]
    /\ UNCHANGED mu

AddProcess(p) ==
    /\ state[p] = "new"
    /\ Change([state EXCEPT ![p] = "present"], connections)

RemoveProcess(p) ==
    /\ state[p] = "present"
    /\ Change([state EXCEPT ![p] = "gone"], connections)

ChangeConnection(p, f, s) ==
    /\ state[p] # "new"
    /\ (connections[p][f] = NoSocket) # (s = NoSocket)
    /\ Change(state, [connections EXCEPT ![p][f] = s])

-----------------------------------------------------------------------------
(* export2prometheus: the limiter refuses a request, or lets it through to *)
(* the registry, which calls Collect.                                      *)
Refuse(r) ==
    /\ req[r].pc = "new"
    /\ req' = [req EXCEPT ![r].pc = "refused"]
    /\ UNCHANGED <<tables, mu>>

Collect(r) ==
    /\ req[r].pc = "new"
    /\ req' = [req EXCEPT ![r].pc = "collect", ![r].gather = "lock"]
    /\ UNCHANGED <<tables, mu>>

(* Mutant of StartGather: without mu.                                      *)
StartAnyGather(r) ==
    /\ req[r].gather = "lock"
    /\ mu' = r
    /\ \E S \in SUBSET Processes :
         /\ Present \subseteq S
         /\ req' = [req EXCEPT ![r].gather = "processes", ![r].procs = S, ![r].always = Present]
    /\ UNCHANGED tables

(* Gather takes mu and walks ProcessesMap: Range visits each key that is   *)
(* there all the time, and may visit others.                               *)
StartGather(r) ==
    /\ req[r].gather = "lock"
    /\ mu = Free
    /\ mu' = r
    /\ \E S \in SUBSET Processes :
         /\ Present \subseteq S
         /\ req' = [req EXCEPT ![r].gather = "processes", ![r].procs = S, ![r].always = Present]
    /\ UNCHANGED tables

(* acc.AddFields waits for room in the channel.                            *)
Room(r) == Len(req[r].generalCh) < GeneralSize

(* A process that is gone is passed over.                                  *)
PassProcess(r) ==
    /\ req[r].gather = "processes"
    /\ \E p \in req[r].procs \ Present : req' = [req EXCEPT ![r].procs = @ \ {p}]
    /\ UNCHANGED <<tables, mu>>

GatherProcess(r) ==
    /\ req[r].gather = "processes"
    /\ Room(r)
    /\ \E p \in req[r].procs \cap Present, S \in SUBSET FDs :
         /\ {f \in FDs : connections[p][f] # NoSocket} \subseteq S
         /\ req' = [req EXCEPT ![r].generalCh = Append(@, [name |-> "process_bandwidth", labels |-> p]),
                      ![r].gather = "connections", ![r].procs = @ \ {p}, ![r].p = p, ![r].fds = S]
    /\ UNCHANGED <<tables, mu>>

(* Mutant of GatherConnection: every connection has a ConnectionInfo.      *)
GatherAnyConnection(r) ==
    /\ req[r].gather = "connections"
    /\ Room(r)
    /\ \E f \in req[r].fds :
         LET s == connections[req[r].p][f]
         IN  req' = [req EXCEPT ![r].fds = @ \ {f},
                       ![r].generalCh = Append(@, [name |-> "process_bandwidth_connection", labels |-> s])]
    /\ UNCHANGED <<tables, mu>>

(* A connection that should be skipped (ShouldSkip) is passed over.        *)
GatherConnection(r) ==
    /\ req[r].gather = "connections"
    /\ \E f \in req[r].fds :
         LET s == connections[req[r].p][f]
         IN  IF s = NoSocket
             THEN req' = [req EXCEPT ![r].fds = @ \ {f}]
             ELSE /\ Room(r)
                  /\ req' = [req EXCEPT ![r].fds = @ \ {f},
                       ![r].generalCh = Append(@, [name |-> "process_bandwidth_connection", labels |-> s])]
    /\ UNCHANGED <<tables, mu>>

NextProcess(r) ==
    /\ req[r].gather = "connections" /\ req[r].fds = {}
    /\ req' = [req EXCEPT ![r].gather = "processes", ![r].p = None]
    /\ UNCHANGED <<tables, mu>>

(* Mutant of EndGather: mu stays locked.                                   *)
EndGatherLocked(r) ==
    /\ req[r].gather = "processes" /\ req[r].procs = {}
    /\ req' = [req EXCEPT ![r].gather = "done"]
    /\ UNCHANGED <<tables, mu>>

(* mu.Unlock and wg.Done, both deferred.                                   *)
EndGather(r) ==
    /\ req[r].gather = "processes" /\ req[r].procs = {}
    /\ mu' = Free
    /\ req' = [req EXCEPT ![r].gather = "done"]
    /\ UNCHANGED tables

(* wg.Wait and close(generalCh).                                           *)
Close(r) ==
    /\ req[r].gather = "done" /\ ~req[r].closed
    /\ req' = [req EXCEPT ![r].closed = TRUE]
    /\ UNCHANGED <<tables, mu>>

(* Collect sends what it receives, a metric for each field.                *)
Convert(m) == SetToSeq([name : {m.name}, labels : {m.labels}, field : Fields])

Emit(r) ==
    /\ req[r].pc = "collect"
    /\ req[r].generalCh # <<>>
    /\ req' = [req EXCEPT ![r].generalCh = Tail(@), ![r].out = @ \o Convert(Head(req[r].generalCh))]
    /\ UNCHANGED <<tables, mu>>

(* Mutant of Answer: Collect returns when the channel is closed, with what *)
(* is still in it.                                                         *)
AnswerClosed(r) ==
    /\ req[r].pc = "collect"
    /\ req[r].closed
    /\ req' = [req EXCEPT ![r].pc = IF IsInjective(req[r].out) THEN "answered" ELSE "error"]
    /\ UNCHANGED <<tables, mu>>

(* Collect returns.  The registry refuses two metrics with the same name   *)
(* and labels, and its handler then answers with an error alone.           *)
Answer(r) ==
    /\ req[r].pc = "collect"
    /\ req[r].closed /\ req[r].generalCh = <<>>
    /\ req' = [req EXCEPT ![r].pc = IF IsInjective(req[r].out) THEN "answered" ELSE "error"]
    /\ UNCHANGED <<tables, mu>>

-----------------------------------------------------------------------------
Gather(r) == \/ StartGather(r) \/ PassProcess(r) \/ GatherProcess(r) \/ GatherConnection(r)
             \/ NextProcess(r) \/ EndGather(r)

Engine == \E p \in Processes : \/ AddProcess(p) \/ RemoveProcess(p)
                               \/ \E f \in FDs, s \in Sockets \cup {NoSocket} : ChangeConnection(p, f, s)

Next == \/ Engine
        \/ \E r \in Requests : Refuse(r) \/ Collect(r) \/ Gather(r) \/ Close(r) \/ Emit(r) \/ Answer(r)

Spec == Init /\ [][Next]_vars

(* The three goroutines of a request run on; mu is a fair lock.            *)
FairSpec == /\ Spec
            /\ \A r \in Requests : WF_vars(Gather(r)) /\ WF_vars(Close(r)) /\ WF_vars(Emit(r) \/ Answer(r))

-----------------------------------------------------------------------------
(* Properties.                                                             *)

Ended == {"answered", "error"}

(* The type invariant.                                                     *)
TypeOK ==
    /\ state \in [Processes -> {"new", "present", "gone"}]
    /\ connections \in [Processes -> [FDs -> Sockets \cup {NoSocket}]]
    /\ changes \in 0 .. MaxChanges
    /\ mu \in Requests \cup {Free}
    /\ \A r \in Requests :
         /\ req[r].pc \in {"new", "refused", "collect"} \cup Ended
         /\ req[r].gather \in {"off", "lock", "processes", "connections", "done"}
         /\ req[r].closed \in BOOLEAN
         /\ req[r].generalCh \in Seq(Metrics) /\ Len(req[r].generalCh) <= GeneralSize
         /\ req[r].out \in Seq([name : {m.name : m \in Metrics}, labels : Processes \cup Sockets,
                                field : Fields])
         /\ req[r].procs \subseteq Processes /\ req[r].always \subseteq Processes
         /\ req[r].fds \subseteq FDs

(* One gathering at a time, as mu is there for, and nobody sends to a      *)
(* channel after it was closed, which would end the program.               *)
GathersAlone ==
    \A r \in Requests : req[r].gather \in {"processes", "connections"} => mu = r /\ ~req[r].closed

(* An answer has each process that was there from the beginning of the     *)
(* walk until then, in both directions, and none twice: nothing is left in *)
(* the channel when Collect returns.                                       *)
AnswersAreComplete ==
    \A r \in Requests :
        LET of(p) == {i \in DOMAIN req[r].out : /\ req[r].out[i].name = "process_bandwidth"
                                               /\ req[r].out[i].labels = p}
        IN  req[r].pc \in Ended =>
              \A p \in Processes : Cardinality(of(p)) \in (IF p \in req[r].always THEN {2} ELSE {0, 2})

(* A request that the limiter lets through is answered: the goroutines do  *)
(* not wait for each other in a circle, whatever room the channel has.     *)
ScrapesEnd == \A r \in Requests : req[r].pc = "collect" ~> req[r].pc \in Ended
=============================================================================
