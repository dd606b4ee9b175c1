------------------------------- MODULE Engine -------------------------------
(***************************************************************************)
(* The accounting core of process-bandwidth: src/engine.  Event workers    *)
(* (worker.go, event.go) create and update process and connection objects  *)
(* that they find through three shared concurrent maps, while the snapshot *)
(* worker (worker.go) walks the same maps once a second, takes a snapshot  *)
(* of every counter and evicts what has been idle for too long.            *)
(*                                                                         *)
(* One step is one operation on a shared map, one sync.Once transition or  *)
(* one update of a counter, so that every interleaving the goroutines can  *)
(* produce on these is a behaviour.  Nothing is assumed about the order in *)
(* which events arrive: the probe loses and reorders them.                 *)
(***************************************************************************)
EXTENDS Naturals, FiniteSets, FiniteSetsExt

CONSTANTS
    Workers,      \* the goroutines running processPerfEvents
    Pids,         \* process ids
    FDs,          \* file descriptors
    FDTypes,      \* descriptor types the probe puts in read/write events
    Sizes,        \* byte counts of read/write events
    Inodes,       \* socket inodes
    NoInode,
    Addresses,    \* local addresses of sockets
    Loopback,     \* those that are loopback addresses
    Torn,         \* an address that is being written
    Ifaces,       \* network interfaces
    NoIface,      \* an address belongs to no known interface
    IfaceOf,      \* the interface that has an address
    MaxEvents,    \* bound: how many events the workers receive
    IdleTimeout   \* config.GlobalConfig.IdleTimeout, in clock ticks

ASSUME WorkersAssumption == IsFiniteSet(Workers) /\ Workers # {}
ASSUME TypesAssumption == FDTypes \subseteq {"unknown", "socket", "file"}
ASSUME SizesAssumption == Sizes \subseteq Nat \ {0}
ASSUME InodesAssumption == NoInode \notin Inodes
ASSUME AddressesAssumption == Loopback \subseteq Addresses /\ Torn \notin Addresses
ASSUME IfacesAssumption ==
    /\ IfaceOf \in [Addresses -> Ifaces \cup {NoIface}]
    /\ IsFiniteSet(Ifaces) /\ NoIface \notin Ifaces
ASSUME BoundsAssumption == MaxEvents \in Nat /\ IdleTimeout \in Nat

(***************************************************************************)
(* An object is named by the number of the event whose handler allocated   *)
(* it: a read/write event allocates at most one process and at most one    *)
(* connection.  Its scan of /proc/net, if it makes one, allocates at most  *)
(* one ConnectionInfo for an inode.  Nil and NoInfo are nil pointers.      *)
(***************************************************************************)
Nil == 0
Ids == 1 .. MaxEvents
Infos  == Ids \X Inodes
NoInfo == <<Nil, NoInode>>
Free == "free"
ASSUME LockAssumption == Free \notin Workers

RWEvents    == [kind : {"rw"}, pid : Pids, fd : FDs, type : FDTypes, size : Sizes]
CloseEvents == [kind : {"close"}, pid : Pids, fd : FDs]
ExitEvents  == [kind : {"exit"}, pid : Pids, leader : BOOLEAN]
Events      == RWEvents \cup CloseEvents \cup ExitEvents
NoEvent     == [kind |-> "none"]

VARIABLES
    ProcessesMap,    \* pid -> process object
    Connections,     \* process object -> fd -> connection object
    ConnectionsMap,  \* inode -> its cached ConnectionInfo
    infos,           \* the ConnectionInfos
    cLock,           \* holder of the lock around a scan of /proc/net
    process,         \* the process objects
    connection,      \* the connection objects
    interface,       \* the interface counters
    unknown,         \* history: the bytes of addresses without an interface
    job,             \* what each worker is doing
    received,        \* how many events were received so far
    snap,            \* what the snapshot worker is doing
    due              \* history: the connections this pass still has to report

tables  == <<ProcessesMap, Connections, ConnectionsMap>>
objects == <<process, connection, interface, infos, unknown>>
vars == <<ProcessesMap, Connections, ConnectionsMap, infos, cLock, process, connection,
          interface, unknown, job, received, snap, due>>

-----------------------------------------------------------------------------
(* RWEventCounter: the part of an object both goroutines write.            *)

Ages == 0 .. IdleTimeout + 1   \* time since LastUpdateAt, saturating

(* seen: the bytes of the last takeSnapshot; snapped: there has been one.  *)
NewProcess    == [once |-> "new", age |-> 0, bytes |-> 0, seen |-> 0, snapped |-> FALSE,
                  real |-> FALSE]
NewConnection == [once |-> "new", age |-> 0, bytes |-> 0, seen |-> 0, snapped |-> FALSE,
                  type |-> "unknown", info |-> NoInfo, owner |-> Nil]
NewInterface  == [bytes |-> 0, seen |-> 0, snapped |-> FALSE]

(* What isIdle can return.  LastUpdateAt is zero before Init; while Init   *)
(* writes its three words ("torn") an unsynchronised reader sees any mix   *)
(* of old and new words, from the zero time to a time far in the past.     *)
isIdle(o) == CASE o.once = "new"  -> {FALSE}
               [] o.once = "torn" -> BOOLEAN
               [] OTHER           -> {o.age > IdleTimeout}

(* Of a ConnectionInfo the handlers read two fields, LocalIP and IsLocal.  *)
InfoOf(a) == [local |-> a, isLocal |-> a \in Loopback]

(* Mutant of ShouldSkip: an unresolved socket is not skipped.              *)
ShouldSkipIgnoresNil(c) ==
    c.type = "socket" => c.info # NoInfo /\ infos[c.info].isLocal

ShouldSkip(c) ==
    c.type = "socket" /\ c.info # NoInfo => infos[c.info].isLocal

(* Every counter whose LastUpdateAt is set.                                *)
Stamped(o) == o.once \in {"running", "done"}

-----------------------------------------------------------------------------
(* For a lookup: its inode, the lines its scan has still to look at, the   *)
(* ConnectionInfo that it rewrites, and the one it has found.              *)
Waiting == [pc |-> "receive", ev |-> NoEvent, id |-> Nil, bp |-> Nil, bc |-> Nil,
            inode |-> NoInode, todo |-> {}, line |-> NoInfo, info |-> NoInfo]

Sleeping == [pc |-> "sleep", pids |-> {}, old |-> {}, pid |-> Nil, bp |-> Nil,
             fds |-> {}, oldConns |-> {}, fd |-> Nil, bc |-> Nil, account |-> FALSE]

Init == /\ ProcessesMap   = [p \in Pids |-> Nil]
        /\ Connections    = [n \in Ids |-> [f \in FDs |-> Nil]]
        /\ ConnectionsMap = [i \in Inodes |-> NoInfo]
        /\ infos          = [o \in Infos |-> [local |-> Torn, isLocal |-> FALSE]]
        /\ cLock          = Free
        /\ process        = [n \in Ids |-> NewProcess]
        /\ connection     = [n \in Ids |-> NewConnection]
        /\ interface      = [i \in Ifaces |-> NewInterface]
        /\ unknown        = 0
        /\ job            = [w \in Workers |-> Waiting]
        /\ received       = 0
        /\ snap           = Sleeping
        /\ due            = {}

-----------------------------------------------------------------------------
(* Worker steps.                                                           *)

Step(w, pc) == job' = [job EXCEPT ![w].pc = pc]
Return(w)   == job' = [job EXCEPT ![w] = Waiting]

(* The next sample of the channel: any event the probe can have sent.      *)
Receive(w) ==
    /\ job[w].pc = "receive"
    /\ received < MaxEvents
    /\ received' = received + 1
    /\ \E e \in Events :
         job' = [job EXCEPT ![w] = [Waiting EXCEPT !.pc = e.kind, !.ev = e, !.id = received']]
    /\ UNCHANGED <<tables, objects, cLock, snap, due>>

-----------------------------------------------------------------------------
(* RWEvent.Process                                                         *)

(* Mutant: the new object is stored without looking again.                 *)
LoadThenStoreProcess(w) ==
    /\ job[w].pc = "rw"
    /\ ProcessesMap' = [ProcessesMap EXCEPT ![job[w].ev.pid] = job[w].id]
    /\ job' = [job EXCEPT ![w].pc = "process", ![w].bp = job[w].id]
    /\ UNCHANGED <<Connections, ConnectionsMap, objects, cLock, received, snap, due>>

(* ProcessesMap.LoadOrStore(e.Pid, ...)                                    *)
LoadOrStoreProcess(w) ==
    LET pid == job[w].ev.pid
        bp  == IF ProcessesMap[pid] = Nil THEN job[w].id ELSE ProcessesMap[pid]
    IN  /\ job[w].pc = "rw"
        /\ ProcessesMap' = [ProcessesMap EXCEPT ![pid] = bp]
        /\ job' = [job EXCEPT ![w].pc = "process", ![w].bp = bp]
        /\ UNCHANGED <<Connections, ConnectionsMap, objects, cLock, received, snap, due>>

(* bp.Init: the first caller of once.Do enters and starts to write         *)
(* LastUpdateAt; the others wait at "process" until once is "done".        *)
EnterProcessInit(w) ==
    /\ job[w].pc = "process"
    /\ process[job[w].bp].once = "new"
    /\ process' = [process EXCEPT ![job[w].bp].once = "torn"]
    /\ Step(w, "stampProcess")
    /\ UNCHANGED <<tables, connection, interface, infos, unknown, cLock, received, snap, due>>

(* LastUpdateAt is written and the ring created.                           *)
StampProcess(w) ==
    /\ job[w].pc = "stampProcess"
    /\ process' = [process EXCEPT ![job[w].bp].once = "running",
                                  ![job[w].bp].age = 0]
    /\ Step(w, "initProcess")
    /\ UNCHANGED <<tables, connection, interface, infos, unknown, cLock, received, snap, due>>

(* process.NewProcess finds the pid, or does not.                          *)
InitProcess(w) ==
    /\ job[w].pc = "initProcess"
    /\ \E found \in BOOLEAN :
         process' = [process EXCEPT ![job[w].bp].once = "done",
                                    ![job[w].bp].real = found]
    /\ Step(w, "process")
    /\ UNCHANGED <<tables, connection, interface, infos, unknown, cLock, received, snap, due>>

(* Once Init is over (a caller of once.Do waits for it), an event of a     *)
(* process that was not found is dropped.                                  *)
DropUnknownProcess(w) ==
    /\ job[w].pc = "process"
    /\ process[job[w].bp].once = "done"
    /\ ~process[job[w].bp].real
    /\ Return(w)
    /\ UNCHANGED <<tables, objects, cLock, received, snap, due>>

(* bp.Connections.LoadOrStore(e.FD, ...)                                   *)
LoadOrStoreConnection(w) ==
    LET bp == job[w].bp
        e  == job[w].ev
        fresh == Connections[bp][e.fd] = Nil
        bc == IF fresh THEN job[w].id ELSE Connections[bp][e.fd]
    IN  /\ job[w].pc = "process"
        /\ process[bp].once = "done"
        /\ process[bp].real
        /\ Connections' = [Connections EXCEPT ![bp][e.fd] = bc]
        /\ connection' = IF fresh
                          THEN [connection EXCEPT ![bc].type = e.type, ![bc].owner = bp]
                          ELSE connection
        /\ job' = [job EXCEPT ![w].pc = "connection", ![w].bc = bc]
        /\ UNCHANGED <<ProcessesMap, ConnectionsMap, process, interface, infos, unknown,
                       cLock, received, snap, due>>

EnterConnectionInit(w) ==
    /\ job[w].pc = "connection"
    /\ connection[job[w].bc].once = "new"
    /\ connection' = [connection EXCEPT ![job[w].bc].once = "torn"]
    /\ Step(w, "stampConnection")
    /\ UNCHANGED <<tables, process, interface, infos, unknown, cLock, received, snap, due>>

StampConnection(w) ==
    /\ job[w].pc = "stampConnection"
    /\ connection' = [connection EXCEPT ![job[w].bc].once = "running",
                                        ![job[w].bc].age = 0]
    /\ Step(w, "initConnection")
    /\ UNCHANGED <<tables, process, interface, infos, unknown, cLock, received, snap, due>>

(* getConnectionInfoFor: the link of the descriptor names no socket, or    *)
(* names an inode, which findConnectionInfoBy looks up.                    *)
Found(w, o) == job' = [job EXCEPT ![w].pc = "assign", ![w].info = o]

InitConnection(w) ==
    /\ job[w].pc = "initConnection"
    /\ \/ Step(w, "assign")
       \/ /\ connection[job[w].bc].type \in {"unknown", "socket"}
          /\ \E i \in Inodes :
               job' = [job EXCEPT ![w].pc = IF ConnectionsMap[i] = NoInfo THEN "refresh" ELSE "assign",
                                  ![w].inode = i, ![w].info = ConnectionsMap[i]]
    /\ UNCHANGED <<tables, objects, cLock, received, snap, due>>

(* refreshNetConnections: take the lock and look again, then look at the   *)
(* lines of the sockets that /proc/net lists, any of all.                  *)
Scan(w) == job' = [job EXCEPT ![w].pc = "scan", ![w].todo = Inodes]

(* Mutant: no second lookup under the lock.                                *)
LockRefreshOnly(w) ==
    /\ job[w].pc = "refresh"
    /\ cLock = Free
    /\ Scan(w) /\ cLock' = w
    /\ UNCHANGED <<tables, objects, received, snap, due>>

LockRefresh(w) ==
    /\ job[w].pc = "refresh"
    /\ cLock = Free
    /\ IF ConnectionsMap[job[w].inode] # NoInfo
       THEN Found(w, ConnectionsMap[job[w].inode]) /\ UNCHANGED cLock
       ELSE Scan(w) /\ cLock' = w
    /\ UNCHANGED <<tables, objects, received, snap, due>>

(* What a line with the ConnectionInfo o does to the job.                  *)
Line(w, i, o) == [job[w] EXCEPT !.todo = @ \ {i},
                                !.info = IF i = job[w].inode THEN o ELSE @]

(* Mutant of StoreLine: every line is stored under the inode looked for.   *)
StoreLineAsWanted(w) ==
    \E i \in job[w].todo, a \in Addresses :
        LET o == <<job[w].id, i>>
        IN  /\ job[w].pc = "scan"
            /\ ConnectionsMap[job[w].inode] = NoInfo
            /\ ConnectionsMap' = [ConnectionsMap EXCEPT ![job[w].inode] = o]
            /\ infos' = [infos EXCEPT ![o] = InfoOf(a)]
            /\ job' = [job EXCEPT ![w] = Line(w, i, o)]
            /\ UNCHANGED <<ProcessesMap, Connections, process, connection, interface, unknown,
                           cLock, received, snap, due>>

(* A socket that is not cached.                                            *)
StoreLine(w) ==
    \E i \in job[w].todo, a \in Addresses :
        LET o == <<job[w].id, i>>
        IN  /\ job[w].pc = "scan"
            /\ ConnectionsMap[i] = NoInfo
            /\ ConnectionsMap' = [ConnectionsMap EXCEPT ![i] = o]
            /\ infos' = [infos EXCEPT ![o] = InfoOf(a)]
            /\ job' = [job EXCEPT ![w] = Line(w, i, o)]
            /\ UNCHANGED <<ProcessesMap, Connections, process, connection, interface, unknown,
                           cLock, received, snap, due>>

(* One that is: its ConnectionInfo stays, if the ports are the same, or is *)
(* rewritten, though connections may hold it.  Readers have no lock: while *)
(* it is rewritten they may see the old address, the new one or a mix.     *)
LoadLine(w) ==
    \E i \in job[w].todo :
        LET o == ConnectionsMap[i]
        IN  /\ job[w].pc = "scan"
            /\ o # NoInfo
            /\ \/ /\ job' = [job EXCEPT ![w] = Line(w, i, o)]
                  /\ UNCHANGED infos
               \/ /\ job' = [job EXCEPT ![w] = [Line(w, i, o) EXCEPT !.pc = "rewrite", !.line = o]]
                  /\ infos' = [infos EXCEPT ![o].local = Torn]
            /\ UNCHANGED <<tables, process, connection, interface, unknown, cLock, received, snap, due>>

RewriteInfo(w) ==
    /\ job[w].pc = "rewrite"
    /\ \E a \in Addresses : infos' = [infos EXCEPT ![job[w].line] = InfoOf(a)]
    /\ job' = [job EXCEPT ![w].pc = "scan", ![w].line = NoInfo]
    /\ UNCHANGED <<tables, process, connection, interface, unknown, cLock, received, snap, due>>

(* Mutant of EndScan: the lock is kept when the scan finds nothing.        *)
EndScanKeepsLock(w) ==
    /\ job[w].pc = "scan"
    /\ cLock' = IF job[w].info = NoInfo THEN cLock ELSE Free
    /\ job' = [job EXCEPT ![w].pc = "assign", ![w].todo = {}]
    /\ UNCHANGED <<tables, objects, received, snap, due>>

EndScan(w) ==
    /\ job[w].pc = "scan"
    /\ cLock' = Free
    /\ job' = [job EXCEPT ![w].pc = "assign", ![w].todo = {}]
    /\ UNCHANGED <<tables, objects, received, snap, due>>

(* The end of bc.Init, with a ConnectionInfo or without.                   *)
AssignConnectionInfo(w) ==
    LET c == connection[job[w].bc]
        o == job[w].info
        type == IF o = NoInfo THEN c.type ELSE "socket"
    IN  /\ job[w].pc = "assign"
        /\ connection' = [connection EXCEPT ![job[w].bc] =
                             [c EXCEPT !.once = "done", !.info = o, !.type = type]]
        /\ job' = [job EXCEPT ![w].pc = "connection", ![w].inode = NoInode, ![w].info = NoInfo]
        /\ UNCHANGED <<tables, process, interface, infos, unknown, cLock, received, snap, due>>

(* After bc.Init: traffic that is not accounted is dropped.                *)
SkipConnection(w) ==
    /\ job[w].pc = "connection"
    /\ connection[job[w].bc].once = "done"
    /\ ShouldSkip(connection[job[w].bc])
    /\ Return(w)
    /\ UNCHANGED <<tables, objects, cLock, received, snap, due>>

(* addByRWEvent                                                            *)
Add(o, n) == [o EXCEPT !.age = 0, !.bytes = @ + n]

PassConnection(w) ==
    /\ job[w].pc = "connection"
    /\ connection[job[w].bc].once = "done"
    /\ ~ShouldSkip(connection[job[w].bc])
    /\ Step(w, "addConnection")
    /\ UNCHANGED <<tables, objects, cLock, received, snap, due>>

AddToConnection(w) ==
    /\ job[w].pc = "addConnection"
    /\ connection' = [connection EXCEPT ![job[w].bc] = Add(@, job[w].ev.size)]
    /\ Step(w, "addProcess")
    /\ UNCHANGED <<tables, process, interface, infos, unknown, cLock, received, snap, due>>

(* Mutants of AddToProcess: LastUpdateAt is not set; the interface is      *)
(* forgotten.                                                              *)
AddToProcessUnstamped(w) ==
    /\ job[w].pc = "addProcess"
    /\ process' = [process EXCEPT ![job[w].bp].bytes = @ + job[w].ev.size]
    /\ Step(w, "addInterface")
    /\ UNCHANGED <<tables, connection, interface, infos, unknown, cLock, received, snap, due>>

AddToProcessOnly(w) ==
    /\ job[w].pc = "addProcess"
    /\ process' = [process EXCEPT ![job[w].bp] = Add(@, job[w].ev.size)]
    /\ Return(w)
    /\ UNCHANGED <<tables, connection, interface, infos, unknown, cLock, received, snap, due>>

AddToProcess(w) ==
    /\ job[w].pc = "addProcess"
    /\ process' = [process EXCEPT ![job[w].bp] = Add(@, job[w].ev.size)]
    /\ Step(w, "addInterface")
    /\ UNCHANGED <<tables, connection, interface, infos, unknown, cLock, received, snap, due>>

(* The interface that is found under an address: any or none, if that is   *)
(* being written.                                                          *)
IfacesAt(a) == IF a = Torn THEN Ifaces \cup {NoIface} ELSE {IfaceOf[a]}

(* interfacesMap.Load(e.bc.ConnectionInfo.LocalIP)                         *)
AddToInterface(w) ==
    LET n == job[w].ev.size
    IN  /\ job[w].pc = "addInterface"
        /\ \E i \in IfacesAt(infos[connection[job[w].bc].info].local) :
             IF i = NoIface
             THEN unknown' = unknown + n /\ UNCHANGED interface
             ELSE interface' = [interface EXCEPT ![i].bytes = @ + n] /\ UNCHANGED unknown
        /\ Return(w)
        /\ UNCHANGED <<tables, process, connection, infos, cLock, received, snap, due>>

-----------------------------------------------------------------------------
(* CloseEvent.Process and ExitEvent.Process                                *)

LoadClosingProcess(w) ==
    /\ job[w].pc = "close"
    /\ IF ProcessesMap[job[w].ev.pid] = Nil
       THEN Return(w)
       ELSE job' = [job EXCEPT ![w].pc = "closeConnection",
                               ![w].bp = ProcessesMap[job[w].ev.pid]]
    /\ UNCHANGED <<tables, objects, cLock, received, snap, due>>

CloseConnection(w) ==
    LET bp == job[w].bp
        fd == job[w].ev.fd
    IN  /\ job[w].pc = "closeConnection"
        /\ IF Connections[bp][fd] = Nil
           THEN Return(w)
           ELSE job' = [job EXCEPT ![w].pc = "closeInfo", ![w].bc = Connections[bp][fd]]
        /\ Connections' = [Connections EXCEPT ![bp][fd] = Nil]
        /\ UNCHANGED <<ProcessesMap, ConnectionsMap, objects, cLock, received, snap, due>>

(* ConnectionsMap.Delete, of the inode of a ConnectionInfo that is not nil *)
(* and need not be the one that is cached by now.                          *)
Forget(o) == ConnectionsMap' = [i \in Inodes |-> IF i = o[2] THEN NoInfo ELSE ConnectionsMap[i]]

ForgetClosedInode(w) ==
    /\ job[w].pc = "closeInfo"
    /\ Forget(connection[job[w].bc].info)
    /\ Return(w)
    /\ UNCHANGED <<ProcessesMap, Connections, objects, cLock, received, snap, due>>

(* Only the exit of the thread group leader removes the process.           *)
ExitProcess(w) ==
    /\ job[w].pc = "exit"
    /\ ProcessesMap' = IF job[w].ev.leader
                       THEN [ProcessesMap EXCEPT ![job[w].ev.pid] = Nil]
                       ELSE ProcessesMap
    /\ Return(w)
    /\ UNCHANGED <<Connections, ConnectionsMap, objects, cLock, received, snap, due>>

-----------------------------------------------------------------------------
(* The snapshot worker.                                                    *)

(* Mutant: a snapshot starts the counter again.                            *)
takeSnapshotAndReset(o) == [o EXCEPT !.seen = 0, !.bytes = 0, !.snapped = TRUE]

(* The first call makes no snapshot: what was counted before is in none.   *)
takeSnapshot(o) == [o EXCEPT !.seen = o.bytes, !.snapped = TRUE]

(* What a walk of the maps reaches.                                        *)
LiveProcesses   == {n \in Ids : \E p \in Pids : ProcessesMap[p] = n}
LiveConnections == {c \in Ids : \E p \in Pids, f \in FDs :
                /\ ProcessesMap[p] # Nil
                /\ Connections[ProcessesMap[p]][f] = c}

(* A Range visits every key present when it begins, unless that is deleted *)
(* meanwhile, and may visit a key that is stored later, which it may find  *)
(* in an emptied entry.  It ends when only such keys are left: none that   *)
(* still has the object it had when the Range began.                       *)
OnlyLater(keys, map, old) == \A k \in keys : map[k] \notin old

(* The connections that have traffic since an earlier snapshot.            *)
Due == {c \in LiveConnections : connection[c].snapped /\ connection[c].bytes > connection[c].seen}

(* Mutants of StartPass: a process without new traffic is not visited; a   *)
(* process that was not found is not, since it has nothing to report.      *)
StartPassOver(pids) ==
    /\ snap.pc = "sleep"
    /\ snap' = [snap EXCEPT !.pc = "processes", !.pids = pids, !.old = LiveProcesses]
    /\ due' = Due
    /\ UNCHANGED <<tables, objects, cLock, job, received>>

StartPassOverChanged == StartPassOver({p \in Pids : /\ ProcessesMap[p] # Nil
                                            /\ process[ProcessesMap[p]].bytes # process[ProcessesMap[p]].seen})

StartPassOverFound == StartPassOver({p \in Pids : ProcessesMap[p] # Nil /\ process[ProcessesMap[p]].real})

StartPass ==
    /\ snap.pc = "sleep"
    /\ snap' = [snap EXCEPT !.pc = "processes", !.pids = Pids, !.old = LiveProcesses]
    /\ due' = Due
    /\ UNCHANGED <<tables, objects, cLock, job, received>>

(* The callback of ProcessesMap.Range: an idle process is to be evicted,   *)
(* the connections of another walked.                                      *)
VisitProcess(p) ==
    LET bp == ProcessesMap[p]
    IN  /\ snap.pc = "processes"
        /\ p \in snap.pids
        /\ bp # Nil
        /\ \/ /\ TRUE \in isIdle(process[bp])
              /\ snap' = [snap EXCEPT !.pc = "evictProcess", !.pids = @ \ {p}, !.pid = p]
           \/ /\ FALSE \in isIdle(process[bp])
              /\ snap' = [snap EXCEPT !.pc = "connections", !.pids = @ \ {p},
                              !.bp = bp, !.fds = FDs, !.account = FALSE,
                              !.oldConns = {Connections[bp][f] : f \in FDs} \ {Nil}]
        /\ UNCHANGED <<tables, objects, cLock, job, received, due>>

(* ProcessesMap.Delete(bp.Pid): whatever the key holds by now.             *)
EvictProcess ==
    /\ snap.pc = "evictProcess"
    /\ ProcessesMap' = [ProcessesMap EXCEPT ![snap.pid] = Nil]
    /\ snap' = [snap EXCEPT !.pc = "processes", !.pid = Nil]
    /\ UNCHANGED <<Connections, ConnectionsMap, objects, cLock, job, received, due>>

(* The callback of bp.Connections.Range.                                   *)
VisitConnection(f) ==
    LET bc == Connections[snap.bp][f]
    IN  /\ snap.pc = "connections"
        /\ f \in snap.fds
        /\ bc # Nil
        /\ \/ /\ TRUE \in isIdle(connection[bc])
              /\ snap' = [snap EXCEPT !.pc = "evictConnection", !.fds = @ \ {f},
                                      !.fd = f, !.bc = bc]
              /\ UNCHANGED <<connection, due>>
           \/ /\ FALSE \in isIdle(connection[bc])
              /\ ShouldSkip(connection[bc])
              /\ snap' = [snap EXCEPT !.fds = @ \ {f}]
              /\ due' = due \ {bc}
              /\ UNCHANGED connection
           \/ /\ FALSE \in isIdle(connection[bc])
              /\ ~ShouldSkip(connection[bc])
              /\ connection' = [connection EXCEPT ![bc] = takeSnapshot(@)]
              /\ snap' = [snap EXCEPT !.fds = @ \ {f}, !.account = TRUE]
              /\ due' = due \ {bc}
        /\ UNCHANGED <<tables, process, interface, infos, unknown, cLock, job, received>>

(* bp.Connections.Delete(bc.FD): whatever the descriptor holds by now.     *)
EvictConnection ==
    /\ snap.pc = "evictConnection"
    /\ Connections' = [Connections EXCEPT ![snap.bp][snap.fd] = Nil]
    /\ snap' = [snap EXCEPT !.pc = "forgetInode", !.fd = Nil]
    /\ UNCHANGED <<ProcessesMap, ConnectionsMap, objects, cLock, job, received, due>>

ForgetIdleInode ==
    /\ snap.pc = "forgetInode"
    /\ Forget(connection[snap.bc].info)
    /\ snap' = [snap EXCEPT !.pc = "connections", !.bc = Nil]
    /\ UNCHANGED <<ProcessesMap, Connections, objects, cLock, job, received, due>>

(* The process is reported only if one of its connections was.             *)
FinishProcess ==
    /\ snap.pc = "connections"
    /\ OnlyLater(snap.fds, Connections[snap.bp], snap.oldConns)
    /\ IF snap.account
       THEN process' = [process EXCEPT ![snap.bp] = takeSnapshot(@)]
       ELSE UNCHANGED process
    /\ snap' = [snap EXCEPT !.pc = "processes", !.bp = Nil, !.fds = {}, !.oldConns = {},
                            !.account = FALSE]
    /\ UNCHANGED <<tables, connection, interface, infos, unknown, cLock, job, received, due>>

(* interfacesMap.Range: the map never changes after initInterfaces.        *)
SnapshotInterfaces ==
    /\ snap.pc = "processes"
    /\ OnlyLater(snap.pids, ProcessesMap, snap.old)
    /\ interface' = [i \in Ifaces |-> takeSnapshot(interface[i])]
    /\ snap' = [snap EXCEPT !.pc = "unlock", !.pids = {}, !.old = {}]
    /\ UNCHANGED <<tables, process, connection, infos, unknown, cLock, job, received, due>>

FinishPass ==
    /\ snap.pc = "unlock"
    /\ snap' = Sleeping
    /\ due' = {}
    /\ UNCHANGED <<tables, objects, cLock, job, received>>

-----------------------------------------------------------------------------
(* The clock: every counter that was stamped grows older.                  *)
Older(o) == IF Stamped(o) /\ o.age <= IdleTimeout THEN [o EXCEPT !.age = @ + 1] ELSE o

Tick ==
    /\ \E n \in Ids : Older(process[n]) # process[n] \/ Older(connection[n]) # connection[n]
    /\ process' = [n \in Ids |-> Older(process[n])]
    /\ connection' = [n \in Ids |-> Older(connection[n])]
    /\ UNCHANGED <<tables, interface, infos, unknown, cLock, job, received, snap, due>>

-----------------------------------------------------------------------------
Handle(w) == \/ LoadOrStoreProcess(w) \/ EnterProcessInit(w) \/ StampProcess(w)
             \/ InitProcess(w) \/ DropUnknownProcess(w)
             \/ LoadOrStoreConnection(w) \/ EnterConnectionInit(w)
             \/ StampConnection(w) \/ InitConnection(w)
             \/ LockRefresh(w) \/ StoreLine(w) \/ LoadLine(w) \/ RewriteInfo(w)
             \/ EndScan(w) \/ AssignConnectionInfo(w)
             \/ SkipConnection(w) \/ PassConnection(w) \/ AddToConnection(w)
             \/ AddToProcess(w) \/ AddToInterface(w)
             \/ LoadClosingProcess(w) \/ CloseConnection(w) \/ ForgetClosedInode(w)
             \/ ExitProcess(w)

SnapshotStep == \/ StartPass
                \/ \E p \in Pids : VisitProcess(p)
                \/ EvictProcess
                \/ \E f \in FDs : VisitConnection(f)
                \/ EvictConnection \/ ForgetIdleInode \/ FinishProcess
                \/ SnapshotInterfaces \/ FinishPass

Next == \/ \E w \in Workers : Receive(w) \/ Handle(w)
        \/ SnapshotStep
        \/ Tick

Spec == Init /\ [][Next]_vars
-----------------------------------------------------------------------------
(* Properties.                                                             *)

WorkerPCs == {"receive", "rw", "process", "stampProcess", "initProcess", "connection",
              "stampConnection", "initConnection", "refresh", "scan", "rewrite",
              "assign", "addConnection", "addProcess", "addInterface",
              "close", "closeConnection", "closeInfo", "exit"}
SnapPCs   == {"sleep", "processes", "evictProcess", "connections", "evictConnection",
              "forgetInode", "unlock"}

Processes == [once : {"new", "torn", "running", "done"}, age : Ages, bytes : Nat,
              seen : Nat, snapped : BOOLEAN, real : BOOLEAN]
ConnectionObjects ==
    [once : {"new", "torn", "running", "done"}, age : Ages, bytes : Nat, seen : Nat,
     snapped : BOOLEAN, type : {"unknown", "socket", "file"}, info : Infos \cup {NoInfo},
     owner : Ids \cup {Nil}]
Interfaces == [bytes : Nat, seen : Nat, snapped : BOOLEAN]
Jobs == [pc : WorkerPCs, ev : Events \cup {NoEvent}, id : Ids \cup {Nil},
         bp : Ids \cup {Nil}, bc : Ids \cup {Nil}, inode : Inodes \cup {NoInode},
         todo : SUBSET Inodes, line : Infos \cup {NoInfo}, info : Infos \cup {NoInfo}]
Snaps == [pc : SnapPCs, pids : SUBSET Pids, old : SUBSET Ids, pid : Pids \cup {Nil},
          bp : Ids \cup {Nil}, fds : SUBSET FDs, oldConns : SUBSET Ids, fd : FDs \cup {Nil},
          bc : Ids \cup {Nil}, account : BOOLEAN]

(* The type invariant.                                                     *)
TypeOK ==
    /\ ProcessesMap \in [Pids -> Ids \cup {Nil}]
    /\ Connections \in [Ids -> [FDs -> Ids \cup {Nil}]]
    /\ ConnectionsMap \in [Inodes -> Infos \cup {NoInfo}]
    /\ \A i \in Inodes : ConnectionsMap[i][2] \in {i, NoInode}
    /\ infos \in [Infos -> [local : Addresses \cup {Torn}, isLocal : BOOLEAN]]
    /\ cLock \in Workers \cup {Free}
    /\ process \in [Ids -> Processes]
    /\ connection \in [Ids -> ConnectionObjects]
    /\ interface \in [Ifaces -> Interfaces] /\ unknown \in Nat
    /\ job \in [Workers -> Jobs]
    /\ received \in 0 .. MaxEvents
    /\ snap \in Snaps
    /\ due \subseteq Ids

(* RWEvent.Process accounts traffic only to a process that was found and   *)
(* to a socket that was resolved, both fully initialised, and never        *)
(* dereferences a nil ConnectionInfo: nobody overtakes once.Do.  (Whether  *)
(* the socket is remote was true at the test of line 211 and need not stay *)
(* true: a scan may rewrite the ConnectionInfo at any time.)               *)
Resolved(c) ==
    /\ c.once = "done" /\ c.type = "socket" /\ c.info # NoInfo
    /\ c.owner # Nil
    /\ process[c.owner].once = "done"
    /\ process[c.owner].real

OnlyResolvedTrafficCounted ==
    /\ \A c \in Ids : connection[c].bytes > 0 => Resolved(connection[c])
    /\ \A w \in Workers : job[w].pc \in {"addConnection", "addProcess", "addInterface"}
                              => Resolved(connection[job[w].bc])

(* The counters of a process and of its connections agree, up to the       *)
(* events a worker is in the middle of: evictions, closes and exits never  *)
(* take a byte from a process, a race never counts one twice.              *)
Counted(cs)  == SumFunctionOnSet([c \in Ids |-> connection[c].bytes], cs)
InFlight(ws) == SumFunctionOnSet([w \in ws |-> job[w].ev.size], ws)

ProcessTotalsAgree ==
    \A n \in Ids :
        process[n].bytes + InFlight({w \in Workers : job[w].pc = "addProcess" /\ job[w].bp = n})
          = Counted({c \in Ids : connection[c].owner = n})

(* Every byte that a connection counts is counted by one interface or, if  *)
(* no interface has the address at that moment, by none: never by two and  *)
(* never lost, although a scan may be rewriting the address.               *)
OfInterfaces == SumFunctionOnSet([i \in Ifaces |-> interface[i].bytes], Ifaces)

InterfaceTotalsAgree ==
    OfInterfaces + unknown
      + InFlight({w \in Workers : job[w].pc \in {"addProcess", "addInterface"}})
      = Counted(Ids)

(* A pass of the snapshot worker reports every connection that an earlier  *)
(* pass has looked at and that had unreported traffic when the pass began, *)
(* unless it is found to be local, evicted, or closed meanwhile.  (What    *)
(* was counted before the first takeSnapshot is in no snapshot.)           *)
PassCoversConnections ==
    snap.pc = "unlock" => due \cap LiveConnections = {}

(* A process that is idle has no connection with recent traffic, unless a  *)
(* worker is between its updates of the two: evicting an idle process      *)
(* drops no active connection (worker.go evicts it without looking).       *)
IdleProcessHasIdleConnections ==
    \A c \in Ids :
        LET n == connection[c].owner
        IN  /\ connection[c].bytes > 0
            /\ process[n].age > IdleTimeout
            /\ ~\E w \in Workers : job[w].pc = "addProcess" /\ job[w].bp = n
            => connection[c].age > IdleTimeout

(* /proc/net is scanned only for an inode that is not cached: the second   *)
(* lookup, under cLock, makes up for the first, which is without it.  Only *)
(* the scan itself can come upon the inode.                                *)
ScansOnlyUnknownInodes ==
    \A w \in Workers :
        job[w].pc \in {"scan", "rewrite"} /\ job[w].info = NoInfo
          => ConnectionsMap[job[w].inode] = NoInfo

(* A worker that waits, for another to finish an Init or to release cLock, *)
(* waits for one that can go on: once.Do and cLock nest without a          *)
(* deadlock, and nobody leaves an Init or the lock behind.                 *)
Waits(w) ==
    \/ job[w].pc = "process"    /\ process[job[w].bp].once \in {"torn", "running"}
    \/ job[w].pc = "connection" /\ connection[job[w].bc].once \in {"torn", "running"}
    \/ job[w].pc = "refresh"    /\ cLock # Free

WaitsEnd ==
    \A w \in Workers : Waits(w) => \E v \in Workers : job[v].pc # "receive" /\ ~Waits(v)

(* Two workers that see a new pid or descriptor at once agree on its       *)
(* object: an entry is never replaced while it is in a table, so no worker *)
(* goes on counting in an object a concurrent first event hid.             *)
EntriesKept ==
    /\ \A p \in Pids : ProcessesMap[p] # Nil => ProcessesMap'[p] \in {ProcessesMap[p], Nil}
    /\ \A n \in Ids, f \in FDs :
         Connections[n][f] # Nil => Connections'[n][f] \in {Connections[n][f], Nil}

EntriesNeverReplaced == [][EntriesKept]_vars

(* Every event a worker receives is handled to the end, whatever /proc     *)
(* answers and whatever the snapshot worker evicts meanwhile.              *)
HandlersFinish == \A w \in Workers : job[w].pc # "receive" ~> job[w].pc = "receive"

(* When traffic stops, every process is forgotten in the end, the ones     *)
(* that were never found and the ones without connections included.        *)
TablesDrain == <>[](\A p \in Pids : ProcessesMap[p] = Nil)

(* The comments of startSnapShotWorker: what a pass evicts is an           *)
(* "idle process" (worker.go:45) or an "idle connection" (worker.go:52);   *)
(* here of an object that an earlier pass has looked at.                   *)
EvictsOnlyIdle ==
    [][/\ \A n \in LiveProcesses :
            snap.pc = "evictProcess" /\ snap'.pc # snap.pc /\ n \notin LiveProcesses'
              /\ process[n].snapped => TRUE \in isIdle(process[n])
       /\ \A c \in LiveConnections :
            snap.pc = "evictConnection" /\ snap'.pc # snap.pc /\ c \notin LiveConnections'
              /\ connection[c].snapped => TRUE \in isIdle(connection[c])]_vars
=============================================================================
