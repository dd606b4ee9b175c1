---------------------------- MODULE EngineProofs ----------------------------
(***************************************************************************)
(* Theorems about Engine, for any number of workers, pids, descriptors,    *)
(* inodes and events.                                                      *)
(***************************************************************************)
EXTENDS Engine, FiniteSetTheorems, WellFoundedInduction, TLAPS

-----------------------------------------------------------------------------
(* Which fields of a job are set at which step of a handler.               *)

ProcessPCs    == {"process", "stampProcess", "initProcess"}
ConnectionPCs == {"connection", "stampConnection", "initConnection", "refresh",
                  "scan", "rewrite", "assign", "addConnection", "addProcess", "addInterface"}
InodePCs      == {"refresh", "scan", "rewrite"}

JobOK(j) ==
    /\ j.pc # "receive" => j.id \in Ids
    /\ j.pc \in {"rw"} \cup ProcessPCs \cup ConnectionPCs => j.ev \in RWEvents
    /\ j.pc \in {"close", "closeConnection", "closeInfo"} => j.ev \in CloseEvents
    /\ j.pc = "exit" => j.ev \in ExitEvents
    /\ j.pc \in ProcessPCs \cup ConnectionPCs \cup {"closeConnection", "closeInfo"}
         => j.bp \in Ids
    /\ j.pc \in ConnectionPCs \cup {"closeInfo"} => j.bc \in Ids
    /\ j.pc \in InodePCs => j.inode \in Inodes
    /\ j.pc = "rewrite" => j.line \in Infos

SnapOK ==
    /\ snap.pc = "evictProcess" => snap.pid \in Pids
    /\ snap.pc \in {"connections", "evictConnection", "forgetInode"} => snap.bp \in Ids
    /\ snap.pc = "evictConnection" => snap.fd \in FDs
    /\ snap.pc \in {"evictConnection", "forgetInode"} => snap.bc \in Ids

FieldsOK == (\A w \in Workers : JobOK(job[w])) /\ SnapOK

TypeInv == TypeOK /\ FieldsOK

(* What the type lemmas below need of the constants.                       *)
LEMMA Constants == /\ 0 \in Ages
                   /\ \A a \in Ages : a <= IdleTimeout => a + 1 \in Ages
                   /\ Nil \notin Ids /\ NoInfo \notin Infos
  BY BoundsAssumption, InodesAssumption DEF Ages, Ids, Nil, Infos, NoInfo

LEMMA InitTypeInv == Init => TypeInv
  BY BoundsAssumption, InodesAssumption, IfacesAssumption
  DEF Init, TypeInv, TypeOK, FieldsOK, JobOK, SnapOK, Ids, Nil, Free, Ages, NewProcess,
      NewConnection, NewInterface, Interfaces, NoInfo, Waiting, Sleeping, NoEvent, WorkerPCs, SnapPCs,
      ProcessPCs, ConnectionPCs, InodePCs, Processes, ConnectionObjects, Jobs, Snaps

(* A step of a handler changes only the job of its worker.                 *)
LEMMA JobStep ==
    ASSUME TypeInv, NEW w \in Workers, NEW j \in Jobs, JobOK(j), job' = [job EXCEPT ![w] = j]
    PROVE  job' \in [Workers -> Jobs] /\ \A v \in Workers : JobOK(job'[v])
<1>1. job \in [Workers -> Jobs] /\ \A v \in Workers : JobOK(job[v])
  BY DEF TypeInv, TypeOK, FieldsOK
<1>2. job' \in [Workers -> Jobs]
  BY <1>1
<1>3. ASSUME NEW v \in Workers PROVE JobOK(job'[v])
  <2>1. CASE v = w
    BY <1>1, <2>1
  <2>2. CASE v # w
    BY <1>1, <2>2
  <2> QED  BY <2>1, <2>2
<1> QED  BY <1>2, <1>3

LEMMA ReturnOK ==
    ASSUME TypeInv, NEW w \in Workers, Return(w)
    PROVE  job' \in [Workers -> Jobs] /\ \A v \in Workers : JobOK(job'[v])
<1>1. Waiting \in Jobs /\ JobOK(Waiting)
  BY DEF Waiting, Jobs, WorkerPCs, JobOK, ProcessPCs, ConnectionPCs, InodePCs
<1> QED  BY <1>1, JobStep DEF Return

(* Counting traffic keeps the shape of an interface counter.               *)
LEMMA InterfaceAddOK ==
    ASSUME NEW k \in Ifaces, NEW n \in Nat,
           interface \in [Ifaces -> Interfaces],
           interface' = [interface EXCEPT ![k].bytes = @ + n]
    PROVE  interface' \in [Ifaces -> Interfaces]
<1>1. ASSUME NEW c \in Interfaces
      PROVE  [c EXCEPT !.bytes = @ + n] \in Interfaces
  <2>1. c.bytes + n \in Nat
    BY DEF Interfaces
  <2>2. ASSUME NEW m \in Nat PROVE [c EXCEPT !.bytes = m] \in Interfaces
    BY DEF Interfaces
  <2> QED  BY <2>1, <2>2
<1> DEFINE o == [interface[k] EXCEPT !.bytes = @ + n]
<1>2. o \in Interfaces
  BY <1>1
<1>3. interface' = [interface EXCEPT ![k] = o]
  OBVIOUS
<1> HIDE DEF o
<1> QED  BY <1>2, <1>3

(* A step to x that needs no more fields than the step before it had.      *)
LEMMA StepOK ==
    ASSUME TypeInv, NEW w \in Workers, NEW x \in WorkerPCs, Step(w, x),
           job[w].pc # "receive",
           x \in {"process"} \cup ProcessPCs \cup ConnectionPCs,
           x \in ProcessPCs => job[w].pc \in ProcessPCs,
           x \in ConnectionPCs => job[w].pc \in ConnectionPCs,
           x \in InodePCs => job[w].pc \in InodePCs, x # "rewrite"
    PROVE  job' \in [Workers -> Jobs] /\ \A v \in Workers : JobOK(job'[v])
<1> DEFINE j == [job[w] EXCEPT !.pc = x]
<1>1. job[w] \in Jobs /\ JobOK(job[w])
  BY DEF TypeInv, TypeOK, FieldsOK
<1>2. j \in Jobs
  BY <1>1 DEF Jobs
<1>3. /\ j.pc = x /\ j.id = job[w].id /\ j.ev = job[w].ev
      /\ j.bp = job[w].bp /\ j.bc = job[w].bc /\ j.inode = job[w].inode
  BY <1>1 DEF Jobs
<1>4. JobOK(j)
  BY <1>1, <1>3 DEF JobOK, ProcessPCs, ConnectionPCs, InodePCs
<1> QED  BY <1>2, <1>4, JobStep DEF Step

LEMMA ProcessStep ==
    ASSUME TypeInv, NEW n \in Ids, NEW o \in Processes, process' = [process EXCEPT ![n] = o]
    PROVE  process' \in [Ids -> Processes]
  BY DEF TypeInv, TypeOK

LEMMA ConnectionStep ==
    ASSUME TypeInv, NEW n \in Ids, NEW o \in ConnectionObjects,
           connection' = [connection EXCEPT ![n] = o]
    PROVE  connection' \in [Ids -> ConnectionObjects]
  BY DEF TypeInv, TypeOK

LEMMA AddOK == ASSUME NEW n \in Nat
               PROVE  /\ \A o \in Processes : Add(o, n) \in Processes
                      /\ \A o \in ConnectionObjects : Add(o, n) \in ConnectionObjects
<1>1. ASSUME NEW o \in Processes PROVE Add(o, n) \in Processes
  <2>1. o.bytes \in Nat /\ o.bytes + n \in Nat
    BY DEF Processes
  <2>2. [o EXCEPT !.age = 0, !.bytes = o.bytes + n] \in Processes
    BY <2>1, Constants DEF Processes
  <2> QED  BY <2>2 DEF Add
<1>2. ASSUME NEW o \in ConnectionObjects PROVE Add(o, n) \in ConnectionObjects
  <2>1. o.bytes \in Nat /\ o.bytes + n \in Nat
    BY DEF ConnectionObjects
  <2>2. [o EXCEPT !.age = 0, !.bytes = o.bytes + n] \in ConnectionObjects
    BY <2>1, Constants DEF ConnectionObjects
  <2> QED  BY <2>2 DEF Add
<1> QED  BY <1>1, <1>2

(* What a scan does to its job: a line leaves it in the scan.              *)
LEMMA LineOK ==
    ASSUME TypeInv, NEW w \in Workers, job[w].pc = "scan",
           NEW i \in Inodes, NEW o \in Infos
    PROVE  Line(w, i, o) \in Jobs /\ JobOK(Line(w, i, o)) /\ Line(w, i, o).pc = "scan"
<1> DEFINE x == IF i = job[w].inode THEN o ELSE job[w].info
           t == job[w].todo \ {i}
           j == [job[w] EXCEPT !.todo = t, !.info = x]
<1>1. job[w] \in Jobs /\ JobOK(job[w])
  BY DEF TypeInv, TypeOK, FieldsOK
<1>2. x \in Infos \cup {NoInfo} /\ t \in SUBSET Inodes
  BY <1>1 DEF Jobs
<1>3. Line(w, i, o) = j
  BY DEF Line
<1> HIDE DEF x, t
<1>4. j \in Jobs
  BY <1>1, <1>2 DEF Jobs
<1>5. JobOK(j) /\ j.pc = "scan"
  BY <1>1 DEF Jobs, JobOK
<1> QED  BY <1>3, <1>4, <1>5

LEMMA InfoOfOK == \A a \in Addresses : InfoOf(a) \in [local : Addresses \cup {Torn}, isLocal : BOOLEAN]
  BY DEF InfoOf

LEMMA ForgetOK ==
    ASSUME TypeInv, NEW o, Forget(o)
    PROVE  /\ ConnectionsMap' \in [Inodes -> Infos \cup {NoInfo}]
           /\ \A i \in Inodes : ConnectionsMap'[i][2] \in {i, NoInode}
<1>1. NoInfo[2] = NoInode
  BY DEF NoInfo
<1> QED  BY <1>1 DEF Forget, TypeInv, TypeOK

(* One step per action of a worker; in each, first what the action changes *)
(* beside the job, then the job.                                           *)
LEMMA HandleTypeInv == ASSUME TypeInv, NEW w \in Workers, Handle(w) PROVE TypeInv'
<1> USE DEF tables, objects
<1>a. /\ job[w] \in Jobs /\ JobOK(job[w])
      /\ \A n \in Ids : process[n] \in Processes /\ connection[n] \in ConnectionObjects
  BY DEF TypeInv, TypeOK, FieldsOK
<1>1. CASE LoadOrStoreProcess(w)
  <2> DEFINE pid == job[w].ev.pid
             bp  == IF ProcessesMap[pid] = Nil THEN job[w].id ELSE ProcessesMap[pid]
             j   == [job[w] EXCEPT !.pc = "process", !.bp = bp]
  <2>1. pid \in Pids /\ job[w].id \in Ids
    BY <1>a, <1>1 DEF LoadOrStoreProcess, JobOK, RWEvents
  <2>2. bp \in Ids
    BY <2>1 DEF TypeInv, TypeOK
  <2>3. ProcessesMap' \in [Pids -> Ids \cup {Nil}]
    BY <1>1, <2>1, <2>2 DEF LoadOrStoreProcess, TypeInv, TypeOK
  <2> HIDE DEF bp
  <2>4. j \in Jobs /\ JobOK(j)
    BY <1>a, <1>1, <2>2 DEF LoadOrStoreProcess, Jobs, JobOK, WorkerPCs, ProcessPCs, ConnectionPCs, InodePCs
  <2>5. job' = [job EXCEPT ![w] = j]
    BY <1>1 DEF LoadOrStoreProcess, bp
  <2> QED  BY <1>1, <2>3, <2>4, <2>5, JobStep DEF LoadOrStoreProcess, TypeInv, TypeOK, FieldsOK, SnapOK
<1>2. CASE EnterProcessInit(w)
  <2>1. job[w].bp \in Ids
    BY <1>a, <1>2 DEF EnterProcessInit, JobOK, ProcessPCs, ConnectionPCs
  <2>2. process' \in [Ids -> Processes]
    <3> DEFINE o == [process[job[w].bp] EXCEPT !.once = "torn"]
    <3>1. o \in Processes
      BY <1>a, <2>1 DEF Processes
    <3>2. process' = [process EXCEPT ![job[w].bp] = o]
      BY <1>2 DEF EnterProcessInit
    <3> QED  BY <2>1, <3>1, <3>2, ProcessStep
  <2>3. job' \in [Workers -> Jobs] /\ \A v \in Workers : JobOK(job'[v])
    BY <1>2, StepOK DEF EnterProcessInit, WorkerPCs, ProcessPCs, ConnectionPCs, InodePCs
  <2> QED  BY <1>2, <2>2, <2>3 DEF EnterProcessInit, TypeInv, TypeOK, FieldsOK, SnapOK
<1>3. CASE StampProcess(w)
  <2>1. job[w].bp \in Ids
    BY <1>a, <1>3 DEF StampProcess, JobOK, ProcessPCs, ConnectionPCs
  <2>2. process' \in [Ids -> Processes]
    <3> DEFINE o == [process[job[w].bp] EXCEPT !.once = "running", !.age = 0]
    <3>1. o \in Processes
      BY <1>a, <2>1, Constants DEF Processes
    <3>2. process' = [process EXCEPT ![job[w].bp] = o]
      BY <1>3 DEF StampProcess
    <3> QED  BY <2>1, <3>1, <3>2, ProcessStep
  <2>3. job' \in [Workers -> Jobs] /\ \A v \in Workers : JobOK(job'[v])
    BY <1>3, StepOK DEF StampProcess, WorkerPCs, ProcessPCs, ConnectionPCs, InodePCs
  <2> QED  BY <1>3, <2>2, <2>3 DEF StampProcess, TypeInv, TypeOK, FieldsOK, SnapOK
<1>4. CASE InitProcess(w)
  <2>1. job[w].bp \in Ids
    BY <1>a, <1>4 DEF InitProcess, JobOK, ProcessPCs, ConnectionPCs
  <2>2. process' \in [Ids -> Processes]
    <3>1. PICK found \in BOOLEAN :
            process' = [process EXCEPT ![job[w].bp].once = "done", ![job[w].bp].real = found]
      BY <1>4 DEF InitProcess
    <3> DEFINE o == [process[job[w].bp] EXCEPT !.once = "done", !.real = found]
    <3>2. o \in Processes
      BY <1>a, <2>1 DEF Processes
    <3>3. process' = [process EXCEPT ![job[w].bp] = o]
      BY <3>1
    <3> QED  BY <2>1, <3>2, <3>3, ProcessStep
  <2>3. job' \in [Workers -> Jobs] /\ \A v \in Workers : JobOK(job'[v])
    BY <1>4, StepOK DEF InitProcess, WorkerPCs, ProcessPCs, ConnectionPCs, InodePCs
  <2> QED  BY <1>4, <2>2, <2>3 DEF InitProcess, TypeInv, TypeOK, FieldsOK, SnapOK
<1>5. CASE DropUnknownProcess(w)
  BY <1>5, ReturnOK DEF DropUnknownProcess, TypeInv, TypeOK, FieldsOK, SnapOK
<1>6. CASE LoadOrStoreConnection(w)
  <2> DEFINE e  == job[w].ev
             bc == IF Connections[job[w].bp][e.fd] = Nil THEN job[w].id
                   ELSE Connections[job[w].bp][e.fd]
             j  == [job[w] EXCEPT !.pc = "connection", !.bc = bc]
  <2>1. /\ job[w].bp \in Ids /\ job[w].id \in Ids /\ e.fd \in FDs
        /\ e.type \in {"unknown", "socket", "file"}
    BY <1>a, <1>6, TypesAssumption DEF LoadOrStoreConnection, JobOK, RWEvents, ProcessPCs
  <2>2. bc \in Ids
    BY <2>1 DEF TypeInv, TypeOK
  <2> HIDE DEF bc
  <2>3. Connections' \in [Ids -> [FDs -> Ids \cup {Nil}]]
    BY <1>6, <2>1, <2>2 DEF LoadOrStoreConnection, TypeInv, TypeOK, bc
  <2>4. connection' \in [Ids -> ConnectionObjects]
    <3> DEFINE o == [connection[bc] EXCEPT !.type = e.type, !.owner = job[w].bp]
    <3>1. o \in ConnectionObjects
      BY <1>a, <2>1, <2>2 DEF ConnectionObjects
    <3>2. connection' = [connection EXCEPT ![bc] = o] \/ connection' = connection
      BY <1>6 DEF LoadOrStoreConnection, bc
    <3> QED  BY <2>2, <3>1, <3>2, ConnectionStep DEF TypeInv, TypeOK
  <2>5. j \in Jobs /\ JobOK(j)
    BY <1>a, <1>6, <2>1, <2>2 DEF LoadOrStoreConnection, Jobs, JobOK, WorkerPCs, ProcessPCs, ConnectionPCs, InodePCs
  <2>6. job' = [job EXCEPT ![w] = j]
    BY <1>6 DEF LoadOrStoreConnection, bc
  <2> QED  BY <1>6, <2>3, <2>4, <2>5, <2>6, JobStep
           DEF LoadOrStoreConnection, TypeInv, TypeOK, FieldsOK, SnapOK
<1>7. CASE EnterConnectionInit(w)
  <2>1. job[w].bc \in Ids
    BY <1>a, <1>7 DEF EnterConnectionInit, JobOK, ProcessPCs, ConnectionPCs
  <2>2. connection' \in [Ids -> ConnectionObjects]
    <3> DEFINE o == [connection[job[w].bc] EXCEPT !.once = "torn"]
    <3>1. o \in ConnectionObjects
      BY <1>a, <2>1, Constants DEF ConnectionObjects
    <3>2. connection' = [connection EXCEPT ![job[w].bc] = o]
      BY <1>7 DEF EnterConnectionInit
    <3> QED  BY <2>1, <3>1, <3>2, ConnectionStep
  <2>3. job' \in [Workers -> Jobs] /\ \A v \in Workers : JobOK(job'[v])
    BY <1>7, StepOK DEF EnterConnectionInit, WorkerPCs, ProcessPCs, ConnectionPCs, InodePCs
  <2> QED  BY <1>7, <2>2, <2>3 DEF EnterConnectionInit, TypeInv, TypeOK, FieldsOK, SnapOK
<1>8. CASE StampConnection(w)
  <2>1. job[w].bc \in Ids
    BY <1>a, <1>8 DEF StampConnection, JobOK, ProcessPCs, ConnectionPCs
  <2>2. connection' \in [Ids -> ConnectionObjects]
    <3> DEFINE o == [connection[job[w].bc] EXCEPT !.once = "running", !.age = 0]
    <3>1. o \in ConnectionObjects
      BY <1>a, <2>1, Constants DEF ConnectionObjects
    <3>2. connection' = [connection EXCEPT ![job[w].bc] = o]
      BY <1>8 DEF StampConnection
    <3> QED  BY <2>1, <3>1, <3>2, ConnectionStep
  <2>3. job' \in [Workers -> Jobs] /\ \A v \in Workers : JobOK(job'[v])
    BY <1>8, StepOK DEF StampConnection, WorkerPCs, ProcessPCs, ConnectionPCs, InodePCs
  <2> QED  BY <1>8, <2>2, <2>3 DEF StampConnection, TypeInv, TypeOK, FieldsOK, SnapOK
<1>9. CASE InitConnection(w)
  <2>1. job[w].bc \in Ids /\ job[w].pc = "initConnection"
    BY <1>a, <1>9 DEF InitConnection, JobOK, ConnectionPCs
  <2>2. CASE Step(w, "assign")
    <3>1. job' \in [Workers -> Jobs] /\ \A v \in Workers : JobOK(job'[v])
      BY <2>1, <2>2, StepOK DEF WorkerPCs, ProcessPCs, ConnectionPCs, InodePCs
    <3> QED  BY <1>9, <3>1 DEF InitConnection, TypeInv, TypeOK, FieldsOK, SnapOK
  <2>3. ASSUME NEW i \in Inodes,
               job' = [job EXCEPT ![w].pc = IF ConnectionsMap[i] = NoInfo THEN "refresh" ELSE "assign",
                                  ![w].inode = i, ![w].info = ConnectionsMap[i]]
        PROVE  TypeInv'
    <3> DEFINE x == IF ConnectionsMap[i] = NoInfo THEN "refresh" ELSE "assign"
               o == ConnectionsMap[i]
               j == [job[w] EXCEPT !.pc = x, !.inode = i, !.info = o]
    <3>1. x \in {"assign", "refresh"} /\ o \in Infos \cup {NoInfo}
      BY DEF TypeInv, TypeOK
    <3>2. job' = [job EXCEPT ![w] = j]
      BY <2>3
    <3> HIDE DEF x, o
    <3>3. j \in Jobs /\ JobOK(j)
      BY <1>a, <2>1, <3>1 DEF Jobs, JobOK, WorkerPCs, ProcessPCs, ConnectionPCs, InodePCs
    <3>4. job' \in [Workers -> Jobs] /\ \A v \in Workers : JobOK(job'[v])
      BY <3>2, <3>3, JobStep
    <3> QED  BY <1>9, <3>4 DEF InitConnection, TypeInv, TypeOK, FieldsOK, SnapOK
  <2> QED  BY <1>9, <2>2, <2>3 DEF InitConnection
<1>10. CASE LockRefresh(w)
  <2>1. /\ job[w].pc = "refresh" /\ job[w].inode \in Inodes
        /\ ConnectionsMap[job[w].inode] \in Infos \cup {NoInfo}
    BY <1>a, <1>10 DEF LockRefresh, JobOK, InodePCs, TypeInv, TypeOK
  <2>2. job' \in [Workers -> Jobs] /\ \A v \in Workers : JobOK(job'[v])
    <3>1. ASSUME NEW o \in Infos \cup {NoInfo}, Found(w, o)
          PROVE  job' \in [Workers -> Jobs] /\ \A v \in Workers : JobOK(job'[v])
      <4> DEFINE j == [job[w] EXCEPT !.pc = "assign", !.info = o]
      <4>1. j \in Jobs /\ JobOK(j)
        BY <1>a, <2>1 DEF Jobs, JobOK, WorkerPCs, ProcessPCs, ConnectionPCs, InodePCs
      <4>2. job' = [job EXCEPT ![w] = j]
        BY <3>1 DEF Found
      <4> QED  BY <4>1, <4>2, JobStep
    <3>2. ASSUME Scan(w)
          PROVE  job' \in [Workers -> Jobs] /\ \A v \in Workers : JobOK(job'[v])
      <4> DEFINE j == [job[w] EXCEPT !.pc = "scan", !.todo = Inodes]
      <4>1. j \in Jobs /\ JobOK(j)
        BY <1>a, <2>1 DEF Jobs, JobOK, WorkerPCs, ProcessPCs, ConnectionPCs, InodePCs
      <4>2. job' = [job EXCEPT ![w] = j]
        BY <3>2 DEF Scan
      <4> QED  BY <4>1, <4>2, JobStep
    <3> QED  BY <1>10, <2>1, <3>1, <3>2 DEF LockRefresh
  <2> QED  BY <1>10, <2>2 DEF LockRefresh, TypeInv, TypeOK, FieldsOK, SnapOK
<1>11. CASE StoreLine(w)
  <2>1. PICK i \in job[w].todo, a \in Addresses :
           /\ job[w].pc = "scan"
           /\ ConnectionsMap' = [ConnectionsMap EXCEPT ![i] = <<job[w].id, i>>]
           /\ infos' = [infos EXCEPT ![<<job[w].id, i>>] = InfoOf(a)]
           /\ job' = [job EXCEPT ![w] = Line(w, i, <<job[w].id, i>>)]
    BY <1>11 DEF StoreLine
  <2> DEFINE o == <<job[w].id, i>>
  <2>2. i \in Inodes /\ o \in Infos /\ o[2] = i
    BY <1>a, <2>1 DEF Jobs, JobOK, Infos
  <2>3. /\ ConnectionsMap' = [ConnectionsMap EXCEPT ![i] = o]
        /\ infos' = [infos EXCEPT ![o] = InfoOf(a)]
        /\ job' = [job EXCEPT ![w] = Line(w, i, o)]
    BY <2>1
  <2> HIDE DEF o
  <2>4. job' \in [Workers -> Jobs] /\ \A v \in Workers : JobOK(job'[v])
    <3>1. Line(w, i, o) \in Jobs /\ JobOK(Line(w, i, o))
      BY <2>1, <2>2, LineOK
    <3> QED  BY <2>3, <3>1, JobStep
  <2>5. infos' \in [Infos -> [local : Addresses \cup {Torn}, isLocal : BOOLEAN]]
    BY <2>2, <2>3, InfoOfOK DEF TypeInv, TypeOK
  <2>6. /\ ConnectionsMap' \in [Inodes -> Infos \cup {NoInfo}]
        /\ \A k \in Inodes : ConnectionsMap'[k][2] \in {k, NoInode}
    BY <2>2, <2>3 DEF TypeInv, TypeOK
  <2> QED  BY <1>11, <2>4, <2>5, <2>6 DEF StoreLine, TypeInv, TypeOK, FieldsOK, SnapOK
<1>12. CASE LoadLine(w)
  <2>1. PICK i \in job[w].todo :
           LET o == ConnectionsMap[i]
           IN  /\ job[w].pc = "scan" /\ o # NoInfo
               /\ \/ /\ job' = [job EXCEPT ![w] = Line(w, i, o)]
                     /\ UNCHANGED infos
                  \/ /\ job' = [job EXCEPT ![w] = [Line(w, i, o) EXCEPT !.pc = "rewrite", !.line = o]]
                     /\ infos' = [infos EXCEPT ![o].local = Torn]
    BY <1>12 DEF LoadLine
  <2> DEFINE o == ConnectionsMap[i]
             j == [Line(w, i, o) EXCEPT !.pc = "rewrite", !.line = o]
  <2>2. i \in Inodes /\ o \in Infos /\ job[w].pc = "scan"
    BY <1>a, <2>1 DEF Jobs, TypeInv, TypeOK
  <2>3. Line(w, i, o) \in Jobs /\ JobOK(Line(w, i, o)) /\ Line(w, i, o).pc = "scan"
    BY <2>2, LineOK
  <2>4. \/ job' = [job EXCEPT ![w] = Line(w, i, o)] /\ infos' = infos
        \/ job' = [job EXCEPT ![w] = j] /\ infos' = [infos EXCEPT ![o].local = Torn]
    BY <2>1
  <2> HIDE DEF o
  <2>5. j \in Jobs /\ JobOK(j)
    BY <2>2, <2>3 DEF Jobs, JobOK, WorkerPCs, ProcessPCs, ConnectionPCs, InodePCs
  <2>6. job' \in [Workers -> Jobs] /\ \A v \in Workers : JobOK(job'[v])
    <3> HIDE DEF j
    <3> QED  BY <2>3, <2>4, <2>5, JobStep
  <2>7. infos' \in [Infos -> [local : Addresses \cup {Torn}, isLocal : BOOLEAN]]
    BY <2>2, <2>4 DEF TypeInv, TypeOK
  <2> QED  BY <1>12, <2>6, <2>7 DEF LoadLine, TypeInv, TypeOK, FieldsOK, SnapOK
<1>21. CASE RewriteInfo(w)
  <2>1. PICK a \in Addresses : infos' = [infos EXCEPT ![job[w].line] = InfoOf(a)]
    BY <1>21 DEF RewriteInfo
  <2>2. infos' \in [Infos -> [local : Addresses \cup {Torn}, isLocal : BOOLEAN]]
    BY <2>1, InfoOfOK DEF TypeInv, TypeOK
  <2> DEFINE j == [job[w] EXCEPT !.pc = "scan", !.line = NoInfo]
  <2>3. j \in Jobs /\ JobOK(j)
    BY <1>a, <1>21 DEF RewriteInfo, Jobs, JobOK, WorkerPCs, ProcessPCs, ConnectionPCs, InodePCs
  <2>4. job' = [job EXCEPT ![w] = j]
    BY <1>21 DEF RewriteInfo
  <2>5. job' \in [Workers -> Jobs] /\ \A v \in Workers : JobOK(job'[v])
    <3> HIDE DEF j
    <3> QED  BY <2>3, <2>4, JobStep
  <2> QED  BY <1>21, <2>2, <2>5 DEF RewriteInfo, TypeInv, TypeOK, FieldsOK, SnapOK
<1>22. CASE EndScan(w)
  <2> DEFINE j == [job[w] EXCEPT !.pc = "assign", !.todo = {}]
  <2>1. j \in Jobs /\ JobOK(j)
    BY <1>a, <1>22 DEF EndScan, Jobs, JobOK, WorkerPCs, ProcessPCs, ConnectionPCs, InodePCs
  <2>2. job' = [job EXCEPT ![w] = j]
    BY <1>22 DEF EndScan
  <2>3. job' \in [Workers -> Jobs] /\ \A v \in Workers : JobOK(job'[v])
    <3> HIDE DEF j
    <3> QED  BY <2>1, <2>2, JobStep
  <2> QED  BY <1>22, <2>3 DEF EndScan, TypeInv, TypeOK, FieldsOK, SnapOK
<1>23. CASE AssignConnectionInfo(w)
  <2>1. job[w].bc \in Ids /\ job[w].info \in Infos \cup {NoInfo} /\ job[w].pc = "assign"
    BY <1>a, <1>23 DEF AssignConnectionInfo, Jobs, JobOK, ConnectionPCs
  <2> DEFINE t == IF job[w].info = NoInfo THEN connection[job[w].bc].type ELSE "socket"
             o == [connection[job[w].bc] EXCEPT !.once = "done", !.info = job[w].info, !.type = t]
             j == [job[w] EXCEPT !.pc = "connection", !.inode = NoInode, !.info = NoInfo]
  <2>2. job' = [job EXCEPT ![w] = j]
    BY <1>23 DEF AssignConnectionInfo
  <2>7. connection' = [connection EXCEPT ![job[w].bc] = o]
    BY <1>23 DEF AssignConnectionInfo
  <2>3. t \in {"unknown", "socket", "file"}
    BY <1>a, <2>1 DEF ConnectionObjects
  <2>4. connection' \in [Ids -> ConnectionObjects]
    <3> HIDE DEF t
    <3>1. o \in ConnectionObjects
      BY <1>a, <2>1, <2>3 DEF ConnectionObjects
    <3> QED  BY <2>1, <2>7, <3>1, ConnectionStep
  <2>5. j \in Jobs /\ JobOK(j)
    BY <1>a, <2>1 DEF Jobs, JobOK, WorkerPCs, ProcessPCs, ConnectionPCs, InodePCs
  <2>6. job' \in [Workers -> Jobs] /\ \A v \in Workers : JobOK(job'[v])
    <3> HIDE DEF j
    <3> QED  BY <2>2, <2>5, JobStep
  <2> QED  BY <1>23, <2>4, <2>6 DEF AssignConnectionInfo, TypeInv, TypeOK, FieldsOK, SnapOK
<1>24. CASE PassConnection(w)
  <2>1. job' \in [Workers -> Jobs] /\ \A v \in Workers : JobOK(job'[v])
    BY <1>24, StepOK DEF PassConnection, WorkerPCs, ProcessPCs, ConnectionPCs, InodePCs
  <2> QED  BY <1>24, <2>1 DEF PassConnection, TypeInv, TypeOK, FieldsOK, SnapOK
<1>13. CASE SkipConnection(w)
  BY <1>13, ReturnOK DEF SkipConnection, TypeInv, TypeOK, FieldsOK, SnapOK
<1>s. ASSUME job[w].ev \in RWEvents PROVE job[w].ev.size \in Nat
  BY <1>s, SizesAssumption DEF RWEvents
<1>14. CASE AddToConnection(w)
  <2>1. job[w].bc \in Ids /\ job[w].ev.size \in Nat
    BY <1>a, <1>s, <1>14 DEF AddToConnection, JobOK, ProcessPCs, ConnectionPCs
  <2>2. connection' \in [Ids -> ConnectionObjects]
    <3> DEFINE o == Add(connection[job[w].bc], job[w].ev.size)
    <3>1. o \in ConnectionObjects
      BY <1>a, <2>1, AddOK
    <3>2. connection' = [connection EXCEPT ![job[w].bc] = o]
      BY <1>14 DEF AddToConnection
    <3> QED  BY <2>1, <3>1, <3>2, ConnectionStep
  <2>3. job' \in [Workers -> Jobs] /\ \A v \in Workers : JobOK(job'[v])
    BY <1>14, StepOK DEF AddToConnection, WorkerPCs, ProcessPCs, ConnectionPCs, InodePCs
  <2> QED  BY <1>14, <2>2, <2>3 DEF AddToConnection, TypeInv, TypeOK, FieldsOK, SnapOK
<1>15. CASE AddToProcess(w)
  <2>1. job[w].bp \in Ids /\ job[w].ev.size \in Nat
    BY <1>a, <1>s, <1>15 DEF AddToProcess, JobOK, ProcessPCs, ConnectionPCs
  <2>2. process' \in [Ids -> Processes]
    <3> DEFINE o == Add(process[job[w].bp], job[w].ev.size)
    <3>1. o \in Processes
      BY <1>a, <2>1, AddOK
    <3>2. process' = [process EXCEPT ![job[w].bp] = o]
      BY <1>15 DEF AddToProcess
    <3> QED  BY <2>1, <3>1, <3>2, ProcessStep
  <2>3. job' \in [Workers -> Jobs] /\ \A v \in Workers : JobOK(job'[v])
    BY <1>15, StepOK DEF AddToProcess, WorkerPCs, ProcessPCs, ConnectionPCs, InodePCs
  <2> QED  BY <1>15, <2>2, <2>3 DEF AddToProcess, TypeInv, TypeOK, FieldsOK, SnapOK
<1>16. CASE AddToInterface(w)
  <2>1. job[w].ev.size \in Nat
    BY <1>a, <1>s, <1>16 DEF AddToInterface, JobOK, ConnectionPCs
  <2>2. interface' \in [Ifaces -> Interfaces] /\ unknown' \in Nat
    <3>1. PICK i \in IfacesAt(infos[connection[job[w].bc].info].local) :
             IF i = NoIface
             THEN unknown' = unknown + job[w].ev.size /\ UNCHANGED interface
             ELSE interface' = [interface EXCEPT ![i].bytes = @ + job[w].ev.size] /\ UNCHANGED unknown
      BY <1>16 DEF AddToInterface
    <3>2. CASE i = NoIface
      BY <2>1, <3>1, <3>2 DEF TypeInv, TypeOK
    <3>3. CASE i # NoIface /\ i \in Ifaces
      BY <2>1, <3>1, <3>3, InterfaceAddOK DEF TypeInv, TypeOK
    <3>4. CASE i # NoIface /\ i \notin Ifaces
      BY <3>1, <3>4 DEF TypeInv, TypeOK
    <3> QED  BY <3>2, <3>3, <3>4
  <2> QED  BY <1>16, <2>2, ReturnOK DEF AddToInterface, TypeInv, TypeOK, FieldsOK, SnapOK
<1>17. CASE LoadClosingProcess(w)
  <2>1. job[w].ev.pid \in Pids
    BY <1>a, <1>17 DEF LoadClosingProcess, JobOK, CloseEvents
  <2>2. job' \in [Workers -> Jobs] /\ \A v \in Workers : JobOK(job'[v])
    <3>1. CASE ProcessesMap[job[w].ev.pid] = Nil
      BY <1>17, <3>1, ReturnOK DEF LoadClosingProcess
    <3>2. CASE ProcessesMap[job[w].ev.pid] # Nil
      <4> DEFINE b == ProcessesMap[job[w].ev.pid]
                 j == [job[w] EXCEPT !.pc = "closeConnection", !.bp = b]
      <4>1. b \in Ids
        BY <2>1, <3>2 DEF TypeInv, TypeOK
      <4>2. job' = [job EXCEPT ![w] = j]
        BY <1>17, <3>2 DEF LoadClosingProcess
      <4> HIDE DEF b
      <4>3. j \in Jobs /\ JobOK(j)
        BY <1>a, <1>17, <4>1 DEF LoadClosingProcess, Jobs, JobOK, WorkerPCs, ProcessPCs, ConnectionPCs, InodePCs
      <4> QED  BY <4>2, <4>3, JobStep
    <3> QED  BY <3>1, <3>2
  <2> QED  BY <1>17, <2>2 DEF LoadClosingProcess, TypeInv, TypeOK, FieldsOK, SnapOK
<1>18. CASE CloseConnection(w)
  <2> DEFINE c == Connections[job[w].bp][job[w].ev.fd]
  <2>1. job[w].bp \in Ids /\ job[w].ev.fd \in FDs
    BY <1>a, <1>18 DEF CloseConnection, JobOK, CloseEvents
  <2>2. Connections' \in [Ids -> [FDs -> Ids \cup {Nil}]]
    BY <1>18, <2>1 DEF CloseConnection, TypeInv, TypeOK
  <2>3. job' \in [Workers -> Jobs] /\ \A v \in Workers : JobOK(job'[v])
    <3>1. CASE c = Nil
      BY <1>18, <3>1, ReturnOK DEF CloseConnection
    <3>2. CASE c # Nil
      <4> DEFINE j == [job[w] EXCEPT !.pc = "closeInfo", !.bc = c]
      <4>1. c \in Ids
        BY <2>1, <3>2 DEF TypeInv, TypeOK
      <4>2. job' = [job EXCEPT ![w] = j]
        BY <1>18, <3>2 DEF CloseConnection
      <4> HIDE DEF c
      <4>3. j \in Jobs /\ JobOK(j)
        BY <1>a, <1>18, <4>1 DEF CloseConnection, Jobs, JobOK, WorkerPCs, ProcessPCs, ConnectionPCs, InodePCs
      <4> QED  BY <4>2, <4>3, JobStep
    <3> QED  BY <3>1, <3>2
  <2> QED  BY <1>18, <2>2, <2>3 DEF CloseConnection, TypeInv, TypeOK, FieldsOK, SnapOK
<1>19. CASE ForgetClosedInode(w)
  BY <1>19, ReturnOK, ForgetOK DEF ForgetClosedInode, TypeInv, TypeOK, FieldsOK, SnapOK
<1>20. CASE ExitProcess(w)
  <2>1. ProcessesMap' \in [Pids -> Ids \cup {Nil}]
    BY <1>20 DEF ExitProcess, TypeInv, TypeOK
  <2> QED  BY <1>20, <2>1, ReturnOK DEF ExitProcess, TypeInv, TypeOK, FieldsOK, SnapOK
<1> QED
  BY <1>1, <1>2, <1>3, <1>4, <1>5, <1>6, <1>7, <1>8, <1>9, <1>10, <1>11, <1>12, <1>13,
     <1>14, <1>15, <1>16, <1>17, <1>18, <1>19, <1>20, <1>21, <1>22, <1>23, <1>24 DEF Handle

LEMMA ReceiveTypeInv == ASSUME TypeInv, NEW w \in Workers, Receive(w) PROVE TypeInv'
<1> USE DEF tables, objects
<1>1. received' \in 0 .. MaxEvents /\ received' \in Ids
  BY BoundsAssumption DEF Receive, TypeInv, TypeOK, Ids
<1>2. PICK e \in Events :
         job' = [job EXCEPT ![w] = [Waiting EXCEPT !.pc = e.kind, !.ev = e, !.id = received']]
  BY DEF Receive
<1> DEFINE j == [Waiting EXCEPT !.pc = e.kind, !.ev = e, !.id = received']
<1>3. /\ e.kind \in {"rw", "close", "exit"}
      /\ e.kind = "rw" => e \in RWEvents
      /\ e.kind = "close" => e \in CloseEvents
      /\ e.kind = "exit" => e \in ExitEvents
  BY DEF Events, RWEvents, CloseEvents, ExitEvents
<1>4. j \in Jobs /\ JobOK(j)
  <2>2. e.kind \in WorkerPCs
    BY <1>3 DEF WorkerPCs
  <2>3. j \in Jobs
    BY <1>1, <2>2 DEF Jobs, Waiting, NoInfo
  <2>4. JobOK(j)
    BY <1>1, <1>3 DEF JobOK, Waiting, ProcessPCs, ConnectionPCs, InodePCs
  <2> QED  BY <2>3, <2>4
<1>5. job' \in [Workers -> Jobs] /\ \A v \in Workers : JobOK(job'[v])
  BY <1>2, <1>4, JobStep
<1> QED  BY <1>1, <1>5 DEF Receive, TypeInv, TypeOK, FieldsOK, SnapOK

LEMMA TakeSnapshotOK == /\ \A o \in Processes : takeSnapshot(o) \in Processes
                        /\ \A o \in ConnectionObjects : takeSnapshot(o) \in ConnectionObjects
  BY DEF takeSnapshot, Processes, ConnectionObjects

LEMMA SnapshotTypeInv == ASSUME TypeInv, SnapshotStep PROVE TypeInv'
<1> USE DEF tables, objects
<1>a. snap \in Snaps /\ SnapOK /\ due \in SUBSET Ids
  BY DEF TypeInv, TypeOK, FieldsOK
<1>1. CASE StartPass
  <2>1. snap' \in Snaps /\ SnapOK'
    BY <1>a, <1>1 DEF StartPass, Snaps, SnapOK, SnapPCs, LiveProcesses
  <2>2. due' \in SUBSET Ids
    BY <1>1 DEF StartPass, Due, LiveConnections
  <2> QED  BY <1>1, <2>1, <2>2 DEF StartPass, TypeInv, TypeOK, FieldsOK, JobOK
<1>2. ASSUME NEW p \in Pids, VisitProcess(p) PROVE TypeInv'
  <2>1. snap' \in Snaps /\ SnapOK'
    <3>1. ProcessesMap[p] \in Ids
      BY <1>2 DEF VisitProcess, TypeInv, TypeOK
    <3>2. CASE snap' = [snap EXCEPT !.pc = "evictProcess", !.pids = @ \ {p}, !.pid = p]
      BY <1>a, <3>2 DEF Snaps, SnapOK, SnapPCs
    <3>3. ASSUME snap' = [snap EXCEPT !.pc = "connections", !.pids = @ \ {p},
                            !.bp = ProcessesMap[p], !.fds = FDs, !.account = FALSE,
                            !.oldConns = {Connections[ProcessesMap[p]][f] : f \in FDs} \ {Nil}]
          PROVE  snap' \in Snaps /\ SnapOK'
      <4>1. {Connections[ProcessesMap[p]][f] : f \in FDs} \ {Nil} \in SUBSET Ids
        BY <3>1 DEF TypeInv, TypeOK
      <4> QED  BY <1>a, <3>1, <3>3, <4>1 DEF Snaps, SnapOK, SnapPCs
    <3> QED  BY <1>2, <3>2, <3>3 DEF VisitProcess
  <2> QED  BY <1>2, <2>1 DEF VisitProcess, TypeInv, TypeOK, FieldsOK, JobOK
<1>3. CASE EvictProcess
  <2>1. snap' \in Snaps /\ SnapOK'
    BY <1>a, <1>3 DEF EvictProcess, Snaps, SnapOK, SnapPCs
  <2>2. ProcessesMap' \in [Pids -> Ids \cup {Nil}]
    BY <1>3 DEF EvictProcess, TypeInv, TypeOK
  <2> QED  BY <1>3, <2>1, <2>2 DEF EvictProcess, TypeInv, TypeOK, FieldsOK, JobOK
<1>4. ASSUME NEW f \in FDs, VisitConnection(f) PROVE TypeInv'
  <2> DEFINE bc == Connections[snap.bp][f]
  <2>1. bc # Nil => bc \in Ids
    BY <1>a, <1>4 DEF VisitConnection, SnapOK, TypeInv, TypeOK
  <2> HIDE DEF bc
  <2>2. snap' \in Snaps /\ SnapOK'
    <3>1. CASE snap' = [snap EXCEPT !.fds = @ \ {f}]
      BY <1>a, <3>1 DEF Snaps, SnapOK
    <3>2. CASE bc # Nil /\ snap' = [snap EXCEPT !.pc = "evictConnection", !.fds = @ \ {f},
                                                !.fd = f, !.bc = bc]
      BY <1>a, <1>4, <2>1, <3>2 DEF VisitConnection, Snaps, SnapOK, SnapPCs
    <3>3. CASE snap' = [snap EXCEPT !.fds = @ \ {f}, !.account = TRUE]
      BY <1>a, <3>3 DEF Snaps, SnapOK
    <3> QED  BY <1>4, <3>1, <3>2, <3>3 DEF VisitConnection, bc
  <2>3. connection' \in [Ids -> ConnectionObjects]
    <3>1. CASE bc # Nil /\ connection' = [connection EXCEPT ![bc] = takeSnapshot(@)]
      <4>1. takeSnapshot(connection[bc]) \in ConnectionObjects
        BY <2>1, <3>1, TakeSnapshotOK DEF TypeInv, TypeOK
      <4> QED  BY <2>1, <3>1, <4>1, ConnectionStep
    <3>2. CASE UNCHANGED connection
      BY <3>2 DEF TypeInv, TypeOK
    <3> QED  BY <1>4, <3>1, <3>2 DEF VisitConnection, bc
  <2>4. due' \in SUBSET Ids
    BY <1>a, <1>4 DEF VisitConnection
  <2> QED  BY <1>4, <2>2, <2>3, <2>4 DEF VisitConnection, TypeInv, TypeOK, FieldsOK, JobOK
<1>5. CASE EvictConnection
  <2>1. snap' \in Snaps /\ SnapOK'
    BY <1>a, <1>5 DEF EvictConnection, Snaps, SnapOK, SnapPCs
  <2>2. Connections' \in [Ids -> [FDs -> Ids \cup {Nil}]]
    BY <1>5 DEF EvictConnection, TypeInv, TypeOK
  <2> QED  BY <1>5, <2>1, <2>2 DEF EvictConnection, TypeInv, TypeOK, FieldsOK, JobOK
<1>6. CASE ForgetIdleInode
  <2>1. snap' \in Snaps /\ SnapOK'
    BY <1>a, <1>6 DEF ForgetIdleInode, Snaps, SnapOK, SnapPCs
  <2> QED  BY <1>6, <2>1, ForgetOK DEF ForgetIdleInode, TypeInv, TypeOK, FieldsOK, JobOK
<1>7. CASE FinishProcess
  <2>1. snap' \in Snaps /\ SnapOK'
    BY <1>a, <1>7 DEF FinishProcess, Snaps, SnapOK, SnapPCs
  <2>2. process' \in [Ids -> Processes]
    <3>1. snap.bp \in Ids
      BY <1>a, <1>7 DEF FinishProcess, SnapOK
    <3>2. takeSnapshot(process[snap.bp]) \in Processes
      BY <3>1, TakeSnapshotOK DEF TypeInv, TypeOK
    <3> QED  BY <1>7, <3>1, <3>2, ProcessStep DEF FinishProcess, TypeInv, TypeOK
  <2>3. due' \in SUBSET Ids
    BY <1>a, <1>7 DEF FinishProcess
  <2> QED  BY <1>7, <2>1, <2>2, <2>3 DEF FinishProcess, TypeInv, TypeOK, FieldsOK, JobOK
<1>8. CASE SnapshotInterfaces
  <2>1. snap' \in Snaps /\ SnapOK'
    BY <1>a, <1>8 DEF SnapshotInterfaces, Snaps, SnapOK, SnapPCs
  <2>2. interface' \in [Ifaces -> Interfaces]
    BY <1>8 DEF SnapshotInterfaces, takeSnapshot, Interfaces, TypeInv, TypeOK
  <2> QED  BY <1>8, <2>1, <2>2 DEF SnapshotInterfaces, TypeInv, TypeOK, FieldsOK, JobOK
<1>9. CASE FinishPass
  <2>1. snap' \in Snaps /\ SnapOK' /\ due' \in SUBSET Ids
    BY <1>9 DEF FinishPass, Sleeping, Snaps, SnapOK, SnapPCs
  <2> QED  BY <1>9, <2>1 DEF FinishPass, TypeInv, TypeOK, FieldsOK, JobOK
<1> QED
  BY <1>1, <1>2, <1>3, <1>4, <1>5, <1>6, <1>7, <1>8, <1>9 DEF SnapshotStep

LEMMA OlderOK == /\ \A o \in Processes : Older(o) \in Processes
                 /\ \A o \in ConnectionObjects : Older(o) \in ConnectionObjects
<1>1. ASSUME NEW o \in Processes PROVE Older(o) \in Processes
  <2>1. o.age \in Ages
    BY DEF Processes
  <2>2. o.age <= IdleTimeout => [o EXCEPT !.age = o.age + 1] \in Processes
    BY <2>1, Constants DEF Processes
  <2> QED  BY <2>2 DEF Older
<1>2. ASSUME NEW o \in ConnectionObjects PROVE Older(o) \in ConnectionObjects
  <2>1. o.age \in Ages
    BY DEF ConnectionObjects
  <2>2. o.age <= IdleTimeout => [o EXCEPT !.age = o.age + 1] \in ConnectionObjects
    BY <2>1, Constants DEF ConnectionObjects
  <2> QED  BY <2>2 DEF Older
<1> QED  BY <1>1, <1>2

LEMMA TickTypeInv == ASSUME TypeInv, Tick PROVE TypeInv'
<1>1. process' \in [Ids -> Processes] /\ connection' \in [Ids -> ConnectionObjects]
  BY OlderOK DEF Tick, TypeInv, TypeOK
<1> QED  BY <1>1 DEF Tick, tables, TypeInv, TypeOK, FieldsOK, SnapOK

LEMMA NextTypeInv == TypeInv /\ [Next]_vars => TypeInv'
<1> SUFFICES ASSUME TypeInv, [Next]_vars PROVE TypeInv'
  OBVIOUS
<1>1. CASE UNCHANGED vars
  BY <1>1 DEF vars, TypeInv, TypeOK, FieldsOK, SnapOK
<1> QED  BY <1>1, ReceiveTypeInv, HandleTypeInv, SnapshotTypeInv, TickTypeInv DEF Next

(* Type correctness of the maps, the objects and of every job: a handler   *)
(* never dereferences a nil process or connection.                         *)
THEOREM TypeCorrect == Spec => []TypeOK
<1>1. TypeInv => TypeOK
  BY DEF TypeInv
<1> QED  BY <1>1, InitTypeInv, NextTypeInv, PTL DEF Spec

-----------------------------------------------------------------------------
(* The inductive invariant behind the safety properties of Engine: who     *)
(* owns an object, and who may initialise it.                              *)

ProcessInitPCs    == {"stampProcess", "initProcess"}
ResolvePCs        == {"initConnection", "refresh", "scan", "rewrite", "assign"}
ConnectionInitPCs == {"stampConnection"} \cup ResolvePCs
CountingPCs       == {"addConnection", "addProcess", "addInterface"}

(* Object names are fresh: they are the numbers of distinct events, and no *)
(* connection of that name exists before the handler allocates it.         *)
IdsInv ==
    /\ \A w \in Workers : job[w].pc # "receive" => job[w].id <= received
    /\ \A v, w \in Workers :
         job[v].pc # "receive" /\ job[w].pc # "receive" /\ v # w => job[v].id # job[w].id
    /\ \A c \in Ids : c > received => connection[c].owner = Nil
    /\ \A w \in Workers : job[w].pc \in {"rw"} \cup ProcessPCs
                           => connection[job[w].id].owner = Nil

(* A connection belongs to one process, which was found, for good.         *)
OwnerInv ==
    /\ \A c \in Ids : connection[c].owner = Nil
                         => connection[c].once = "new" /\ connection[c].bytes = 0
    /\ \A c \in Ids : connection[c].owner # Nil
                         => /\ process[connection[c].owner].once = "done"
                            /\ process[connection[c].owner].real
    /\ \A n \in Ids, f \in FDs : Connections[n][f] # Nil
                                   => connection[Connections[n][f]].owner = n
    /\ \A w \in Workers : job[w].pc \in ConnectionPCs
                           => connection[job[w].bc].owner = job[w].bp

(* once.Do of a process: one worker is inside, and its progress shows.     *)
ProcessOnceInv ==
    /\ \A w \in Workers : job[w].pc = "stampProcess" => process[job[w].bp].once = "torn"
    /\ \A w \in Workers : job[w].pc = "initProcess" => process[job[w].bp].once = "running"
    /\ \A v, w \in Workers :
         job[v].pc \in ProcessInitPCs /\ job[w].pc \in ProcessInitPCs /\ v # w
           => job[v].bp # job[w].bp

(* What is known of a connection whose traffic is counted: not that it is  *)
(* remote, since the address of a ConnectionInfo may be rewritten.         *)
Settled(c) == c.once = "done" /\ c.type = "socket" /\ c.info # NoInfo

(* once.Do of a connection, and what is known once it is over.             *)
ConnectionOnceInv ==
    /\ \A w \in Workers : job[w].pc = "stampConnection" => connection[job[w].bc].once = "torn"
    /\ \A w \in Workers : job[w].pc \in ResolvePCs => connection[job[w].bc].once = "running"
    /\ \A v, w \in Workers :
         job[v].pc \in ConnectionInitPCs /\ job[w].pc \in ConnectionInitPCs /\ v # w
           => job[v].bc # job[w].bc
    /\ \A w \in Workers : job[w].pc \in CountingPCs
                           => Settled(connection[job[w].bc])
    /\ \A c \in Ids : connection[c].bytes > 0 => Settled(connection[c])

ObjectInv == TypeInv /\ IdsInv /\ OwnerInv /\ ProcessOnceInv /\ ConnectionOnceInv

-----------------------------------------------------------------------------
(* What a step leaves of the jobs and the objects, without the records.    *)
LEMMA StepShape ==
    ASSUME TypeInv, NEW w \in Workers, NEW x, Step(w, x)
    PROVE  /\ job'[w].pc = x
           /\ \A v \in Workers : /\ job'[v].id = job[v].id /\ job'[v].bp = job[v].bp
                                 /\ job'[v].bc = job[v].bc
           /\ \A v \in Workers \ {w} : job'[v].pc = job[v].pc
<1>1. job \in [Workers -> Jobs]
  BY DEF TypeInv, TypeOK
<1>2. job'[w] = [job[w] EXCEPT !.pc = x] /\ \A v \in Workers \ {w} : job'[v] = job[v]
  BY <1>1 DEF Step
<1> QED  BY <1>1, <1>2 DEF Jobs

LEMMA ReturnShape ==
    ASSUME TypeInv, NEW w \in Workers, Return(w)
    PROVE  job'[w].pc = "receive" /\ \A v \in Workers \ {w} : job'[v] = job[v]
  BY DEF Return, Waiting, TypeInv, TypeOK

LEMMA IdsAreNonNil == \A n \in Ids : n # Nil
  BY BoundsAssumption DEF Ids, Nil

(* A worker that returns, changing no object, and no table but by removing *)
(* entries, preserves the invariant.                                       *)
LEMMA ReturnInv ==
    ASSUME ObjectInv, NEW w \in Workers, Return(w), TypeInv',
           UNCHANGED <<process, connection, received>>,
           \A n \in Ids, f \in FDs : Connections'[n][f] \in {Connections[n][f], Nil}
    PROVE  ObjectInv'
<1>1. job'[w].pc = "receive" /\ \A v \in Workers \ {w} : job'[v] = job[v]
  BY ReturnShape DEF ObjectInv
<1>2. IdsInv'
  BY <1>1 DEF ObjectInv, IdsInv, ProcessPCs
<1>3. OwnerInv'
  BY <1>1 DEF ObjectInv, OwnerInv, ConnectionPCs
<1>4. ProcessOnceInv'
  BY <1>1 DEF ObjectInv, ProcessOnceInv, ProcessInitPCs
<1>5. ConnectionOnceInv'
  BY <1>1 DEF ObjectInv, ConnectionOnceInv, CountingPCs, ConnectionInitPCs, ResolvePCs, Settled
<1> QED  BY <1>2, <1>3, <1>4, <1>5 DEF ObjectInv

(* A step of a close handler allocates nothing and initialises nothing.    *)
LEMMA CloseInv ==
    ASSUME ObjectInv, NEW w \in Workers, TypeInv', job[w].pc \in {"close", "closeConnection"},
           job'[w].pc \in {"closeConnection", "closeInfo"}, job'[w].id = job[w].id,
           \A v \in Workers \ {w} : job'[v] = job[v],
           UNCHANGED <<process, connection, received>>,
           \A n \in Ids, f \in FDs : Connections'[n][f] \in {Connections[n][f], Nil}
    PROVE  ObjectInv'
<1>1. IdsInv'
  BY DEF ObjectInv, IdsInv, ProcessPCs
<1>2. OwnerInv'
  BY DEF ObjectInv, OwnerInv, ConnectionPCs
<1>3. ProcessOnceInv'
  BY DEF ObjectInv, ProcessOnceInv, ProcessInitPCs
<1>4. ConnectionOnceInv'
  BY DEF ObjectInv, ConnectionOnceInv, CountingPCs, ConnectionInitPCs, ResolvePCs, Settled
<1> QED  BY <1>1, <1>2, <1>3, <1>4 DEF ObjectInv

(* A step from one stage of getConnectionInfoFor to another.               *)
LEMMA ResolveInv ==
    ASSUME ObjectInv, NEW w \in Workers, TypeInv',
           job[w].pc \in ResolvePCs, job'[w].pc \in ResolvePCs,
           job'[w].id = job[w].id, job'[w].bp = job[w].bp, job'[w].bc = job[w].bc,
           \A v \in Workers \ {w} : job'[v] = job[v],
           UNCHANGED <<Connections, process, connection, received>>
    PROVE  ObjectInv'
<1>1. IdsInv'
  BY DEF ObjectInv, IdsInv, ProcessPCs, ResolvePCs
<1>2. OwnerInv'
  BY DEF ObjectInv, OwnerInv, ConnectionPCs, ResolvePCs
<1>3. ProcessOnceInv'
  BY DEF ObjectInv, ProcessOnceInv, ProcessInitPCs, ResolvePCs
<1>4. ConnectionOnceInv'
  BY DEF ObjectInv, ConnectionOnceInv, CountingPCs, ConnectionInitPCs, ResolvePCs, Settled
<1> QED  BY <1>1, <1>2, <1>3, <1>4 DEF ObjectInv

(* Between LoadOrStore and the end of the handler a worker writes only its *)
(* own connection object, and never changes whose it is.                   *)
LEMMA OwnConnectionInv ==
    ASSUME ObjectInv, NEW w \in Workers,
           job[w].pc \in ConnectionPCs, job'[w].pc \in ConnectionPCs,
           job'[w].id = job[w].id, job'[w].bp = job[w].bp, job'[w].bc = job[w].bc,
           \A v \in Workers \ {w} : job'[v] = job[v],
           connection'[job[w].bc].owner = connection[job[w].bc].owner,
           \A c \in Ids \ {job[w].bc} : connection'[c] = connection[c],
           UNCHANGED <<Connections, process, received>>
    PROVE  IdsInv' /\ OwnerInv' /\ ProcessOnceInv'
<1>a. /\ IdsInv /\ OwnerInv /\ ProcessOnceInv
      /\ \A v \in Workers : JobOK(job[v])
      /\ \A n \in Ids, f \in FDs : Connections[n][f] \in Ids \cup {Nil}
      /\ \A c \in Ids : connection[c].owner \in Ids \cup {Nil}
  BY DEF ObjectInv, TypeInv, TypeOK, FieldsOK, ConnectionObjects
<1>1. /\ job[w].bc \in Ids /\ job[w].bp \in Ids
      /\ \A v \in Workers : job[v].pc \in {"rw"} \cup ProcessPCs => job[v].id \in Ids
      /\ \A v \in Workers : job[v].pc \in ConnectionPCs => job[v].bc \in Ids
  BY <1>a DEF JobOK, ConnectionPCs, ProcessPCs
<1>2. connection[job[w].bc].owner = job[w].bp /\ job[w].bp # Nil
  BY <1>a, <1>1, IdsAreNonNil DEF OwnerInv
<1>3. \A c \in Ids : connection'[c].owner = connection[c].owner
  BY <1>1
<1>4. IdsInv'
  BY <1>a, <1>1, <1>3 DEF IdsInv, ProcessPCs, ConnectionPCs
<1>5. OwnerInv'
  <2>1. \A c \in Ids : connection'[c].owner = Nil
                         => connection'[c].once = "new" /\ connection'[c].bytes = 0
    BY <1>a, <1>2, <1>3 DEF OwnerInv
  <2>2. \A c \in Ids : connection'[c].owner # Nil
                         => /\ process'[connection'[c].owner].once = "done"
                            /\ process'[connection'[c].owner].real
    BY <1>a, <1>3 DEF OwnerInv
  <2>3. \A n \in Ids, f \in FDs : Connections'[n][f] # Nil
                                   => connection'[Connections'[n][f]].owner = n
    BY <1>a, <1>3 DEF OwnerInv
  <2>4. \A v \in Workers : job'[v].pc \in ConnectionPCs
                           => connection'[job'[v].bc].owner = job'[v].bp
    BY <1>a, <1>1, <1>3 DEF OwnerInv
  <2> QED  BY <2>1, <2>2, <2>3, <2>4 DEF OwnerInv
<1>6. ProcessOnceInv'
  BY <1>a DEF ProcessOnceInv, ProcessInitPCs, ConnectionPCs
<1> QED  BY <1>4, <1>5, <1>6

(* Its progress through once.Do: only the worker inside moves it on, and   *)
(* only before anything is counted.                                        *)
LEMMA OnceProgressInv ==
    ASSUME ObjectInv, NEW w \in Workers,
           job'[w].pc \in ConnectionPCs, job'[w].bc = job[w].bc,
           \A v \in Workers \ {w} : job'[v] = job[v],
           job[w].bc \in Ids, NEW o, connection'[job[w].bc] = o,
           \A c \in Ids \ {job[w].bc} : connection'[c] = connection[c],
           o.bytes = connection[job[w].bc].bytes,
           \/ /\ job[w].pc = "connection" /\ connection[job[w].bc].once = "new"
              /\ job'[w].pc = "stampConnection" /\ o.once = "torn"
           \/ /\ job[w].pc = "stampConnection"
              /\ job'[w].pc = "initConnection" /\ o.once = "running"
           \/ /\ job[w].pc \in ResolvePCs
              /\ job'[w].pc = "connection" /\ o.once = "done"
    PROVE  ConnectionOnceInv'
<1>a. ConnectionOnceInv /\ (\A v \in Workers : JobOK(job[v]))
      /\ \A c \in Ids : connection[c].bytes \in Nat
  BY DEF ObjectInv, TypeInv, TypeOK, FieldsOK, ConnectionObjects
<1>1. \A v \in Workers : job[v].pc \in ConnectionPCs => job[v].bc \in Ids
  BY <1>a DEF JobOK
<1>2. connection[job[w].bc].once # "done"
  BY <1>a DEF ConnectionOnceInv, CountingPCs
<1>3. connection[job[w].bc].bytes = 0
  BY <1>a, <1>2 DEF ConnectionOnceInv, Settled
<1>4. \A v \in Workers \ {w} : job[v].pc \in ConnectionInitPCs => job[v].bc # job[w].bc
  BY <1>a DEF ConnectionOnceInv, CountingPCs, ConnectionInitPCs, ResolvePCs
<1>5. \A v \in Workers \ {w} : job[v].pc \in CountingPCs
                                => job[v].bc # job[w].bc
  BY <1>a, <1>2 DEF ConnectionOnceInv, Settled
<1>6. \A c \in Ids \ {job[w].bc} : Settled(connection'[c]) <=> Settled(connection[c])
  BY DEF Settled
<1>7. \A v \in Workers \ {w} :
         /\ job[v].pc = "stampConnection" => connection'[job[v].bc].once = "torn"
         /\ job[v].pc \in ResolvePCs => connection'[job[v].bc].once = "running"
  BY <1>a, <1>1, <1>4 DEF ConnectionOnceInv, CountingPCs, ConnectionInitPCs, ConnectionPCs, ResolvePCs
<1>8. \A v \in Workers \ {w} : job[v].pc \in CountingPCs =>
         Settled(connection'[job[v].bc])
  BY <1>a, <1>1, <1>5 DEF ConnectionOnceInv, CountingPCs, ConnectionPCs, Settled
<1>9. /\ job'[w].pc = "stampConnection" => connection'[job'[w].bc].once = "torn"
      /\ job'[w].pc \in ResolvePCs => connection'[job'[w].bc].once = "running"
      /\ job'[w].pc \notin CountingPCs
  BY DEF ResolvePCs, CountingPCs
<1>10. \A v \in Workers :
         /\ job'[v].pc = "stampConnection" => connection'[job'[v].bc].once = "torn"
         /\ job'[v].pc \in ResolvePCs => connection'[job'[v].bc].once = "running"
         /\ job'[v].pc \in CountingPCs
              => Settled(connection'[job'[v].bc])
  BY <1>7, <1>8, <1>9 DEF Settled
<1>11. \A v, u \in Workers :
         job'[v].pc \in ConnectionInitPCs /\ job'[u].pc \in ConnectionInitPCs /\ v # u
           => job'[v].bc # job'[u].bc
  BY <1>a, <1>4 DEF ConnectionOnceInv, CountingPCs
<1>12. \A c \in Ids : connection'[c].bytes > 0
                       => Settled(connection'[c])
  BY <1>a, <1>3, <1>6 DEF ConnectionOnceInv, CountingPCs
<1> QED  BY <1>10, <1>11, <1>12 DEF ConnectionOnceInv, CountingPCs, Settled

(* A line of /proc/net keeps the worker in its scan.                       *)
LEMMA LineShape ==
    ASSUME TypeInv, NEW w \in Workers, StoreLine(w) \/ LoadLine(w)
    PROVE  /\ job[w].pc = "scan" /\ job'[w].pc \in {"scan", "rewrite"}
           /\ UNCHANGED <<ProcessesMap, Connections, process, connection, interface, unknown,
                          cLock, received, snap, due>>
           /\ job'[w].id = job[w].id /\ job'[w].bp = job[w].bp /\ job'[w].bc = job[w].bc
           /\ job'[w].ev = job[w].ev
           /\ \A v \in Workers \ {w} : job'[v] = job[v]
<1> USE DEF tables, objects
<1>1. job \in [Workers -> Jobs]
  BY DEF TypeInv, TypeOK
<1>2. CASE StoreLine(w)
  <2>1. PICK i \in Inodes : job' = [job EXCEPT ![w] = Line(w, i, <<job[w].id, i>>)]
    BY <1>1, <1>2 DEF StoreLine, Jobs
  <2>2. \A o : /\ Line(w, i, o).pc = job[w].pc /\ Line(w, i, o).id = job[w].id
               /\ Line(w, i, o).bp = job[w].bp /\ Line(w, i, o).bc = job[w].bc
               /\ Line(w, i, o).ev = job[w].ev
    BY <1>1 DEF Line, Jobs
  <2> QED  BY <1>1, <1>2, <2>1, <2>2 DEF StoreLine
<1>3. CASE LoadLine(w)
  <2>1. PICK i \in Inodes :
           \/ job' = [job EXCEPT ![w] = Line(w, i, ConnectionsMap[i])]
           \/ job' = [job EXCEPT ![w] = [Line(w, i, ConnectionsMap[i]) EXCEPT !.pc = "rewrite",
                                                               !.line = ConnectionsMap[i]]]
    BY <1>1, <1>3 DEF LoadLine, Jobs
  <2> DEFINE l == Line(w, i, ConnectionsMap[i])
             m == [l EXCEPT !.pc = "rewrite", !.line = ConnectionsMap[i]]
  <2>2. /\ l.pc = job[w].pc /\ l.id = job[w].id /\ l.bp = job[w].bp /\ l.bc = job[w].bc
        /\ l.ev = job[w].ev
    BY <1>1 DEF Line, Jobs
  <2>3. /\ m.pc = "rewrite" /\ m.id = job[w].id /\ m.bp = job[w].bp /\ m.bc = job[w].bc
        /\ m.ev = job[w].ev
    BY <1>1 DEF Line, Jobs
  <2> HIDE DEF l, m
  <2>4. job'[w] \in {l, m} /\ \A v \in Workers \ {w} : job'[v] = job[v]
    BY <1>1, <2>1 DEF l, m
  <2> QED  BY <1>3, <2>2, <2>3, <2>4 DEF LoadLine
<1> QED  BY <1>2, <1>3

(* A step of getConnectionInfoFor changes neither tables nor objects.      *)
Resolve(w) == \/ InitConnection(w) \/ LockRefresh(w) \/ StoreLine(w) \/ LoadLine(w)
              \/ RewriteInfo(w) \/ EndScan(w)

LEMMA ResolveShape ==
    ASSUME TypeInv, NEW w \in Workers, Resolve(w)
    PROVE  /\ job[w].pc \in ResolvePCs /\ job'[w].pc \in ResolvePCs
           /\ UNCHANGED <<ProcessesMap, Connections, process, connection, interface, unknown,
                          received, snap, due>>
           /\ job'[w].id = job[w].id /\ job'[w].bp = job[w].bp /\ job'[w].bc = job[w].bc
           /\ job'[w].ev = job[w].ev
           /\ \A v \in Workers \ {w} : job'[v] = job[v]
<1> USE DEF tables, objects, ResolvePCs
<1>1. job \in [Workers -> Jobs]
  BY DEF TypeInv, TypeOK
<1>2. CASE InitConnection(w)
  <2>1. CASE Step(w, "assign")
    BY <1>1, <1>2, <2>1 DEF InitConnection, Step, Jobs
  <2>2. ASSUME NEW i \in Inodes,
               job' = [job EXCEPT ![w].pc = IF ConnectionsMap[i] = NoInfo THEN "refresh" ELSE "assign",
                                  ![w].inode = i, ![w].info = ConnectionsMap[i]]
        PROVE  /\ job'[w].pc \in {"assign", "refresh"}
               /\ job'[w].id = job[w].id /\ job'[w].bp = job[w].bp /\ job'[w].bc = job[w].bc
               /\ job'[w].ev = job[w].ev
               /\ \A v \in Workers \ {w} : job'[v] = job[v]
    BY <1>1, <2>2 DEF Jobs
  <2>3. /\ job[w].pc = "initConnection"
        /\ UNCHANGED <<ProcessesMap, Connections, process, connection, interface, unknown,
                       received, snap, due>>
    BY <1>2 DEF InitConnection
  <2> QED  BY <1>2, <2>1, <2>2, <2>3 DEF InitConnection
<1>3. CASE LockRefresh(w)
  BY <1>1, <1>3 DEF LockRefresh, Found, Scan, Jobs
<1>4. CASE StoreLine(w) \/ LoadLine(w)
  BY <1>4, LineShape
<1>5. CASE RewriteInfo(w)
  BY <1>1, <1>5 DEF RewriteInfo, Jobs
<1>6. CASE EndScan(w)
  BY <1>1, <1>6 DEF EndScan, Jobs
<1> QED  BY <1>2, <1>3, <1>4, <1>5, <1>6 DEF Resolve

LEMMA HandleObjectInv == ASSUME ObjectInv, NEW w \in Workers, Handle(w), TypeInv' PROVE ObjectInv'
<1> USE DEF tables, objects
<1>a. /\ TypeInv /\ job[w] \in Jobs /\ JobOK(job[w])
      /\ process \in [Ids -> Processes] /\ connection \in [Ids -> ConnectionObjects]
      /\ IdsInv /\ OwnerInv /\ ProcessOnceInv /\ ConnectionOnceInv
      /\ \A v \in Workers : JobOK(job[v])
  BY DEF ObjectInv, TypeInv, TypeOK, FieldsOK
<1>1. CASE LoadOrStoreProcess(w)
  <2>1. /\ job'[w].pc = "process" /\ job'[w].id = job[w].id
        /\ \A v \in Workers \ {w} : job'[v] = job[v]
    BY <1>a, <1>1 DEF LoadOrStoreProcess, Jobs, TypeInv, TypeOK
  <2>2. /\ job[w].pc = "rw"
        /\ UNCHANGED <<Connections, process, connection, received>>
    BY <1>1 DEF LoadOrStoreProcess
  <2>3. IdsInv'
    BY <1>a, <2>1, <2>2 DEF IdsInv, ProcessPCs
  <2>4. OwnerInv'
    BY <1>a, <2>1, <2>2 DEF OwnerInv, ConnectionPCs
  <2>5. ProcessOnceInv'
    BY <1>a, <2>1, <2>2 DEF ProcessOnceInv, ProcessInitPCs
  <2>6. ConnectionOnceInv'
    BY <1>a, <2>1, <2>2 DEF ConnectionOnceInv, CountingPCs, ConnectionInitPCs, ResolvePCs
  <2> QED  BY <2>3, <2>4, <2>5, <2>6 DEF ObjectInv
<1>2. CASE EnterProcessInit(w)
  <2>1. /\ job'[w].pc = "stampProcess"
        /\ \A v \in Workers : /\ job'[v].id = job[v].id /\ job'[v].bp = job[v].bp
                              /\ job'[v].bc = job[v].bc
        /\ \A v \in Workers \ {w} : job'[v].pc = job[v].pc
    BY <1>a, <1>2, StepShape DEF EnterProcessInit
  <2>2. job[w].bp \in Ids
    BY <1>a, <1>2 DEF EnterProcessInit, JobOK, ProcessPCs, ConnectionPCs
  <2>3. /\ process'[job[w].bp].once = "torn"
        /\ \A n \in Ids \ {job[w].bp} : process'[n] = process[n]
    BY <1>a, <1>2, <2>2 DEF EnterProcessInit, Processes
  <2>4. IdsInv'
    BY <1>a, <1>2, <2>1 DEF EnterProcessInit, IdsInv, ProcessPCs
  <2>5. OwnerInv'
    BY <1>a, <1>2, <2>1, <2>2, <2>3 DEF EnterProcessInit, OwnerInv, ProcessOnceInv, ConnectionPCs
  <2>6. ProcessOnceInv'
    BY <1>a, <1>2, <2>1, <2>2, <2>3 DEF EnterProcessInit, ProcessOnceInv, ProcessInitPCs, JobOK, ProcessPCs
  <2>7. ConnectionOnceInv'
    BY <1>a, <1>2, <2>1 DEF EnterProcessInit, ConnectionOnceInv, CountingPCs, ConnectionInitPCs, ResolvePCs, Settled
  <2> QED  BY <2>4, <2>5, <2>6, <2>7 DEF ObjectInv
<1>3. CASE StampProcess(w)
  <2>1. /\ job'[w].pc = "initProcess"
        /\ \A v \in Workers : /\ job'[v].id = job[v].id /\ job'[v].bp = job[v].bp
                              /\ job'[v].bc = job[v].bc
        /\ \A v \in Workers \ {w} : job'[v].pc = job[v].pc
    BY <1>a, <1>3, StepShape DEF StampProcess
  <2>2. job[w].bp \in Ids
    BY <1>a, <1>3 DEF StampProcess, JobOK, ProcessPCs, ConnectionPCs
  <2>3. /\ process'[job[w].bp].once = "running"
        /\ \A n \in Ids \ {job[w].bp} : process'[n] = process[n]
    BY <1>a, <1>3, <2>2 DEF StampProcess, Processes
  <2>4. IdsInv'
    BY <1>a, <1>3, <2>1 DEF StampProcess, IdsInv, ProcessPCs
  <2>5. OwnerInv'
    <3>1. \A c \in Ids : connection[c].owner # Nil
             => connection[c].owner \in Ids /\ connection[c].owner # job[w].bp
      BY <1>a, <1>3 DEF StampProcess, OwnerInv, ProcessOnceInv, ConnectionObjects
    <3>2. job[w].pc \notin ConnectionPCs /\ UNCHANGED <<Connections, connection>>
      BY <1>3 DEF StampProcess, ConnectionPCs
    <3> QED  BY <1>a, <2>1, <2>3, <3>1, <3>2 DEF OwnerInv, ConnectionPCs
  <2>6. ProcessOnceInv'
    <3>1. \A v \in Workers : job[v].pc \in ProcessInitPCs => job[v].bp \in Ids
      BY <1>a DEF JobOK, ProcessPCs, ProcessInitPCs
    <3>2. job[w].pc = "stampProcess"
      BY <1>3 DEF StampProcess
    <3>3. \A v \in Workers \ {w} : job[v].pc \in ProcessInitPCs => job[v].bp # job[w].bp
      BY <1>a, <3>2 DEF ProcessOnceInv, ProcessInitPCs
    <3> QED  BY <1>a, <2>1, <2>3, <3>1, <3>2, <3>3 DEF ProcessOnceInv, ProcessInitPCs
  <2>7. ConnectionOnceInv'
    BY <1>a, <1>3, <2>1 DEF StampProcess, ConnectionOnceInv, CountingPCs, ConnectionInitPCs, ResolvePCs, Settled
  <2> QED  BY <2>4, <2>5, <2>6, <2>7 DEF ObjectInv
<1>4. CASE InitProcess(w)
  <2>1. /\ job'[w].pc = "process"
        /\ \A v \in Workers : /\ job'[v].id = job[v].id /\ job'[v].bp = job[v].bp
                              /\ job'[v].bc = job[v].bc
        /\ \A v \in Workers \ {w} : job'[v].pc = job[v].pc
    BY <1>a, <1>4, StepShape DEF InitProcess
  <2>2. job[w].bp \in Ids
    BY <1>a, <1>4 DEF InitProcess, JobOK, ProcessPCs, ConnectionPCs
  <2>3. /\ process'[job[w].bp].once = "done"
        /\ \A n \in Ids \ {job[w].bp} : process'[n] = process[n]
    BY <1>a, <1>4, <2>2 DEF InitProcess, Processes
  <2>4. IdsInv'
    BY <1>a, <1>4, <2>1 DEF InitProcess, IdsInv, ProcessPCs
  <2>5. OwnerInv'
    <3>1. \A c \in Ids : connection[c].owner # Nil
             => connection[c].owner \in Ids /\ connection[c].owner # job[w].bp
      BY <1>a, <1>4 DEF InitProcess, OwnerInv, ProcessOnceInv, ConnectionObjects
    <3>2. job[w].pc \notin ConnectionPCs /\ UNCHANGED <<Connections, connection>>
      BY <1>4 DEF InitProcess, ConnectionPCs
    <3> QED  BY <1>a, <2>1, <2>3, <3>1, <3>2 DEF OwnerInv, ConnectionPCs
  <2>6. ProcessOnceInv'
    <3>1. \A v \in Workers : job[v].pc \in ProcessInitPCs => job[v].bp \in Ids
      BY <1>a DEF JobOK, ProcessPCs, ProcessInitPCs
    <3>2. job[w].pc = "initProcess"
      BY <1>4 DEF InitProcess
    <3>3. \A v \in Workers \ {w} : job[v].pc \in ProcessInitPCs => job[v].bp # job[w].bp
      BY <1>a, <3>2 DEF ProcessOnceInv, ProcessInitPCs
    <3> QED  BY <1>a, <2>1, <2>3, <3>1, <3>2, <3>3 DEF ProcessOnceInv, ProcessInitPCs
  <2>7. ConnectionOnceInv'
    BY <1>a, <1>4, <2>1 DEF InitProcess, ConnectionOnceInv, CountingPCs, ConnectionInitPCs, ResolvePCs, Settled
  <2> QED  BY <2>4, <2>5, <2>6, <2>7 DEF ObjectInv
<1>5. CASE DropUnknownProcess(w)
  BY <1>5, ReturnInv DEF DropUnknownProcess
<1>6. CASE LoadOrStoreConnection(w)
  <2> DEFINE bp == job[w].bp
             fd == job[w].ev.fd
             bc == IF Connections[bp][fd] = Nil THEN job[w].id ELSE Connections[bp][fd]
  <2>1. /\ job'[w].pc = "connection" /\ job'[w].id = job[w].id
        /\ job'[w].bp = bp /\ job'[w].bc = bc
        /\ \A v \in Workers \ {w} : job'[v] = job[v]
    BY <1>a, <1>6 DEF LoadOrStoreConnection, Jobs, TypeInv, TypeOK
  <2>2. bp \in Ids /\ fd \in FDs /\ job[w].id \in Ids
    BY <1>a, <1>6 DEF LoadOrStoreConnection, JobOK, RWEvents, ProcessPCs
  <2>3. bc \in Ids
    BY <1>a, <2>2 DEF TypeInv, TypeOK
  <2>4. \A n \in Ids, f \in FDs :
          Connections'[n][f] = IF n = bp /\ f = fd THEN bc ELSE Connections[n][f]
    BY <1>a, <1>6, <2>2 DEF LoadOrStoreConnection, TypeInv, TypeOK
  <2>5. CASE Connections[bp][fd] # Nil
    <3>a. connection' = connection /\ bc = Connections[bp][fd]
      BY <1>6, <2>5 DEF LoadOrStoreConnection
    <3>1. connection' = connection /\ connection[bc].owner = bp
      <4> HIDE DEF bc, bp, fd
      <4> QED  BY <1>a, <2>2, <2>5, <3>a DEF OwnerInv
    <3>2. process' = process /\ received' = received /\ job[w].pc = "process"
      BY <1>6 DEF LoadOrStoreConnection
    <3> HIDE DEF bc, bp, fd
    <3>3. IdsInv'
      BY <1>a, <2>1, <3>1, <3>2 DEF IdsInv, ProcessPCs
    <3>4. OwnerInv'
      BY <1>a, <2>1, <2>4, <3>1, <3>2 DEF OwnerInv, ConnectionPCs
    <3>5. ProcessOnceInv'
      BY <1>a, <2>1, <3>2 DEF ProcessOnceInv, ProcessInitPCs
    <3>6. ConnectionOnceInv'
      BY <1>a, <2>1, <3>1, <3>2 DEF ConnectionOnceInv, CountingPCs, ConnectionInitPCs, ResolvePCs
    <3> QED  BY <3>3, <3>4, <3>5, <3>6 DEF ObjectInv
  <2>6. CASE Connections[bp][fd] = Nil
    <3>1. /\ bc = job[w].id /\ connection[bc].owner = Nil
          /\ connection[bc].once = "new" /\ connection[bc].bytes = 0
      BY <1>a, <1>6, <2>2, <2>6 DEF LoadOrStoreConnection, IdsInv, OwnerInv, ProcessPCs
    <3>2. /\ connection'[bc].owner = bp
          /\ connection'[bc].once = "new" /\ connection'[bc].bytes = 0
          /\ \A c \in Ids \ {bc} : connection'[c] = connection[c]
      <4>1. connection' = [connection EXCEPT ![bc].type = job[w].ev.type, ![bc].owner = bp]
        BY <1>6, <2>6 DEF LoadOrStoreConnection
      <4> HIDE DEF bc, bp
      <4> QED  BY <1>a, <2>3, <3>1, <4>1 DEF ConnectionObjects
    <3>5. /\ process[bp].once = "done" /\ process[bp].real /\ process' = process
          /\ received' = received /\ job[w].pc = "process"
      BY <1>6 DEF LoadOrStoreConnection
    <3>n. /\ \A n \in Ids : n # Nil
          /\ \A v \in Workers : job[v].pc \in ConnectionPCs => job[v].bp \in Ids
      BY <1>a, IdsAreNonNil DEF JobOK, ProcessPCs, ConnectionPCs
    <3> HIDE DEF bc, bp, fd
    <3>3. \A v \in Workers : job[v].pc \in ConnectionPCs => job[v].bc # bc
      BY <1>a, <3>1, <3>n DEF OwnerInv
    <3>4. \A n \in Ids, f \in FDs : Connections[n][f] # Nil => Connections[n][f] # bc
      BY <1>a, <3>1, <3>n DEF OwnerInv
    <3>6. IdsInv'
      <4>1. \A v \in Workers : job[v].pc \in {"rw"} \cup ProcessPCs => job[v].id \in Ids
        BY <1>a DEF JobOK, ProcessPCs
      <4>2. \A v \in Workers \ {w} : job[v].pc # "receive" => job[v].id # bc
        BY <1>a, <3>1, <3>5 DEF IdsInv
      <4>3. bc <= received
        BY <1>a, <3>1, <3>5 DEF IdsInv
      <4>4. \A c \in Ids : c > received' => connection'[c].owner = Nil
        BY <1>a, <3>2, <3>5, <4>3 DEF IdsInv, Ids, TypeInv, TypeOK
      <4>5. \A v \in Workers : job'[v].pc \in {"rw"} \cup ProcessPCs
                               => connection'[job'[v].id].owner = Nil
        BY <1>a, <2>1, <3>2, <4>1, <4>2 DEF IdsInv, ProcessPCs
      <4> QED  BY <1>a, <2>1, <3>5, <4>4, <4>5 DEF IdsInv
    <3>7. OwnerInv'
      <4>1. \A c \in Ids : connection'[c].owner = Nil
                             => connection'[c].once = "new" /\ connection'[c].bytes = 0
        BY <1>a, <2>2, <3>2, IdsAreNonNil DEF OwnerInv
      <4>2. \A c \in Ids : connection'[c].owner # Nil
                             => /\ process'[connection'[c].owner].once = "done"
                                /\ process'[connection'[c].owner].real
        BY <1>a, <3>2, <3>5 DEF OwnerInv
      <4>3. \A n \in Ids, f \in FDs : Connections'[n][f] # Nil
                                       => connection'[Connections'[n][f]].owner = n
        <5>1. \A n \in Ids, f \in FDs : Connections[n][f] \in Ids \cup {Nil}
          BY <1>a DEF TypeInv, TypeOK
        <5> QED  BY <1>a, <2>4, <3>2, <3>4, <5>1 DEF OwnerInv
      <4>4. \A v \in Workers : job'[v].pc \in ConnectionPCs
                               => connection'[job'[v].bc].owner = job'[v].bp
        BY <1>a, <2>1, <3>2, <3>3 DEF OwnerInv, JobOK
      <4> QED  BY <4>1, <4>2, <4>3, <4>4 DEF OwnerInv
    <3>8. ProcessOnceInv'
      BY <1>a, <2>1, <3>5 DEF ProcessOnceInv, ProcessInitPCs
    <3>9. ConnectionOnceInv'
      BY <1>a, <2>1, <3>2, <3>3 DEF ConnectionOnceInv, CountingPCs, ConnectionInitPCs, ResolvePCs,
                                    ConnectionPCs, Settled, JobOK
    <3> QED  BY <3>6, <3>7, <3>8, <3>9 DEF ObjectInv
  <2> QED  BY <2>5, <2>6
<1>7. CASE EnterConnectionInit(w)
  <2>1. /\ job'[w].pc = "stampConnection" /\ job'[w].id = job[w].id
        /\ job'[w].bp = job[w].bp /\ job'[w].bc = job[w].bc
        /\ \A v \in Workers \ {w} : job'[v] = job[v]
    BY <1>a, <1>7 DEF EnterConnectionInit, Step, Jobs, TypeInv, TypeOK
  <2>2. job[w].bc \in Ids
    BY <1>a, <1>7 DEF EnterConnectionInit, JobOK, ConnectionPCs
  <2>3. /\ connection'[job[w].bc].once = "torn"
        /\ connection'[job[w].bc].bytes = connection[job[w].bc].bytes
        /\ connection'[job[w].bc].owner = connection[job[w].bc].owner
        /\ \A c \in Ids \ {job[w].bc} : connection'[c] = connection[c]
    BY <1>a, <1>7, <2>2, IdsAreNonNil DEF EnterConnectionInit, ConnectionObjects
  <2>4. job[w].pc \in ConnectionPCs /\ job'[w].pc \in ConnectionPCs
    BY <1>7, <2>1 DEF EnterConnectionInit, ConnectionPCs
  <2>5. IdsInv' /\ OwnerInv' /\ ProcessOnceInv'
    BY <1>7, <2>1, <2>3, <2>4, OwnConnectionInv DEF EnterConnectionInit
  <2>6. ConnectionOnceInv'
    BY <1>7, <2>1, <2>2, <2>3, <2>4, OnceProgressInv DEF EnterConnectionInit, ResolvePCs
  <2> QED  BY <2>5, <2>6 DEF ObjectInv
<1>8. CASE StampConnection(w)
  <2>1. /\ job'[w].pc = "initConnection" /\ job'[w].id = job[w].id
        /\ job'[w].bp = job[w].bp /\ job'[w].bc = job[w].bc
        /\ \A v \in Workers \ {w} : job'[v] = job[v]
    BY <1>a, <1>8 DEF StampConnection, Step, Jobs, TypeInv, TypeOK
  <2>2. job[w].bc \in Ids
    BY <1>a, <1>8 DEF StampConnection, JobOK, ConnectionPCs
  <2>3. /\ connection'[job[w].bc].once = "running"
        /\ connection'[job[w].bc].bytes = connection[job[w].bc].bytes
        /\ connection'[job[w].bc].owner = connection[job[w].bc].owner
        /\ \A c \in Ids \ {job[w].bc} : connection'[c] = connection[c]
    BY <1>a, <1>8, <2>2, IdsAreNonNil DEF StampConnection, ConnectionObjects
  <2>4. job[w].pc \in ConnectionPCs /\ job'[w].pc \in ConnectionPCs
    BY <1>8, <2>1 DEF StampConnection, ConnectionPCs
  <2>5. IdsInv' /\ OwnerInv' /\ ProcessOnceInv'
    BY <1>8, <2>1, <2>3, <2>4, OwnConnectionInv DEF StampConnection
  <2>6. ConnectionOnceInv'
    BY <1>8, <2>1, <2>2, <2>3, <2>4, OnceProgressInv DEF StampConnection, ResolvePCs
  <2> QED  BY <2>5, <2>6 DEF ObjectInv
<1>9. CASE Resolve(w)
  BY <1>9, ResolveShape, ResolveInv DEF ObjectInv
<1>12. CASE AssignConnectionInfo(w)
  <2> DEFINE c == connection[job[w].bc]
             t == IF job[w].info = NoInfo THEN c.type ELSE "socket"
             o == [c EXCEPT !.once = "done", !.info = job[w].info, !.type = t]
  <2>1. /\ job'[w].pc = "connection" /\ job'[w].id = job[w].id
        /\ job'[w].bp = job[w].bp /\ job'[w].bc = job[w].bc
        /\ \A v \in Workers \ {w} : job'[v] = job[v]
    BY <1>a, <1>12 DEF AssignConnectionInfo, Jobs, TypeInv, TypeOK
  <2>2. job[w].bc \in Ids
    BY <1>a, <1>12 DEF AssignConnectionInfo, JobOK, ConnectionPCs
  <2>3. connection' = [connection EXCEPT ![job[w].bc] = o]
    BY <1>12 DEF AssignConnectionInfo
  <2>7. o.once = "done" /\ o.bytes = c.bytes /\ o.owner = c.owner
    BY <1>a, <2>2 DEF ConnectionObjects
  <2> HIDE DEF o, t
  <2>8. /\ connection'[job[w].bc].once = "done"
        /\ connection'[job[w].bc].bytes = connection[job[w].bc].bytes
        /\ connection'[job[w].bc].owner = connection[job[w].bc].owner
        /\ \A d \in Ids \ {job[w].bc} : connection'[d] = connection[d]
    BY <1>a, <2>2, <2>3, <2>7
  <2>4. job[w].pc \in ConnectionPCs /\ job'[w].pc \in ConnectionPCs
    BY <1>12, <2>1 DEF AssignConnectionInfo, ConnectionPCs
  <2>5. IdsInv' /\ OwnerInv' /\ ProcessOnceInv'
    BY <1>12, <2>1, <2>8, <2>4, OwnConnectionInv DEF AssignConnectionInfo
  <2>6. ConnectionOnceInv'
    BY <1>12, <2>1, <2>2, <2>8, <2>4, OnceProgressInv DEF AssignConnectionInfo, ResolvePCs
  <2> QED  BY <2>5, <2>6 DEF ObjectInv
<1>23. CASE PassConnection(w)
  <2>1. /\ job'[w].pc = "addConnection" /\ job'[w].id = job[w].id
        /\ job'[w].bp = job[w].bp /\ job'[w].bc = job[w].bc
        /\ \A v \in Workers \ {w} : job'[v] = job[v]
    BY <1>a, <1>23 DEF PassConnection, Step, Jobs, TypeInv, TypeOK
  <2>2. Settled(connection[job[w].bc]) /\ job[w].pc = "connection"
    BY <1>23 DEF PassConnection, ShouldSkip, Settled
  <2>3. UNCHANGED <<Connections, process, connection, received>>
    BY <1>23 DEF PassConnection
  <2>4. IdsInv' /\ OwnerInv' /\ ProcessOnceInv'
    <3>1. job[w].pc \in ConnectionPCs /\ job'[w].pc \in ConnectionPCs
      BY <2>1, <2>2 DEF ConnectionPCs
    <3> QED  BY <2>1, <2>3, <3>1, OwnConnectionInv
  <2>5. ConnectionOnceInv'
    BY <1>a, <2>1, <2>2, <2>3 DEF ConnectionOnceInv, ConnectionInitPCs, ResolvePCs, CountingPCs
  <2> QED  BY <2>4, <2>5 DEF ObjectInv
<1>13. CASE SkipConnection(w)
  BY <1>13, ReturnInv DEF SkipConnection
<1>14. CASE AddToConnection(w)
  <2>1. /\ job'[w].pc = "addProcess" /\ job'[w].id = job[w].id
        /\ job'[w].bp = job[w].bp /\ job'[w].bc = job[w].bc
        /\ \A v \in Workers \ {w} : job'[v] = job[v]
    BY <1>a, <1>14 DEF AddToConnection, Step, Jobs, TypeInv, TypeOK
  <2>2. job[w].bc \in Ids
    BY <1>a, <1>14 DEF AddToConnection, JobOK, ConnectionPCs
  <2>3. /\ connection'[job[w].bc].once = connection[job[w].bc].once
        /\ connection'[job[w].bc].type = connection[job[w].bc].type
        /\ connection'[job[w].bc].info = connection[job[w].bc].info
        /\ connection'[job[w].bc].owner = connection[job[w].bc].owner
        /\ \A c \in Ids \ {job[w].bc} : connection'[c] = connection[c]
    BY <1>a, <1>14, <2>2, IdsAreNonNil DEF AddToConnection, ConnectionObjects, Add
  <2>4. job[w].pc \in ConnectionPCs /\ job'[w].pc \in ConnectionPCs
    BY <1>14, <2>1 DEF AddToConnection, ConnectionPCs
  <2>5. IdsInv' /\ OwnerInv' /\ ProcessOnceInv'
    BY <1>14, <2>1, <2>3, <2>4, OwnConnectionInv DEF AddToConnection
  <2>6. ConnectionOnceInv'
    <3>1. \A v \in Workers : job[v].pc \in ConnectionPCs => job[v].bc \in Ids
      BY <1>a DEF JobOK
    <3>2. Settled(connection[job[w].bc])
      BY <1>a, <1>14 DEF AddToConnection, ConnectionOnceInv, CountingPCs
    <3>3. \A c \in Ids : /\ Settled(connection'[c]) <=> Settled(connection[c])
                         /\ connection'[c].once = connection[c].once
      BY <2>3 DEF Settled
    <3>4. /\ job[w].bc = job'[w].bc /\ job'[w].pc \notin ConnectionInitPCs
          /\ \A v \in Workers \ {w} : job'[v].pc = job[v].pc /\ job'[v].bc = job[v].bc
          /\ \A v \in Workers \ {w} : job[v].pc \in ConnectionInitPCs => job[v].bc \in Ids
      BY <2>1, <3>1 DEF ConnectionInitPCs, ResolvePCs, ConnectionPCs
    <3>5. /\ \A v \in Workers : job'[v].pc = "stampConnection"
                                 => connection'[job'[v].bc].once = "torn"
          /\ \A v \in Workers : job'[v].pc \in ResolvePCs
                                 => connection'[job'[v].bc].once = "running"
      <4>1. \A v \in Workers : job'[v].pc \in ConnectionInitPCs =>
              /\ job[v].pc = job'[v].pc /\ job'[v].bc = job[v].bc
              /\ connection'[job[v].bc].once = connection[job[v].bc].once
        BY <3>3, <3>4
      <4> QED  BY <1>a, <4>1 DEF ConnectionOnceInv, CountingPCs, ConnectionInitPCs
    <3>6. \A v, u \in Workers :
             job'[v].pc \in ConnectionInitPCs /\ job'[u].pc \in ConnectionInitPCs /\ v # u
               => job'[v].bc # job'[u].bc
      BY <1>a, <2>1 DEF ConnectionOnceInv, CountingPCs, ConnectionInitPCs, ResolvePCs
    <3>7. \A v \in Workers : job'[v].pc \in CountingPCs
             => Settled(connection'[job'[v].bc])
      BY <1>a, <2>1, <2>3, <3>1, <3>2 DEF ConnectionOnceInv, CountingPCs, ConnectionPCs, Settled
    <3>8. \A c \in Ids : connection'[c].bytes > 0
                          => Settled(connection'[c])
      BY <1>a, <2>2, <2>3, <3>2, <3>3 DEF ConnectionOnceInv, CountingPCs
    <3> QED  BY <3>5, <3>6, <3>7, <3>8 DEF ConnectionOnceInv, CountingPCs, Settled
  <2> QED  BY <2>5, <2>6 DEF ObjectInv
<1>15. CASE AddToProcess(w)
  <2>1. /\ job'[w].pc = "addInterface"
        /\ \A v \in Workers : /\ job'[v].id = job[v].id /\ job'[v].bp = job[v].bp
                              /\ job'[v].bc = job[v].bc
        /\ \A v \in Workers \ {w} : job'[v].pc = job[v].pc
    BY <1>a, <1>15, StepShape DEF AddToProcess
  <2>2. job[w].bp \in Ids
    BY <1>a, <1>15 DEF AddToProcess, JobOK, ProcessPCs, ConnectionPCs
  <2>3. /\ process'[job[w].bp].once = process[job[w].bp].once
        /\ process'[job[w].bp].real = process[job[w].bp].real
        /\ \A n \in Ids \ {job[w].bp} : process'[n] = process[n]
    BY <1>a, <1>15, <2>2 DEF AddToProcess, Processes, Add
  <2>4. IdsInv'
    BY <1>a, <1>15, <2>1 DEF AddToProcess, IdsInv, ProcessPCs
  <2>5. OwnerInv'
    <3>1. UNCHANGED <<Connections, connection>> /\ job[w].pc = "addProcess"
          /\ job'[w].pc = "addInterface"
      BY <1>15, <2>1 DEF AddToProcess
    <3>2. \A n \in Ids : process'[n].once = process[n].once /\ process'[n].real = process[n].real
      BY <2>3
    <3>3. \A c \in Ids : connection[c].owner # Nil => connection[c].owner \in Ids
      BY <1>a DEF ConnectionObjects
    <3> QED  BY <1>a, <2>1, <3>1, <3>2, <3>3 DEF OwnerInv, ConnectionPCs
  <2>6. ProcessOnceInv'
    BY <1>a, <1>15, <2>1, <2>2, <2>3 DEF AddToProcess, ProcessOnceInv, ProcessInitPCs, JobOK, ProcessPCs
  <2>7. ConnectionOnceInv'
    BY <1>a, <1>15, <2>1 DEF AddToProcess, ConnectionOnceInv, CountingPCs, ConnectionInitPCs, ResolvePCs, Settled
  <2> QED  BY <2>4, <2>5, <2>6, <2>7 DEF ObjectInv
<1>16. CASE AddToInterface(w)
  BY <1>16, ReturnInv DEF AddToInterface
<1>17. CASE LoadClosingProcess(w)
  <2>1. CASE Return(w)
    BY <1>17, <2>1, ReturnInv DEF LoadClosingProcess
  <2>2. CASE job' = [job EXCEPT ![w].pc = "closeConnection",
                               ![w].bp = ProcessesMap[job[w].ev.pid]]
    <3>1. /\ job'[w].pc = "closeConnection" /\ job'[w].id = job[w].id
          /\ \A v \in Workers \ {w} : job'[v] = job[v]
      BY <1>a, <2>2 DEF Jobs, TypeInv, TypeOK
    <3> QED  BY <1>17, <3>1, CloseInv DEF LoadClosingProcess
  <2> QED  BY <1>17, <2>1, <2>2 DEF LoadClosingProcess
<1>18. CASE CloseConnection(w)
  <2>1. job[w].bp \in Ids
    BY <1>a, <1>18 DEF CloseConnection, JobOK
  <2>2. \A n \in Ids, f \in FDs : Connections'[n][f] \in {Connections[n][f], Nil}
    BY <1>a, <1>18, <2>1 DEF CloseConnection, TypeInv, TypeOK
  <2>3. CASE Return(w)
    BY <1>18, <2>2, <2>3, ReturnInv DEF CloseConnection
  <2>4. CASE job' = [job EXCEPT ![w].pc = "closeInfo",
                               ![w].bc = Connections[job[w].bp][job[w].ev.fd]]
    <3>1. /\ job'[w].pc = "closeInfo" /\ job'[w].id = job[w].id
          /\ \A v \in Workers \ {w} : job'[v] = job[v]
      BY <1>a, <2>4 DEF Jobs, TypeInv, TypeOK
    <3> QED  BY <1>18, <2>2, <3>1, CloseInv DEF CloseConnection
  <2> QED  BY <1>18, <2>3, <2>4 DEF CloseConnection
<1>19. CASE ForgetClosedInode(w)
  BY <1>19, ReturnInv DEF ForgetClosedInode
<1>20. CASE ExitProcess(w)
  BY <1>20, ReturnInv DEF ExitProcess
<1> QED
  BY <1>1, <1>2, <1>3, <1>4, <1>5, <1>6, <1>7, <1>8, <1>9, <1>12, <1>13,
     <1>14, <1>15, <1>16, <1>17, <1>18, <1>19, <1>20, <1>23 DEF Handle, Resolve

-----------------------------------------------------------------------------
(* The other steps of the system.                                          *)

LEMMA InitObjectInv == Init => ObjectInv
<1> SUFFICES ASSUME Init PROVE ObjectInv
  OBVIOUS
<1>1. TypeInv
  BY InitTypeInv
<1>2. /\ \A w \in Workers : job[w].pc = "receive"
      /\ \A c \in Ids : connection[c].owner = Nil /\ connection[c].once = "new"
                          /\ connection[c].bytes = 0
      /\ \A n \in Ids, f \in FDs : Connections[n][f] = Nil
  BY DEF Init, Waiting, NewConnection
<1> QED
  BY <1>1, <1>2 DEF ObjectInv, IdsInv, OwnerInv, ProcessOnceInv, ConnectionOnceInv, CountingPCs, ProcessPCs,
                    ConnectionPCs, ProcessInitPCs, ConnectionInitPCs, ResolvePCs

LEMMA ReceiveObjectInv == ASSUME ObjectInv, NEW w \in Workers, Receive(w), TypeInv' PROVE ObjectInv'
<1> USE DEF tables, objects
<1>1. TypeInv /\ IdsInv /\ OwnerInv /\ ProcessOnceInv /\ ConnectionOnceInv
  BY DEF ObjectInv
<1>2. /\ job'[w].pc \in {"rw", "close", "exit"} /\ job'[w].id = received + 1
      /\ \A v \in Workers \ {w} : job'[v] = job[v]
  BY <1>1 DEF Receive, Events, RWEvents, CloseEvents, ExitEvents, TypeInv, TypeOK
<1>3. /\ received' = received + 1 /\ received < MaxEvents /\ received \in Nat
      /\ UNCHANGED <<Connections, process, connection>>
  BY <1>1 DEF Receive, TypeInv, TypeOK
<1>4. IdsInv'
  <2>1. \A v \in Workers \ {w} : job[v].pc # "receive" => job[v].id <= received /\ job[v].id \in Nat
    BY <1>1 DEF IdsInv, TypeInv, FieldsOK, JobOK, Ids
  <2>2. \A v \in Workers : job'[v].pc # "receive" => job'[v].id <= received'
    BY <1>2, <1>3, <2>1
  <2>3. \A v, u \in Workers :
          job'[v].pc # "receive" /\ job'[u].pc # "receive" /\ v # u => job'[v].id # job'[u].id
    BY <1>1, <1>2, <1>3, <2>1 DEF IdsInv
  <2>4. \A c \in Ids : c > received => connection[c].owner = Nil
    BY <1>1 DEF IdsInv
  <2>5. received + 1 \in Ids
    BY <1>3, BoundsAssumption DEF Ids
  <2>6. \A v \in Workers : job'[v].pc \in {"rw"} \cup ProcessPCs
                              => connection'[job'[v].id].owner = Nil
    BY <1>1, <1>2, <1>3, <2>4, <2>5 DEF IdsInv
  <2> QED  BY <1>3, <2>2, <2>3, <2>4, <2>6 DEF IdsInv, Ids
<1>5. OwnerInv'
  BY <1>1, <1>2, <1>3 DEF OwnerInv, ConnectionPCs
<1>6. ProcessOnceInv'
  BY <1>1, <1>2, <1>3 DEF ProcessOnceInv, ProcessInitPCs
<1>7. ConnectionOnceInv'
  BY <1>1, <1>2, <1>3 DEF ConnectionOnceInv, CountingPCs, ConnectionInitPCs, ResolvePCs, Settled
<1> QED  BY <1>4, <1>5, <1>6, <1>7 DEF ObjectInv

(* A step that only removes table entries and writes ages and snapshots.   *)
LEMMA FrameObjectInv ==
    ASSUME ObjectInv, TypeInv', UNCHANGED <<job, received>>,
           \A n \in Ids, f \in FDs : Connections'[n][f] \in {Connections[n][f], Nil},
           \A n \in Ids : process'[n].once = process[n].once /\ process'[n].real = process[n].real,
           \A c \in Ids : /\ connection'[c].once = connection[c].once
                          /\ connection'[c].bytes = connection[c].bytes
                          /\ connection'[c].type = connection[c].type
                          /\ connection'[c].info = connection[c].info
                          /\ connection'[c].owner = connection[c].owner
    PROVE  ObjectInv'
<1>a. /\ IdsInv /\ OwnerInv /\ ProcessOnceInv /\ ConnectionOnceInv
      /\ \A v \in Workers : JobOK(job[v])
      /\ \A n \in Ids, f \in FDs : Connections[n][f] \in Ids \cup {Nil}
      /\ \A c \in Ids : connection[c].owner \in Ids \cup {Nil}
  BY DEF ObjectInv, TypeInv, TypeOK, FieldsOK, ConnectionObjects
<1>1. /\ \A v \in Workers : job[v].pc \in {"rw"} \cup ProcessPCs => job[v].id \in Ids
      /\ \A v \in Workers : job[v].pc \in ProcessPCs => job[v].bp \in Ids
      /\ \A v \in Workers : job[v].pc \in ConnectionPCs => job[v].bc \in Ids
  BY <1>a DEF JobOK, ProcessPCs
<1>2. \A c \in Ids : Settled(connection'[c]) <=> Settled(connection[c])
  BY DEF Settled
<1>3. IdsInv'
  BY <1>a, <1>1 DEF IdsInv
<1>4. OwnerInv'
  BY <1>a, <1>1 DEF OwnerInv
<1>5. ProcessOnceInv'
  BY <1>a, <1>1 DEF ProcessOnceInv, ProcessInitPCs, ProcessPCs
<1>6. ConnectionOnceInv'
  <2>1. /\ \A v \in Workers : job'[v].pc = "stampConnection" => connection'[job'[v].bc].once = "torn"
        /\ \A v \in Workers : job'[v].pc \in ResolvePCs => connection'[job'[v].bc].once = "running"
    BY <1>a, <1>1 DEF ConnectionOnceInv, CountingPCs, ResolvePCs, ConnectionPCs
  <2>2. \A v \in Workers : job'[v].pc \in CountingPCs
           => Settled(connection'[job'[v].bc])
    BY <1>a, <1>1, <1>2 DEF ConnectionOnceInv, CountingPCs, ConnectionPCs
  <2>3. \A v, u \in Workers :
          job'[v].pc \in ConnectionInitPCs /\ job'[u].pc \in ConnectionInitPCs /\ v # u
            => job'[v].bc # job'[u].bc
    BY <1>a DEF ConnectionOnceInv, CountingPCs
  <2>4. \A c \in Ids : connection'[c].bytes > 0
                          => Settled(connection'[c])
    BY <1>a, <1>2 DEF ConnectionOnceInv, CountingPCs
  <2> QED  BY <2>1, <2>2, <2>3, <2>4 DEF ConnectionOnceInv, CountingPCs, Settled
<1> QED  BY <1>3, <1>4, <1>5, <1>6 DEF ObjectInv

LEMMA SnapshotObjectInv == ASSUME ObjectInv, SnapshotStep, TypeInv' PROVE ObjectInv'
<1> USE DEF tables, objects
<1>a. /\ process \in [Ids -> Processes] /\ connection \in [Ids -> ConnectionObjects]
      /\ Connections \in [Ids -> [FDs -> Ids \cup {Nil}]] /\ SnapOK
  BY DEF ObjectInv, TypeInv, TypeOK, FieldsOK
<1>b. \A o \in ConnectionObjects :
         LET t == takeSnapshot(o)
         IN  t.once = o.once /\ t.bytes = o.bytes /\ t.type = o.type /\ t.info = o.info /\ t.owner = o.owner
  BY DEF takeSnapshot, ConnectionObjects
<1>1. CASE StartPass
  BY <1>1, FrameObjectInv DEF StartPass
<1>2. ASSUME NEW p \in Pids, VisitProcess(p) PROVE ObjectInv'
  BY <1>2, FrameObjectInv DEF VisitProcess
<1>3. CASE EvictProcess
  BY <1>3, FrameObjectInv DEF EvictProcess
<1>4. ASSUME NEW f \in FDs, VisitConnection(f) PROVE ObjectInv'
  <2>1. /\ UNCHANGED <<job, received, process, Connections>>
        /\ \/ UNCHANGED connection
           \/ /\ Connections[snap.bp][f] # Nil
              /\ connection' = [connection EXCEPT ![Connections[snap.bp][f]] = takeSnapshot(@)]
    BY <1>4 DEF VisitConnection
  <2>3. \A c \in Ids : connection'[c] \in {connection[c], takeSnapshot(connection[c])}
    BY <1>a, <2>1
  <2>2. \A c \in Ids : /\ connection'[c].once = connection[c].once
                       /\ connection'[c].bytes = connection[c].bytes
                       /\ connection'[c].type = connection[c].type
                       /\ connection'[c].info = connection[c].info
                       /\ connection'[c].owner = connection[c].owner
    BY <1>a, <1>b, <2>3
  <2> QED  BY <2>1, <2>2, FrameObjectInv
<1>5. CASE EvictConnection
  <2>1. \A n \in Ids, f \in FDs : Connections'[n][f] \in {Connections[n][f], Nil}
    BY <1>a, <1>5 DEF EvictConnection
  <2> QED  BY <1>5, <2>1, FrameObjectInv DEF EvictConnection
<1>6. CASE ForgetIdleInode
  BY <1>6, FrameObjectInv DEF ForgetIdleInode
<1>7. CASE FinishProcess
  <2>1. /\ UNCHANGED <<job, received, connection, Connections>>
        /\ \/ UNCHANGED process
           \/ process' = [process EXCEPT ![snap.bp] = takeSnapshot(@)]
    BY <1>7 DEF FinishProcess
  <2>3. \A n \in Ids : process'[n] \in {process[n], takeSnapshot(process[n])}
    BY <1>a, <2>1
  <2>2. \A n \in Ids : process'[n].once = process[n].once /\ process'[n].real = process[n].real
    BY <1>a, <2>3 DEF takeSnapshot, Processes
  <2> QED  BY <2>1, <2>2, FrameObjectInv
<1>8. CASE SnapshotInterfaces
  BY <1>8, FrameObjectInv DEF SnapshotInterfaces
<1>9. CASE FinishPass
  BY <1>9, FrameObjectInv DEF FinishPass
<1> QED
  BY <1>1, <1>2, <1>3, <1>4, <1>5, <1>6, <1>7, <1>8, <1>9 DEF SnapshotStep

LEMMA TickObjectInv == ASSUME ObjectInv, Tick, TypeInv' PROVE ObjectInv'
<1> USE DEF tables, objects
<1>1. process \in [Ids -> Processes] /\ connection \in [Ids -> ConnectionObjects]
  BY DEF ObjectInv, TypeInv, TypeOK
<1>2. /\ UNCHANGED <<job, received, Connections>>
      /\ \A n \in Ids : process'[n] = Older(process[n]) /\ connection'[n] = Older(connection[n])
  BY DEF Tick
<1>3. \A n \in Ids : process'[n].once = process[n].once /\ process'[n].real = process[n].real
  BY <1>1, <1>2 DEF Older, Processes
<1>4. \A c \in Ids : /\ connection'[c].once = connection[c].once
                     /\ connection'[c].bytes = connection[c].bytes
                     /\ connection'[c].type = connection[c].type
                     /\ connection'[c].info = connection[c].info
                     /\ connection'[c].owner = connection[c].owner
  BY <1>1, <1>2 DEF Older, ConnectionObjects
<1> QED  BY <1>2, <1>3, <1>4, FrameObjectInv

LEMMA NextObjectInv == ObjectInv /\ [Next]_vars => ObjectInv'
<1> SUFFICES ASSUME ObjectInv, [Next]_vars PROVE ObjectInv'
  OBVIOUS
<1>1. TypeInv'
  BY NextTypeInv DEF ObjectInv
<1>2. CASE UNCHANGED vars
  BY <1>1, <1>2, FrameObjectInv DEF vars
<1>3. CASE Next
  BY <1>1, <1>3, ReceiveObjectInv, HandleObjectInv, SnapshotObjectInv, TickObjectInv DEF Next
<1> QED  BY <1>2, <1>3

LEMMA ObjectInvariant == Spec => []ObjectInv
<1>1. Init => ObjectInv
  BY InitObjectInv
<1>2. ObjectInv /\ [Next]_vars => ObjectInv'
  BY NextObjectInv
<1> QED  BY <1>1, <1>2, PTL DEF Spec

-----------------------------------------------------------------------------
(* Traffic is accounted only to initialised processes that were found and  *)
(* to initialised, resolved sockets, so that no handler dereferences a nil *)
(* ConnectionInfo (RWEvent.Process), for any number of workers and events, *)
(* even though scans rewrite the ConnectionInfos meanwhile.                *)
THEOREM AccountingCorrect == Spec => []OnlyResolvedTrafficCounted
<1>1. ObjectInv => OnlyResolvedTrafficCounted
  <2> SUFFICES ASSUME ObjectInv PROVE OnlyResolvedTrafficCounted
    OBVIOUS
  <2>1. \A c \in Ids : Settled(connection[c]) => Resolved(connection[c])
    <3>1. \A c \in Ids : Settled(connection[c]) => connection[c].owner # Nil
      BY DEF ObjectInv, OwnerInv, Settled
    <3>2. \A c \in Ids : connection[c].owner # Nil =>
            /\ process[connection[c].owner].once = "done"
            /\ process[connection[c].owner].real
      BY DEF ObjectInv, OwnerInv
    <3> QED  BY <3>1, <3>2 DEF Resolved, Settled
  <2>2. \A c \in Ids : connection[c].bytes > 0 => Settled(connection[c])
    BY DEF ObjectInv, ConnectionOnceInv, CountingPCs
  <2>3. \A w \in Workers : job[w].pc \in CountingPCs =>
           job[w].bc \in Ids /\ Settled(connection[job[w].bc])
    BY DEF ObjectInv, ConnectionOnceInv, TypeInv, FieldsOK, JobOK, CountingPCs, ConnectionPCs
  <2> QED  BY <2>1, <2>2, <2>3 DEF OnlyResolvedTrafficCounted, CountingPCs
<1> QED  BY <1>1, ObjectInvariant, PTL

(* No entry of a table is replaced while it is there: concurrent first     *)
(* events of a pid or descriptor agree on its object (LoadOrStore), and    *)
(* evictions, closes and exits only remove.                                *)
LEMMA HandleKeepsEntries == ASSUME TypeOK, NEW w \in Workers, Handle(w) PROVE EntriesKept
<1> USE DEF tables, objects
<1>a. /\ ProcessesMap \in [Pids -> Ids \cup {Nil}]
      /\ Connections \in [Ids -> [FDs -> Ids \cup {Nil}]]
  BY DEF TypeOK
<1>1. CASE LoadOrStoreProcess(w)
  BY <1>a, <1>1 DEF LoadOrStoreProcess, EntriesKept
<1>2. CASE LoadOrStoreConnection(w)
  BY <1>a, <1>2 DEF LoadOrStoreConnection, EntriesKept
<1>3. CASE CloseConnection(w)
  BY <1>a, <1>3 DEF CloseConnection, EntriesKept
<1>4. CASE ExitProcess(w)
  BY <1>a, <1>4 DEF ExitProcess, EntriesKept
<1>5. CASE UNCHANGED <<ProcessesMap, Connections>>
  BY <1>5 DEF EntriesKept
<1>6. \/ LoadOrStoreProcess(w) \/ LoadOrStoreConnection(w) \/ CloseConnection(w)
      \/ ExitProcess(w) \/ UNCHANGED <<ProcessesMap, Connections>>
  BY DEF Handle, EnterProcessInit, StampProcess, InitProcess, DropUnknownProcess,
         EnterConnectionInit, StampConnection, InitConnection, LockRefresh, StoreLine, LoadLine,
         RewriteInfo, EndScan, AssignConnectionInfo, SkipConnection, PassConnection,
         AddToConnection, AddToProcess, AddToInterface, LoadClosingProcess, ForgetClosedInode
<1> QED  BY <1>1, <1>2, <1>3, <1>4, <1>5, <1>6

LEMMA SnapshotKeepsEntries == ASSUME TypeOK, SnapshotStep PROVE EntriesKept
<1> USE DEF tables, objects
<1>a. /\ ProcessesMap \in [Pids -> Ids \cup {Nil}]
      /\ Connections \in [Ids -> [FDs -> Ids \cup {Nil}]]
  BY DEF TypeOK
<1>1. CASE EvictProcess
  BY <1>a, <1>1 DEF EvictProcess, EntriesKept
<1>2. CASE EvictConnection
  BY <1>a, <1>2 DEF EvictConnection, EntriesKept
<1>3. CASE UNCHANGED <<ProcessesMap, Connections>>
  BY <1>3 DEF EntriesKept
<1>4. EvictProcess \/ EvictConnection \/ UNCHANGED <<ProcessesMap, Connections>>
  BY DEF SnapshotStep, StartPass, VisitProcess, VisitConnection, ForgetIdleInode,
         FinishProcess, SnapshotInterfaces, FinishPass
<1> QED  BY <1>1, <1>2, <1>3, <1>4

THEOREM EntriesAreNeverReplaced == Spec => EntriesNeverReplaced
<1>1. TypeOK /\ [Next]_vars => [EntriesKept]_vars
  <2> SUFFICES ASSUME TypeOK, Next PROVE EntriesKept
    OBVIOUS
  <2>1. ASSUME NEW w \in Workers, Receive(w) PROVE EntriesKept
    BY <2>1 DEF Receive, EntriesKept, tables
  <2>2. CASE Tick
    BY <2>2 DEF Tick, EntriesKept, tables
  <2> QED  BY <2>1, <2>2, HandleKeepsEntries, SnapshotKeepsEntries DEF Next
<1>2. Spec => []TypeOK
  BY TypeCorrect
<1> QED  BY <1>1, <1>2, PTL DEF Spec, EntriesNeverReplaced

-----------------------------------------------------------------------------
(* The lock of refreshNetConnections.                                      *)

LockPCs == {"scan", "rewrite"}

LockInv == \A w \in Workers : job[w].pc \in LockPCs =>
              /\ cLock = w
              /\ job[w].info = NoInfo => ConnectionsMap[job[w].inode] = NoInfo

LEMMA OtherHandlesDoNotScan ==
    ASSUME TypeInv, NEW w \in Workers, Handle(w), ~LockRefresh(w), ~StoreLine(w), ~LoadLine(w),
           ~RewriteInfo(w), ~EndScan(w)
    PROVE  /\ job[w].pc \notin LockPCs /\ job'[w].pc \notin LockPCs
           /\ \A v \in Workers \ {w} : job'[v] = job[v]
           /\ cLock' = cLock
           /\ \A i \in Inodes : ConnectionsMap'[i] \in {ConnectionsMap[i], NoInfo}
<1> USE DEF tables, objects, LockPCs
<1>a. job \in [Workers -> Jobs]
  BY DEF TypeInv, TypeOK
<1>b. ASSUME NEW x, Step(w, x), x \notin LockPCs
      PROVE  job'[w].pc \notin LockPCs /\ \A v \in Workers \ {w} : job'[v] = job[v]
  BY <1>a, <1>b DEF Step, Jobs
<1>c. ASSUME Return(w)
      PROVE  job'[w].pc \notin LockPCs /\ \A v \in Workers \ {w} : job'[v] = job[v]
  BY <1>a, <1>c DEF Return, Waiting
<1>1. CASE LoadOrStoreProcess(w)
  BY <1>a, <1>1 DEF LoadOrStoreProcess, Jobs
<1>2. CASE EnterProcessInit(w) \/ StampProcess(w) \/ InitProcess(w) \/ DropUnknownProcess(w)
  BY <1>2, <1>b, <1>c DEF EnterProcessInit, StampProcess, InitProcess, DropUnknownProcess
<1>3. CASE LoadOrStoreConnection(w)
  BY <1>a, <1>3 DEF LoadOrStoreConnection, Jobs
<1>4. CASE EnterConnectionInit(w) \/ StampConnection(w)
  BY <1>4, <1>b DEF EnterConnectionInit, StampConnection
<1>5. CASE InitConnection(w)
  <2>1. job[w].pc = "initConnection" /\ UNCHANGED <<cLock, ConnectionsMap>>
    BY <1>5 DEF InitConnection
  <2>2. CASE Step(w, "assign")
    BY <1>b, <2>1, <2>2
  <2>3. ASSUME NEW i \in Inodes,
               job' = [job EXCEPT ![w].pc = IF ConnectionsMap[i] = NoInfo THEN "refresh" ELSE "assign",
                                  ![w].inode = i, ![w].info = ConnectionsMap[i]]
        PROVE  job'[w].pc \in {"assign", "refresh"} /\ \A v \in Workers \ {w} : job'[v] = job[v]
    BY <1>a, <2>3 DEF Jobs
  <2> QED  BY <1>5, <2>1, <2>2, <2>3 DEF InitConnection
<1>9. CASE AssignConnectionInfo(w)
  BY <1>a, <1>9 DEF AssignConnectionInfo, Jobs
<1>6. CASE SkipConnection(w) \/ PassConnection(w) \/ AddToConnection(w)
           \/ AddToProcess(w) \/ AddToInterface(w)
  BY <1>6, <1>b, <1>c DEF SkipConnection, PassConnection, AddToConnection,
                          AddToProcess, AddToInterface
<1>7. CASE LoadClosingProcess(w) \/ CloseConnection(w)
  BY <1>a, <1>c, <1>7 DEF LoadClosingProcess, CloseConnection, Jobs
<1>8. CASE ForgetClosedInode(w) \/ ExitProcess(w)
  BY <1>8, <1>c DEF ForgetClosedInode, ExitProcess, Forget
<1> QED  BY <1>1, <1>2, <1>3, <1>4, <1>5, <1>6, <1>7, <1>8, <1>9 DEF Handle

(* A line that names the inode looked for ends the search for it; another  *)
(* leaves its entry alone.                                                 *)
LEMMA LineEffect ==
    ASSUME TypeInv, NEW w \in Workers, StoreLine(w) \/ LoadLine(w)
    PROVE  \E i \in Inodes, o \in Infos :
              /\ job'[w].inode = job[w].inode
              /\ job'[w].info = IF i = job[w].inode THEN o ELSE job[w].info
              /\ \A k \in Inodes \ {i} : ConnectionsMap'[k] = ConnectionsMap[k]
<1>1. /\ job \in [Workers -> Jobs] /\ JobOK(job[w])
      /\ ConnectionsMap \in [Inodes -> Infos \cup {NoInfo}]
  BY DEF TypeInv, TypeOK, FieldsOK
<1>2. \A i, o : /\ Line(w, i, o).inode = job[w].inode
                /\ Line(w, i, o).info = IF i = job[w].inode THEN o ELSE job[w].info
  BY <1>1 DEF Line, Jobs
<1>3. CASE StoreLine(w)
  <2>1. PICK i \in Inodes :
           /\ job' = [job EXCEPT ![w] = Line(w, i, <<job[w].id, i>>)]
           /\ ConnectionsMap' = [ConnectionsMap EXCEPT ![i] = <<job[w].id, i>>]
           /\ job[w].pc = "scan"
    BY <1>1, <1>3 DEF StoreLine, Jobs
  <2>2. <<job[w].id, i>> \in Infos
    BY <1>1, <2>1 DEF JobOK, ConnectionPCs, Infos
  <2> QED  BY <1>1, <1>2, <2>1, <2>2
<1>4. CASE LoadLine(w)
  <2>1. PICK i \in Inodes :
           /\ \/ job' = [job EXCEPT ![w] = Line(w, i, ConnectionsMap[i])]
              \/ job' = [job EXCEPT ![w] = [Line(w, i, ConnectionsMap[i]) EXCEPT !.pc = "rewrite",
                                                                  !.line = ConnectionsMap[i]]]
           /\ ConnectionsMap[i] # NoInfo
    BY <1>1, <1>4 DEF LoadLine, Jobs
  <2> DEFINE l == Line(w, i, ConnectionsMap[i])
             m == [l EXCEPT !.pc = "rewrite", !.line = ConnectionsMap[i]]
  <2>2. /\ l.inode = job[w].inode /\ l.info = IF i = job[w].inode THEN ConnectionsMap[i] ELSE job[w].info
        /\ m.inode = l.inode /\ m.info = l.info
    <3>1. m.inode = l.inode /\ m.info = l.info
      BY <1>1 DEF Line, Jobs
    <3> QED  BY <1>2, <3>1
  <2> HIDE DEF l, m
  <2>3. job'[w] \in {l, m}
    BY <1>1, <2>1 DEF l, m
  <2>4. ConnectionsMap' = ConnectionsMap
    BY <1>4 DEF LoadLine, tables
  <2> QED  BY <1>1, <2>1, <2>2, <2>3, <2>4
<1> QED  BY <1>3, <1>4

LEMMA NextLockInv == TypeInv /\ LockInv /\ [Next]_vars => LockInv'
<1> SUFFICES ASSUME TypeInv, LockInv, [Next]_vars PROVE LockInv'
  OBVIOUS
<1> USE DEF tables, objects
<1>a. /\ job \in [Workers -> Jobs]
      /\ \A w \in Workers : job[w].pc \in LockPCs => job[w].inode \in Inodes
  BY DEF TypeInv, TypeOK, FieldsOK, JobOK, InodePCs, LockPCs
<1>b. ASSUME NEW w \in Workers, cLock \in {w, Free}
      PROVE  \A v \in Workers \ {w} : job[v].pc \notin LockPCs
  BY <1>b, LockAssumption DEF LockInv
<1>1. CASE UNCHANGED vars
  BY <1>1 DEF vars, LockInv
<1>2. ASSUME NEW w \in Workers, Receive(w) PROVE LockInv'
  <2>1. /\ job'[w].pc \in {"rw", "close", "exit"}
        /\ \A v \in Workers \ {w} : job'[v] = job[v]
        /\ UNCHANGED <<cLock, ConnectionsMap>>
    BY <1>a, <1>2 DEF Receive, Events, RWEvents, CloseEvents, ExitEvents
  <2> QED  BY <2>1 DEF LockInv, LockPCs
<1>3. ASSUME NEW w \in Workers, Handle(w) PROVE LockInv'
  <2>1. CASE LockRefresh(w)
    <3>1. /\ \A v \in Workers \ {w} : job'[v] = job[v]
          /\ job'[w].inode = job[w].inode /\ UNCHANGED ConnectionsMap /\ cLock = Free
          /\ job'[w].pc \in LockPCs => cLock' = w /\ ConnectionsMap[job[w].inode] = NoInfo
      BY <1>a, <2>1 DEF LockRefresh, Found, Scan, Jobs, LockPCs
    <3> QED  BY <1>b, <3>1 DEF LockInv
  <2>2. CASE StoreLine(w) \/ LoadLine(w)
    <3>1. /\ job[w].pc \in LockPCs /\ cLock = w /\ cLock' = cLock
          /\ \A v \in Workers \ {w} : job'[v] = job[v]
      BY <2>2, LineShape DEF LockInv, LockPCs
    <3>2. PICK i \in Inodes, o \in Infos :
            /\ job'[w].inode = job[w].inode
            /\ job'[w].info = IF i = job[w].inode THEN o ELSE job[w].info
            /\ \A k \in Inodes \ {i} : ConnectionsMap'[k] = ConnectionsMap[k]
      BY <2>2, LineEffect
    <3>3. o # NoInfo
      BY Constants
    <3>4. job'[w].info = NoInfo => ConnectionsMap'[job'[w].inode] = NoInfo
      BY <1>a, <3>1, <3>2, <3>3 DEF LockInv
    <3> QED  BY <1>b, <3>1, <3>4 DEF LockInv
  <2>3. CASE RewriteInfo(w)
    <3>1. /\ \A v \in Workers \ {w} : job'[v] = job[v]
          /\ job[w].pc \in LockPCs /\ UNCHANGED <<cLock, ConnectionsMap>>
          /\ job'[w].inode = job[w].inode /\ job'[w].info = job[w].info
      BY <1>a, <2>3 DEF RewriteInfo, Jobs, LockPCs
    <3> QED  BY <3>1 DEF LockInv
  <2>4. CASE EndScan(w)
    <3>1. /\ \A v \in Workers \ {w} : job'[v] = job[v]
          /\ job[w].pc \in LockPCs /\ job'[w].pc \notin LockPCs
      BY <1>a, <2>4 DEF EndScan, Jobs, LockPCs
    <3> QED  BY <1>b, <3>1 DEF LockInv
  <2>5. CASE ~LockRefresh(w) /\ ~StoreLine(w) /\ ~LoadLine(w) /\ ~RewriteInfo(w) /\ ~EndScan(w)
    <3>1. /\ job'[w].pc \notin LockPCs
          /\ \A v \in Workers \ {w} : job'[v] = job[v]
          /\ cLock' = cLock
          /\ \A i \in Inodes : ConnectionsMap'[i] \in {ConnectionsMap[i], NoInfo}
      BY <1>3, <2>5, OtherHandlesDoNotScan
    <3> QED  BY <1>a, <3>1 DEF LockInv
  <2> QED  BY <2>1, <2>2, <2>3, <2>4, <2>5
<1>4. CASE SnapshotStep
  <2>1. UNCHANGED <<job, cLock>> /\ \A i \in Inodes : ConnectionsMap'[i] \in {ConnectionsMap[i], NoInfo}
    BY <1>4 DEF SnapshotStep, StartPass, VisitProcess, EvictProcess, VisitConnection, Forget,
                EvictConnection, ForgetIdleInode, FinishProcess, SnapshotInterfaces, FinishPass
  <2> QED  BY <1>a, <2>1 DEF LockInv
<1>5. CASE Tick
  BY <1>5 DEF Tick, LockInv
<1> QED  BY <1>1, <1>2, <1>3, <1>4, <1>5 DEF Next

(* /proc/net is scanned only for an inode that is not cached, however many *)
(* workers look for it at once (refreshNetConnections looks again once it  *)
(* has the lock).                                                          *)
THEOREM ScansAreNeeded == Spec => []ScansOnlyUnknownInodes
<1>1. Init => LockInv
  BY DEF Init, Waiting, LockInv, LockPCs
<1>2. Spec => []TypeInv
  BY InitTypeInv, NextTypeInv, PTL DEF Spec
<1>3. LockInv => ScansOnlyUnknownInodes
  BY DEF LockInv, LockPCs, ScansOnlyUnknownInodes
<1> QED  BY <1>1, <1>2, <1>3, NextLockInv, PTL DEF Spec

-----------------------------------------------------------------------------
(* Two more invariants of Engine: how the ages of a process and of its     *)
(* connections are related, and who a waiting worker waits for.            *)

-----------------------------------------------------------------------------
(* A handler changes the job of its own worker only.                       *)
LEMMA OwnJobOnly ==
    ASSUME TypeInv, NEW w \in Workers, Handle(w) \/ Receive(w)
    PROVE  /\ \A v \in Workers \ {w} : job'[v] = job[v]
           /\ job'[w].pc = "addProcess" => AddToConnection(w)
           /\ job[w].pc = "addProcess" => AddToProcess(w)
           /\ job'[w].pc = "addInterface" => AddToProcess(w)
           /\ job[w].pc = "addInterface" => AddToInterface(w)
<1> USE DEF tables, objects
<1>a. job \in [Workers -> Jobs]
  BY DEF TypeInv, TypeOK
<1>b. ASSUME NEW x, Step(w, x)
      PROVE  job'[w].pc = x /\ \A v \in Workers \ {w} : job'[v] = job[v]
  BY <1>a, <1>b DEF Step, Jobs
<1>c. ASSUME Return(w)
      PROVE  job'[w].pc = "receive" /\ \A v \in Workers \ {w} : job'[v] = job[v]
  BY <1>a, <1>c DEF Return, Waiting
<1>0. CASE Receive(w)
  <2>1. job[w].pc = "receive" /\ \A v \in Workers \ {w} : job'[v] = job[v]
    BY <1>a, <1>0 DEF Receive
  <2>2. job'[w].pc \in {"rw", "close", "exit"}
    <3>1. PICK e \in Events :
             job' = [job EXCEPT ![w] = [Waiting EXCEPT !.pc = e.kind, !.ev = e, !.id = received']]
      BY <1>0 DEF Receive
    <3>2. e.kind \in {"rw", "close", "exit"}
      BY DEF Events, RWEvents, CloseEvents, ExitEvents
    <3>3. [Waiting EXCEPT !.pc = e.kind, !.ev = e, !.id = received'].pc = e.kind
      BY DEF Waiting
    <3> QED  BY <1>a, <3>1, <3>2, <3>3
  <2> QED  BY <2>1, <2>2
<1>1. CASE LoadOrStoreProcess(w)
  BY <1>a, <1>1 DEF LoadOrStoreProcess, Jobs
<1>2. CASE EnterProcessInit(w) \/ StampProcess(w) \/ InitProcess(w) \/ DropUnknownProcess(w)
  BY <1>2, <1>b, <1>c DEF EnterProcessInit, StampProcess, InitProcess, DropUnknownProcess
<1>3. CASE LoadOrStoreConnection(w)
  BY <1>a, <1>3 DEF LoadOrStoreConnection, Jobs
<1>4. CASE EnterConnectionInit(w) \/ StampConnection(w)
  BY <1>4, <1>b DEF EnterConnectionInit, StampConnection
<1>5. CASE Resolve(w)
  BY <1>5, ResolveShape DEF ResolvePCs
<1>6. CASE AssignConnectionInfo(w)
  BY <1>a, <1>6 DEF AssignConnectionInfo, Jobs
<1>7. CASE SkipConnection(w) \/ PassConnection(w)
  BY <1>7, <1>b, <1>c DEF SkipConnection, PassConnection
<1>12. CASE AddToInterface(w)
  <2>1. job[w].pc = "addInterface" /\ Return(w)
    BY <1>12 DEF AddToInterface
  <2> QED  BY <1>12, <1>c, <2>1
<1>10. CASE AddToConnection(w)
  <2>1. job[w].pc = "addConnection" /\ Step(w, "addProcess")
    BY <1>10 DEF AddToConnection
  <2> QED  BY <1>b, <1>10, <2>1
<1>11. CASE AddToProcess(w)
  <2>1. job[w].pc = "addProcess" /\ Step(w, "addInterface")
    BY <1>11 DEF AddToProcess
  <2> QED  BY <1>b, <1>11, <2>1
<1>8. CASE LoadClosingProcess(w) \/ CloseConnection(w)
  BY <1>a, <1>c, <1>8 DEF LoadClosingProcess, CloseConnection, Jobs
<1>9. CASE ForgetClosedInode(w) \/ ExitProcess(w)
  BY <1>9, <1>c DEF ForgetClosedInode, ExitProcess
<1> QED
  BY <1>0, <1>1, <1>2, <1>3, <1>4, <1>5, <1>6, <1>7, <1>8, <1>9, <1>10, <1>11, <1>12
  DEF Handle, Resolve

-----------------------------------------------------------------------------
(* Ages.  AddToProcess follows AddToConnection in the same handler.        *)

Adding(n) == \E w \in Workers : job[w].pc = "addProcess" /\ job[w].bp = n

AgeInv == \A c \in Ids :
            connection[c].bytes > 0 /\ ~Adding(connection[c].owner)
              => process[connection[c].owner].age <= connection[c].age

(* A step in which no worker passes between the two additions and that     *)
(* changes no age that counts.                                             *)
LEMMA AgeFrame ==
    ASSUME AgeInv,
           \A v \in Workers : job[v].pc = "addProcess"
                                => job'[v].pc = "addProcess" /\ job'[v].bp = job[v].bp,
           \A c \in Ids : connection'[c].bytes > 0 =>
              /\ connection[c].bytes > 0 /\ connection'[c].owner = connection[c].owner
              /\ connection'[c].age = connection[c].age
              /\ process'[connection[c].owner].age = process[connection[c].owner].age
    PROVE  AgeInv'
<1> SUFFICES ASSUME NEW c \in Ids, connection'[c].bytes > 0, ~Adding(connection[c].owner)'
             PROVE  process'[connection[c].owner].age <= connection'[c].age
  BY DEF AgeInv, Adding
<1>1. ~Adding(connection[c].owner)
  BY DEF Adding
<1> QED  BY <1>1 DEF AgeInv

LEMMA HandleAgeInv == ASSUME ObjectInv, AgeInv, NEW w \in Workers, Handle(w) PROVE AgeInv'
<1> USE DEF tables, objects
<1>a. /\ TypeInv /\ OwnerInv /\ ProcessOnceInv /\ ConnectionOnceInv
      /\ process \in [Ids -> Processes] /\ connection \in [Ids -> ConnectionObjects]
      /\ JobOK(job[w])
  BY DEF ObjectInv, TypeInv, TypeOK, FieldsOK
<1>b. /\ \A v \in Workers \ {w} : job'[v] = job[v]
      /\ job[w].pc = "addProcess" => AddToProcess(w)
  BY <1>a, OwnJobOnly
<1>c. ASSUME job[w].pc # "addProcess",
             \A c \in Ids : connection'[c].bytes > 0 =>
                /\ connection[c].bytes > 0 /\ connection'[c].owner = connection[c].owner
                /\ connection'[c].age = connection[c].age
                /\ process'[connection[c].owner].age = process[connection[c].owner].age
      PROVE  AgeInv'
  BY <1>b, <1>c, AgeFrame
<1>d. \A c \in Ids : connection[c].bytes > 0 =>
         /\ connection[c].once = "done"
         /\ connection[c].owner \in Ids /\ process[connection[c].owner].once = "done"
  BY <1>a DEF OwnerInv, ConnectionOnceInv, Settled, ConnectionObjects
(* The steps that leave the objects alone.                                 *)
<1>1. CASE job[w].pc # "addProcess" /\ UNCHANGED <<process, connection>>
  BY <1>1, <1>c
(* Init of a process: no connection of it exists yet.                      *)
<1>2. ASSUME NEW o, process' = [process EXCEPT ![job[w].bp] = o], UNCHANGED connection,
             process[job[w].bp].once # "done", job[w].pc # "addProcess"
      PROVE  AgeInv'
  BY <1>2, <1>a, <1>c, <1>d
(* Init of a connection: it has counted nothing yet.                       *)
<1>3. ASSUME NEW o, connection' = [connection EXCEPT ![job[w].bc] = o], UNCHANGED process,
             job[w].bc \in Ids, o.bytes = connection[job[w].bc].bytes,
             connection[job[w].bc].once # "done", job[w].pc # "addProcess"
      PROVE  AgeInv'
  <2>1. connection'[job[w].bc].bytes = connection[job[w].bc].bytes
    BY <1>a, <1>3
  <2>2. ~(connection[job[w].bc].bytes > 0)
    BY <1>3, <1>d
  <2>3. \A c \in Ids \ {job[w].bc} : connection'[c] = connection[c]
    BY <1>3, <1>a
  <2> QED  BY <1>3, <1>c, <2>1, <2>2, <2>3
<1>4. CASE LoadOrStoreConnection(w)
  <2>1. UNCHANGED process /\ job[w].pc # "addProcess"
    BY <1>4 DEF LoadOrStoreConnection
  <2>2. CASE UNCHANGED connection
    BY <1>1, <2>1, <2>2
  <2>3. CASE Connections[job[w].bp][job[w].ev.fd] = Nil
    <3>1. /\ connection' = [connection EXCEPT ![job[w].id].type = job[w].ev.type,
                                             ![job[w].id].owner = job[w].bp]
          /\ job[w].id \in Ids /\ connection[job[w].id].bytes = 0
      BY <1>a, <1>4, <2>3 DEF LoadOrStoreConnection, JobOK, ObjectInv, IdsInv, OwnerInv, ProcessPCs
    <3>2. /\ connection'[job[w].id].bytes = 0
          /\ \A c \in Ids \ {job[w].id} : connection'[c] = connection[c]
      BY <1>a, <3>1 DEF ConnectionObjects
    <3> QED  BY <1>c, <2>1, <3>2
  <2> QED  BY <1>4, <2>2, <2>3 DEF LoadOrStoreConnection
<1>5. CASE AddToConnection(w)
  <2> DEFINE bc == job[w].bc
  <2>1. /\ bc \in Ids /\ job[w].pc = "addConnection" /\ UNCHANGED process
        /\ connection' = [connection EXCEPT ![bc] = Add(@, job[w].ev.size)]
        /\ Step(w, "addProcess")
    BY <1>a, <1>5 DEF AddToConnection, JobOK, ConnectionPCs
  <2>2. /\ connection'[bc].owner = connection[bc].owner
        /\ \A c \in Ids \ {bc} : connection'[c] = connection[c]
    BY <1>a, <2>1 DEF Add, ConnectionObjects
  <2>3. connection[bc].owner = job[w].bp
    BY <1>a, <2>1 DEF OwnerInv, ConnectionPCs
  <2>4. job'[w].pc = "addProcess" /\ \A v \in Workers : job'[v].bp = job[v].bp
    BY <1>a, <2>1, StepShape
  <2>5. \E v \in Workers : job'[v].pc = "addProcess" /\ job'[v].bp = connection'[job[w].bc].owner
    BY <2>2, <2>3, <2>4
  <2>6. ASSUME NEW c \in Ids, connection'[c].bytes > 0, ~Adding(connection[c].owner)'
        PROVE  process'[connection'[c].owner].age <= connection'[c].age
    <3>1. c # bc
      BY <2>2, <2>5, <2>6 DEF Adding
    <3>2. ~Adding(connection[c].owner)
      BY <1>b, <2>1, <2>2, <2>6, <3>1 DEF Adding
    <3> QED  BY <2>1, <2>2, <2>6, <3>1, <3>2 DEF AgeInv
  <2> QED  BY <2>6 DEF AgeInv, Adding
<1>6. CASE AddToProcess(w)
  <2> DEFINE bp == job[w].bp
  <2>1. /\ bp \in Ids /\ UNCHANGED connection
        /\ process' = [process EXCEPT ![bp] = Add(@, job[w].ev.size)]
        /\ Step(w, "addInterface") /\ job[w].pc = "addProcess"
    BY <1>a, <1>6 DEF AddToProcess, JobOK, ConnectionPCs
  <2>2. process'[bp].age = 0 /\ \A n \in Ids \ {bp} : process'[n] = process[n]
    BY <1>a, <2>1 DEF Add, Processes
  <2>3. ASSUME NEW c \in Ids, connection'[c].bytes > 0, ~Adding(connection[c].owner)'
        PROVE  process'[connection'[c].owner].age <= connection'[c].age
    <3>1. CASE connection[c].owner = bp
      <4>1. connection'[c].age \in Nat
        BY <1>a, <2>1, BoundsAssumption DEF ConnectionObjects, Ages
      <4> QED  BY <2>1, <2>2, <3>1, <4>1
    <3>2. CASE connection[c].owner # bp
      <4>1. ~Adding(connection[c].owner)
        BY <1>b, <2>1, <2>3, <3>2 DEF Adding
      <4> QED  BY <1>d, <2>1, <2>2, <2>3, <3>2, <4>1 DEF AgeInv
    <3> QED  BY <3>1, <3>2
  <2> QED  BY <2>3 DEF AgeInv, Adding
<1>7. CASE EnterProcessInit(w) \/ StampProcess(w) \/ InitProcess(w)
  <2>1. /\ UNCHANGED connection /\ job[w].pc # "addProcess"
        /\ process[job[w].bp].once # "done"
    BY <1>a, <1>7 DEF EnterProcessInit, StampProcess, InitProcess, ProcessOnceInv
  <2>2. \E o : process' = [process EXCEPT ![job[w].bp] = o]
    BY <1>7 DEF EnterProcessInit, StampProcess, InitProcess
  <2> QED  BY <2>1, <2>2, <1>2
<1>9. CASE EnterConnectionInit(w) \/ StampConnection(w) \/ AssignConnectionInfo(w)
  <2>1. /\ UNCHANGED process /\ job[w].pc # "addProcess" /\ job[w].pc \in ConnectionPCs
        /\ connection[job[w].bc].once # "done"
    BY <1>a, <1>9 DEF EnterConnectionInit, StampConnection, AssignConnectionInfo,
                      ConnectionOnceInv, ResolvePCs, ConnectionPCs
  <2>2. job[w].bc \in Ids
    BY <1>a, <2>1 DEF JobOK
  <2> DEFINE o == connection[job[w].bc]
  <2>3. CASE EnterConnectionInit(w)
    <3>1. connection' = [connection EXCEPT ![job[w].bc] = [o EXCEPT !.once = "torn"]]
      BY <1>a, <2>2, <2>3 DEF EnterConnectionInit
    <3>2. [o EXCEPT !.once = "torn"].bytes = o.bytes
      BY <1>a, <2>2 DEF ConnectionObjects
    <3> QED  BY <1>3, <2>1, <2>2, <3>1, <3>2
  <2>4. CASE StampConnection(w)
    <3>1. connection' = [connection EXCEPT ![job[w].bc] = [o EXCEPT !.once = "running", !.age = 0]]
      BY <1>a, <2>2, <2>4 DEF StampConnection
    <3>2. [o EXCEPT !.once = "running", !.age = 0].bytes = o.bytes
      BY <1>a, <2>2 DEF ConnectionObjects
    <3> QED  BY <1>3, <2>1, <2>2, <3>1, <3>2
  <2>5. CASE AssignConnectionInfo(w)
    <3> DEFINE t == IF job[w].info = NoInfo THEN o.type ELSE "socket"
               n == [o EXCEPT !.once = "done", !.info = job[w].info, !.type = t]
    <3>1. connection' = [connection EXCEPT ![job[w].bc] = n]
      BY <2>5 DEF AssignConnectionInfo
    <3>2. n.bytes = o.bytes
      BY <1>a, <2>2 DEF ConnectionObjects
    <3> HIDE DEF n
    <3> QED  BY <1>3, <2>1, <2>2, <3>1, <3>2
  <2> QED  BY <1>9, <2>3, <2>4, <2>5
<1>10. CASE Resolve(w)
  BY <1>1, <1>10, <1>a, ResolveShape DEF ResolvePCs
<1>11. CASE \/ LoadOrStoreProcess(w) \/ DropUnknownProcess(w) \/ SkipConnection(w)
            \/ PassConnection(w) \/ AddToInterface(w) \/ LoadClosingProcess(w)
            \/ CloseConnection(w) \/ ForgetClosedInode(w) \/ ExitProcess(w)
  BY <1>1, <1>11 DEF LoadOrStoreProcess, DropUnknownProcess, SkipConnection, PassConnection,
                     AddToInterface, LoadClosingProcess, CloseConnection, ForgetClosedInode,
                     ExitProcess
<1> QED  BY <1>4, <1>5, <1>6, <1>7, <1>9, <1>10, <1>11 DEF Handle, Resolve

LEMMA TickAgeInv == ASSUME ObjectInv, AgeInv, Tick PROVE AgeInv'
<1> USE DEF tables, objects
<1>a. /\ process \in [Ids -> Processes] /\ connection \in [Ids -> ConnectionObjects]
      /\ OwnerInv /\ ConnectionOnceInv
  BY DEF ObjectInv, TypeInv, TypeOK
<1>b. IdleTimeout \in Nat
  BY BoundsAssumption
<1>1. UNCHANGED job /\ \A n \in Ids : /\ process'[n] = Older(process[n])
                                     /\ connection'[n] = Older(connection[n])
  BY DEF Tick
<1>2. SUFFICES ASSUME NEW c \in Ids, connection'[c].bytes > 0, ~Adding(connection'[c].owner)
               PROVE  process'[connection'[c].owner].age <= connection'[c].age
  BY <1>1 DEF AgeInv, Adding
<1>3. connection'[c].bytes = connection[c].bytes /\ connection'[c].owner = connection[c].owner
  BY <1>a, <1>1 DEF Older, ConnectionObjects
<1> DEFINE n == connection[c].owner
<1>4. /\ connection[c].once = "done" /\ n \in Ids /\ process[n].once = "done"
  BY <1>a, <1>2, <1>3 DEF OwnerInv, ConnectionOnceInv, Settled, ConnectionObjects
<1>5. process[n].age <= connection[c].age
  BY <1>2, <1>3 DEF AgeInv
<1>6. process[n].age \in Ages /\ connection[c].age \in Ages
  BY <1>a, <1>4 DEF Processes, ConnectionObjects
<1>7. process'[n].age = IF process[n].age <= IdleTimeout THEN process[n].age + 1 ELSE process[n].age
  BY <1>a, <1>1, <1>4 DEF Older, Stamped, Processes
<1>8. connection'[c].age = IF connection[c].age <= IdleTimeout THEN connection[c].age + 1
                                                             ELSE connection[c].age
  BY <1>a, <1>1, <1>4 DEF Older, Stamped, ConnectionObjects
<1> HIDE DEF n
<1>9. process'[n].age <= connection'[c].age
  BY <1>b, <1>5, <1>6, <1>7, <1>8 DEF Ages
<1> QED  BY <1>3, <1>9 DEF n

LEMMA SnapshotAgeInv == ASSUME ObjectInv, AgeInv, SnapshotStep PROVE AgeInv'
<1> USE DEF tables, objects
<1>a. /\ process \in [Ids -> Processes] /\ connection \in [Ids -> ConnectionObjects]
      /\ OwnerInv /\ ConnectionOnceInv
  BY DEF ObjectInv, TypeInv, TypeOK
<1>1. /\ UNCHANGED job
      /\ UNCHANGED connection \/ \E c : connection' = [connection EXCEPT ![c] = takeSnapshot(@)]
      /\ UNCHANGED process \/ \E n : process' = [process EXCEPT ![n] = takeSnapshot(@)]
  BY DEF SnapshotStep, StartPass, VisitProcess, EvictProcess, VisitConnection,
         EvictConnection, ForgetIdleInode, FinishProcess, SnapshotInterfaces, FinishPass
<1>5. /\ \A c \in Ids : connection'[c] \in {connection[c], takeSnapshot(connection[c])}
      /\ \A n \in Ids : process'[n] \in {process[n], takeSnapshot(process[n])}
  BY <1>a, <1>1
<1>6. /\ \A o \in ConnectionObjects :
            LET t == takeSnapshot(o)
            IN  t.bytes = o.bytes /\ t.owner = o.owner /\ t.age = o.age
      /\ \A o \in Processes : takeSnapshot(o).age = o.age
  BY DEF takeSnapshot, ConnectionObjects, Processes
<1>2. \A c \in Ids : /\ connection'[c].bytes = connection[c].bytes
                     /\ connection'[c].owner = connection[c].owner
                     /\ connection'[c].age = connection[c].age
  BY <1>a, <1>5, <1>6
<1>3. \A n \in Ids : process'[n].age = process[n].age
  BY <1>a, <1>5, <1>6
<1>4. \A c \in Ids : connection[c].bytes > 0 => connection[c].owner \in Ids
  BY <1>a DEF OwnerInv, ConnectionOnceInv, Settled, ConnectionObjects
<1> QED  BY <1>1, <1>2, <1>3, <1>4, AgeFrame

LEMMA NextAgeInv == ObjectInv /\ AgeInv /\ [Next]_vars => AgeInv'
<1> SUFFICES ASSUME ObjectInv, AgeInv, [Next]_vars PROVE AgeInv'
  OBVIOUS
<1>1. CASE UNCHANGED vars
  BY <1>1 DEF vars, AgeInv, Adding
<1>2. ASSUME NEW w \in Workers, Receive(w) PROVE AgeInv'
  <2>1. /\ \A v \in Workers \ {w} : job'[v] = job[v]
        /\ job[w].pc # "addProcess" /\ UNCHANGED <<process, connection>>
    BY <1>2, OwnJobOnly DEF Receive, objects, ObjectInv
  <2> QED  BY <2>1, AgeFrame
<1> QED  BY <1>1, <1>2, HandleAgeInv, SnapshotAgeInv, TickAgeInv DEF Next

(* A process is not older than a connection of it that has traffic, so the *)
(* snapshot worker, which evicts an idle process without a look at its     *)
(* connections, drops no active one with it.                               *)
THEOREM IdleProcessesAreIdle == Spec => []IdleProcessHasIdleConnections
<1>1. Init => AgeInv
  BY DEF Init, NewConnection, AgeInv
<1>2. ObjectInv /\ AgeInv => IdleProcessHasIdleConnections
  <2> SUFFICES ASSUME ObjectInv, AgeInv, NEW c \in Ids, connection[c].bytes > 0,
                      process[connection[c].owner].age > IdleTimeout,
                      ~Adding(connection[c].owner)
               PROVE  connection[c].age > IdleTimeout
    BY DEF IdleProcessHasIdleConnections, Adding
  <2>1. connection[c].age \in Ages /\ process[connection[c].owner].age \in Ages
    BY DEF ObjectInv, TypeInv, TypeOK, OwnerInv, ConnectionOnceInv, Settled, ConnectionObjects, Processes
  <2>2. process[connection[c].owner].age <= connection[c].age
    BY DEF AgeInv
  <2> QED  BY <2>1, <2>2, BoundsAssumption DEF Ages
<1> QED  BY <1>1, <1>2, NextAgeInv, ObjectInvariant, PTL DEF Spec

-----------------------------------------------------------------------------
(* Waiting: an Init that was entered has a worker inside, and so has the   *)
(* lock.                                                                   *)

Busy == {"torn", "running"}
Initialising(n) == \E w \in Workers : job[w].pc \in ProcessInitPCs /\ job[w].bp = n
Resolving(c)    == \E w \in Workers : job[w].pc \in ConnectionInitPCs /\ job[w].bc = c

InsideInv ==
    /\ \A n \in Ids : process[n].once \in Busy => Initialising(n)
    /\ \A c \in Ids : connection[c].once \in Busy => Resolving(c)
    /\ cLock # Free => \E w \in Workers : cLock = w /\ job[w].pc \in LockPCs

(* A step of one worker: whoever else is inside stays there.               *)
LEMMA InsideStep ==
    ASSUME InsideInv, NEW w \in Workers, \A v \in Workers \ {w} : job'[v] = job[v],
           \A n \in Ids : process'[n].once \in Busy =>
              \/ job'[w].pc \in ProcessInitPCs /\ job'[w].bp = n
              \/ process[n].once \in Busy /\ ~(job[w].pc \in ProcessInitPCs /\ job[w].bp = n),
           \A c \in Ids : connection'[c].once \in Busy =>
              \/ job'[w].pc \in ConnectionInitPCs /\ job'[w].bc = c
              \/ connection[c].once \in Busy /\ ~(job[w].pc \in ConnectionInitPCs /\ job[w].bc = c),
           cLock' # Free => \/ cLock' = w /\ job'[w].pc \in LockPCs
                            \/ /\ cLock' = cLock
                               /\ job[w].pc \in LockPCs => job'[w].pc \in LockPCs
    PROVE  InsideInv'
<1>1. ASSUME NEW n \in Ids, process'[n].once \in Busy PROVE Initialising(n)'
  BY <1>1 DEF InsideInv, Initialising
<1>2. ASSUME NEW c \in Ids, connection'[c].once \in Busy PROVE Resolving(c)'
  BY <1>2 DEF InsideInv, Resolving
<1>3. ASSUME cLock' # Free PROVE \E v \in Workers : cLock' = v /\ job'[v].pc \in LockPCs
  BY <1>3 DEF InsideInv
<1> QED  BY <1>1, <1>2, <1>3 DEF InsideInv

LEMMA QuietStep ==
    ASSUME InsideInv, NEW w \in Workers, \A v \in Workers \ {w} : job'[v] = job[v],
           job[w].pc \notin ProcessInitPCs \cup ConnectionInitPCs, UNCHANGED cLock,
           \A n \in Ids : process'[n].once = process[n].once /\ connection'[n].once = connection[n].once
    PROVE  InsideInv'
<1>1. job[w].pc \notin LockPCs
  BY DEF ConnectionInitPCs, ResolvePCs, LockPCs
<1> QED  BY <1>1, InsideStep

LEMMA HandleInsideInv == ASSUME ObjectInv, InsideInv, NEW w \in Workers, Handle(w) PROVE InsideInv'
<1> USE DEF tables, objects
<1>a. /\ TypeInv /\ JobOK(job[w]) /\ job \in [Workers -> Jobs]
      /\ process \in [Ids -> Processes] /\ connection \in [Ids -> ConnectionObjects]
  BY DEF ObjectInv, TypeInv, TypeOK, FieldsOK
<1>b. \A v \in Workers \ {w} : job'[v] = job[v]
  BY <1>a, OwnJobOnly
<1>1. CASE \/ LoadOrStoreProcess(w) \/ DropUnknownProcess(w) \/ SkipConnection(w)
           \/ PassConnection(w) \/ AddToInterface(w) \/ LoadClosingProcess(w)
           \/ CloseConnection(w) \/ ForgetClosedInode(w) \/ ExitProcess(w)
  <2>1. /\ job[w].pc \in {"rw", "process", "connection", "addInterface", "close",
                          "closeConnection", "closeInfo", "exit"}
        /\ UNCHANGED <<process, connection, cLock>>
    BY <1>1 DEF LoadOrStoreProcess, DropUnknownProcess, SkipConnection, PassConnection,
                AddToInterface, LoadClosingProcess, CloseConnection, ForgetClosedInode, ExitProcess
  <2> QED  BY <1>b, <2>1, QuietStep DEF ProcessInitPCs, ConnectionInitPCs, ResolvePCs
<1>2. CASE LoadOrStoreConnection(w)
  <2>1. job[w].pc = "process" /\ UNCHANGED <<process, cLock>>
    BY <1>2 DEF LoadOrStoreConnection
  <2>2. \A c \in Ids : connection'[c].once = connection[c].once
    BY <1>a, <1>2 DEF LoadOrStoreConnection, ConnectionObjects
  <2> QED  BY <1>b, <2>1, <2>2, QuietStep DEF ProcessInitPCs, ConnectionInitPCs, ResolvePCs
<1>3. CASE AddToConnection(w)
  <2>1. job[w].pc = "addConnection" /\ UNCHANGED <<process, cLock>>
    BY <1>3 DEF AddToConnection
  <2>2. \A c \in Ids : connection'[c].once = connection[c].once
    BY <1>a, <1>3 DEF AddToConnection, Add, ConnectionObjects
  <2> QED  BY <1>b, <2>1, <2>2, QuietStep DEF ProcessInitPCs, ConnectionInitPCs, ResolvePCs
<1>4. CASE AddToProcess(w)
  <2>1. job[w].pc = "addProcess" /\ UNCHANGED <<connection, cLock>>
    BY <1>4 DEF AddToProcess
  <2>2. \A n \in Ids : process'[n].once = process[n].once
    BY <1>a, <1>4 DEF AddToProcess, Add, Processes
  <2> QED  BY <1>b, <2>1, <2>2, QuietStep DEF ProcessInitPCs, ConnectionInitPCs, ResolvePCs
<1>5. CASE EnterProcessInit(w) \/ StampProcess(w) \/ InitProcess(w)
  <2>1. /\ UNCHANGED <<connection, cLock>> /\ job[w].pc \in ProcessPCs
        /\ \/ Step(w, "stampProcess") \/ Step(w, "initProcess")
           \/ Step(w, "process") /\ InitProcess(w)
    BY <1>5 DEF EnterProcessInit, StampProcess, InitProcess, ProcessPCs
  <2>2. job[w].bp \in Ids /\ job[w].pc \notin ConnectionInitPCs /\ job[w].pc \notin LockPCs
    BY <1>a, <2>1 DEF JobOK, ProcessPCs, ConnectionInitPCs, ResolvePCs, LockPCs
  <2>3. \A n \in Ids \ {job[w].bp} : process'[n] = process[n]
    BY <1>a, <1>5 DEF EnterProcessInit, StampProcess, InitProcess
  <2>4. process'[job[w].bp].once \in Busy => job'[w].pc \in ProcessInitPCs /\ job'[w].bp = job[w].bp
    <3>1. CASE InitProcess(w)
      BY <1>a, <2>2, <3>1 DEF InitProcess, Busy, Processes
    <3>2. CASE Step(w, "stampProcess") \/ Step(w, "initProcess")
      BY <1>a, <3>2, StepShape DEF ProcessInitPCs
    <3> QED  BY <2>1, <3>1, <3>2
  <2> QED  BY <1>b, <2>1, <2>2, <2>3, <2>4, InsideStep
<1>6. ASSUME job[w].pc \in ConnectionPCs, job[w].pc \notin LockPCs, UNCHANGED <<process, cLock>>,
             \A c \in Ids \ {job[w].bc} : connection'[c] = connection[c],
             connection'[job[w].bc].once \in Busy =>
               job'[w].pc \in ConnectionInitPCs /\ job'[w].bc = job[w].bc
      PROVE  InsideInv'
  <2>1. job[w].bc \in Ids /\ job[w].pc \notin ProcessInitPCs
    BY <1>a, <1>6 DEF JobOK, ConnectionPCs, ProcessInitPCs
  <2> QED  BY <1>b, <1>6, <2>1, InsideStep
<1>7. CASE EnterConnectionInit(w) \/ StampConnection(w)
  <2>1. /\ job[w].pc \in {"connection", "stampConnection"} /\ UNCHANGED <<process, cLock>>
        /\ Step(w, "stampConnection") \/ Step(w, "initConnection")
        /\ \A c \in Ids \ {job[w].bc} : connection'[c] = connection[c]
    BY <1>a, <1>7 DEF EnterConnectionInit, StampConnection
  <2>2. job'[w].pc \in ConnectionInitPCs /\ job'[w].bc = job[w].bc
    BY <1>a, <2>1, StepShape DEF ConnectionInitPCs, ResolvePCs
  <2> QED  BY <1>6, <2>1, <2>2 DEF ConnectionPCs, LockPCs
(* A step of getConnectionInfoFor stays inside: only cLock is at stake.     *)
<1>8. ASSUME Resolve(w),
             cLock' # Free => \/ cLock' = w /\ job'[w].pc \in LockPCs
                              \/ /\ cLock' = cLock
                                 /\ job[w].pc \in LockPCs => job'[w].pc \in LockPCs
      PROVE  InsideInv'
  <2>1. /\ job[w].pc \in ConnectionInitPCs /\ job'[w].pc \in ConnectionInitPCs
        /\ job[w].pc \notin ProcessInitPCs /\ job'[w].bc = job[w].bc
        /\ UNCHANGED <<process, connection>>
    BY <1>a, <1>8, ResolveShape DEF ConnectionInitPCs, ResolvePCs, ProcessInitPCs
  <2> QED  BY <1>b, <1>8, <2>1, InsideStep
<1>11. CASE InitConnection(w)
  BY <1>8, <1>11 DEF Resolve, InitConnection, LockPCs
<1>12. CASE StoreLine(w) \/ LoadLine(w)
  <2>1. job[w].pc \in LockPCs /\ job'[w].pc \in LockPCs /\ cLock' = cLock
    BY <1>a, <1>12, LineShape DEF LockPCs
  <2> QED  BY <1>8, <1>12, <2>1 DEF Resolve
<1>13. CASE RewriteInfo(w)
  <2>1. job[w].pc \in LockPCs /\ job'[w].pc \in LockPCs /\ cLock' = cLock
    BY <1>a, <1>13 DEF RewriteInfo, Jobs, LockPCs
  <2> QED  BY <1>8, <1>13, <2>1 DEF Resolve
<1>14. CASE EndScan(w)
  BY <1>8, <1>14 DEF Resolve, EndScan
<1>10. CASE LockRefresh(w)
  <2>1. /\ job[w].pc = "refresh" /\ cLock = Free
        /\ cLock' # Free => cLock' = w /\ job'[w].pc \in LockPCs
    BY <1>a, <1>10 DEF LockRefresh, Scan, Jobs, LockPCs
  <2> QED  BY <1>8, <1>10, <2>1 DEF Resolve
<1>9. CASE AssignConnectionInfo(w)
  <2> DEFINE c == connection[job[w].bc]
             y == IF job[w].info = NoInfo THEN c.type ELSE "socket"
             o == [c EXCEPT !.once = "done", !.info = job[w].info, !.type = y]
  <2>1. job[w].pc = "assign" /\ UNCHANGED <<process, cLock>>
    BY <1>9 DEF AssignConnectionInfo
  <2>2. job[w].bc \in Ids
    BY <1>a, <2>1 DEF JobOK, ConnectionPCs
  <2>4. o.once = "done"
    BY <1>a, <2>2 DEF ConnectionObjects
  <2>5. connection' = [connection EXCEPT ![job[w].bc] = o]
    BY <1>9 DEF AssignConnectionInfo
  <2> HIDE DEF o
  <2>3. /\ connection'[job[w].bc].once = "done"
        /\ \A d \in Ids \ {job[w].bc} : connection'[d] = connection[d]
    BY <1>a, <2>2, <2>4, <2>5
  <2> QED  BY <1>6, <2>1, <2>3 DEF Busy, ConnectionPCs, LockPCs
<1> QED
  BY <1>1, <1>2, <1>3, <1>4, <1>5, <1>7, <1>9, <1>10, <1>11, <1>12, <1>13, <1>14
  DEF Handle, Resolve

LEMMA NextInsideInv == ObjectInv /\ InsideInv /\ [Next]_vars => InsideInv'
<1> SUFFICES ASSUME ObjectInv, InsideInv, [Next]_vars PROVE InsideInv'
  OBVIOUS
<1> USE DEF tables, objects
<1>a. process \in [Ids -> Processes] /\ connection \in [Ids -> ConnectionObjects]
  BY DEF ObjectInv, TypeInv, TypeOK
<1>1. CASE UNCHANGED vars
  BY <1>1 DEF vars, InsideInv, Initialising, Resolving
<1>2. ASSUME NEW w \in Workers, Receive(w) PROVE InsideInv'
  <2>1. /\ \A v \in Workers \ {w} : job'[v] = job[v]
        /\ job[w].pc = "receive" /\ UNCHANGED <<process, connection, cLock>>
    BY <1>2, OwnJobOnly DEF Receive, ObjectInv
  <2> QED  BY <2>1, QuietStep DEF ProcessInitPCs, ConnectionInitPCs, ResolvePCs
<1>3. CASE SnapshotStep
  <2>1. /\ UNCHANGED <<job, cLock>>
        /\ UNCHANGED connection \/ \E c : connection' = [connection EXCEPT ![c] = takeSnapshot(@)]
        /\ UNCHANGED process \/ \E n : process' = [process EXCEPT ![n] = takeSnapshot(@)]
    BY <1>3 DEF SnapshotStep, StartPass, VisitProcess, EvictProcess, VisitConnection,
                EvictConnection, ForgetIdleInode, FinishProcess, SnapshotInterfaces, FinishPass
  <2>2. /\ \A o \in ConnectionObjects : takeSnapshot(o).once = o.once
        /\ \A o \in Processes : takeSnapshot(o).once = o.once
    BY DEF takeSnapshot, ConnectionObjects, Processes
  <2>3. /\ \A c \in Ids : connection'[c] \in {connection[c], takeSnapshot(connection[c])}
        /\ \A n \in Ids : process'[n] \in {process[n], takeSnapshot(process[n])}
    BY <1>a, <2>1
  <2>4. \A n \in Ids : process'[n].once = process[n].once /\ connection'[n].once = connection[n].once
    BY <1>a, <2>2, <2>3
  <2> QED  BY <2>1, <2>4 DEF InsideInv, Initialising, Resolving
<1>4. CASE Tick
  <2>1. UNCHANGED <<job, cLock>> /\ \A n \in Ids : /\ process'[n] = Older(process[n])
                                                   /\ connection'[n] = Older(connection[n])
    BY <1>4 DEF Tick
  <2>2. \A n \in Ids : process'[n].once = process[n].once
    BY <1>a, <2>1 DEF Older, Processes
  <2>3. \A c \in Ids : connection'[c].once = connection[c].once
    BY <1>a, <2>1 DEF Older, ConnectionObjects
  <2> QED  BY <2>1, <2>2, <2>3 DEF InsideInv, Initialising, Resolving
<1> QED  BY <1>1, <1>2, <1>3, <1>4, HandleInsideInv DEF Next

(* A worker that waits in once.Do or for cLock waits for a worker that can *)
(* go on: the two nest without a deadlock.                                 *)
THEOREM NobodyWaitsForever == Spec => []WaitsEnd
<1>1. Init => InsideInv
  BY DEF Init, NewProcess, NewConnection, InsideInv, Busy
<1>2. ObjectInv /\ InsideInv => WaitsEnd
  <2> SUFFICES ASSUME ObjectInv, InsideInv, NEW w \in Workers, Waits(w)
               PROVE  \E v \in Workers : job[v].pc # "receive" /\ ~Waits(v)
    BY DEF WaitsEnd
  <2>a. JobOK(job[w])
    BY DEF ObjectInv, TypeInv, FieldsOK
  <2>1. ASSUME NEW v \in Workers,
               job[v].pc \in ProcessInitPCs \cup {"stampConnection", "initConnection", "scan", "rewrite",
                                                 "assign"}
        PROVE  job[v].pc # "receive" /\ ~Waits(v)
    BY <2>1 DEF Waits, ProcessInitPCs
  <2>2. CASE cLock # Free
    <3>1. PICK v \in Workers : job[v].pc \in {"scan", "rewrite"}
      BY <2>2 DEF InsideInv, LockPCs
    <3> QED  BY <2>1, <3>1
  <2>3. CASE cLock = Free /\ job[w].pc = "process"
    <3>1. job[w].bp \in Ids /\ process[job[w].bp].once \in Busy
      BY <2>a, <2>3 DEF Waits, JobOK, ProcessPCs, Busy
    <3>2. PICK v \in Workers : job[v].pc \in ProcessInitPCs
      BY <3>1 DEF InsideInv, Initialising
    <3> QED  BY <2>1, <3>2
  <2>4. CASE cLock = Free /\ job[w].pc = "connection"
    <3>1. job[w].bc \in Ids /\ connection[job[w].bc].once \in Busy
      BY <2>a, <2>4 DEF Waits, JobOK, ConnectionPCs, Busy
    <3>2. PICK v \in Workers : job[v].pc \in ConnectionInitPCs
      BY <3>1 DEF InsideInv, Resolving
    <3>3. CASE job[v].pc = "refresh"
      BY <2>4, <3>3 DEF Waits
    <3> QED  BY <2>1, <3>2, <3>3 DEF ConnectionInitPCs, ResolvePCs
  <2> QED  BY <2>2, <2>3, <2>4 DEF Waits
<1> QED  BY <1>1, <1>2, NextInsideInv, ObjectInvariant, PTL DEF Spec

-----------------------------------------------------------------------------
(* Sums over finite sets.  SumFunctionOnSet takes the elements in an order *)
(* that CHOOSE fixes; these lemmas show that the order does not matter.    *)

(* Induction over the subsets of a finite set.                             *)
LEMMA SubsetInduction ==
    ASSUME NEW S, IsFiniteSet(S), NEW B,
           \A T \in SUBSET S : (\A U \in SUBSET T : U # T => U \in B) => T \in B
    PROVE  \A T \in SUBSET S : T \in B
<1> DEFINE Bad == {T \in SUBSET S : T \notin B}
<1>1. SUFFICES ASSUME Bad # {} PROVE FALSE
  OBVIOUS
<1>2. IsWellFoundedOn(StrictSubsetOrdering(S), SUBSET S)
  BY FS_StrictSubsetOrderingWellFounded, FS_FiniteSubsetsOfFinite
<1>3. PICK T \in Bad : \A U \in Bad : <<U, T>> \notin StrictSubsetOrdering(S)
  <2>1. Bad \subseteq SUBSET S
    OBVIOUS
  <2> HIDE DEF Bad
  <2> QED  BY <1>1, <1>2, <2>1, WFMin
<1>4. \A U \in SUBSET T : U # T => U \in B
  <2> SUFFICES ASSUME NEW U \in SUBSET T, U # T, U \notin B PROVE FALSE
    OBVIOUS
  <2>1. U \in Bad
    OBVIOUS
  <2>2. <<U, T>> \in StrictSubsetOrdering(S)
    BY DEF StrictSubsetOrdering
  <2> QED  BY <1>3, <2>1, <2>2
<1> QED  BY <1>4

(* The element a sum takes first, and the function it recurs on.           *)
First(s) == CHOOSE x \in s : TRUE

IsIter(f, S, g) ==
    g = [s \in SUBSET S |-> IF s = {} THEN 0 ELSE f[First(s)] + g[s \ {First(s)}]]

LEMMA IterUnique ==
    ASSUME NEW S, IsFiniteSet(S), NEW R \in SUBSET S, NEW f, NEW g, NEW h,
           IsIter(f, S, g), IsIter(f, R, h)
    PROVE  \A s \in SUBSET R : g[s] = h[s]
<1> DEFINE B == {s \in SUBSET R : g[s] = h[s]}
<1>1. IsFiniteSet(R)
  BY FS_Subset
<1>2. ASSUME NEW T \in SUBSET R, \A U \in SUBSET T : U # T => U \in B
      PROVE  T \in B
  <2>1. CASE T = {}
    BY <2>1 DEF IsIter
  <2>2. CASE T # {}
    <3>1. First(T) \in T
      BY <2>2 DEF First
    <3>2. g[T \ {First(T)}] = h[T \ {First(T)}]
      BY <1>2, <3>1
    <3>3. /\ g[T] = f[First(T)] + g[T \ {First(T)}]
          /\ h[T] = f[First(T)] + h[T \ {First(T)}]
      BY <2>2 DEF IsIter
    <3> QED  BY <3>2, <3>3
  <2> QED  BY <2>1, <2>2
<1>3. \A T \in SUBSET R : T \in B
  <2> HIDE DEF B
  <2> QED  BY <1>1, <1>2, SubsetInduction
<1> QED  BY <1>3

LEMMA IterRestrict ==
    ASSUME NEW S, NEW R \in SUBSET S, NEW f, NEW g, IsIter(f, S, g)
    PROVE  IsIter(f, R, [s \in SUBSET R |-> g[s]])
<1> DEFINE h == [s \in SUBSET R |-> g[s]]
<1>1. \A s \in SUBSET R : h[s] = IF s = {} THEN 0 ELSE f[First(s)] + h[s \ {First(s)}]
  BY DEF IsIter
<1> HIDE DEF h
<1>2. h = [s \in SUBSET R |-> h[s]]
  BY DEF h
<1> QED  BY <1>1, <1>2 DEF IsIter, h

LEMMA IterExists ==
    ASSUME NEW S, IsFiniteSet(S), NEW f
    PROVE  \E g : IsIter(f, S, g)
<1> DEFINE B == {s \in SUBSET S : \E g : IsIter(f, s, g)}
<1>1. ASSUME NEW T \in SUBSET S, \A U \in SUBSET T : U # T => U \in B
      PROVE  T \in B
  <2> DEFINE G(s) == (CHOOSE g : IsIter(f, s, g))[s]
             V(s) == IF s = {} THEN 0 ELSE f[First(s)] + G(s \ {First(s)})
             h == [s \in SUBSET T |-> V(s)]
  <2>1. \A U \in SUBSET T : U # T => IsIter(f, U, CHOOSE g : IsIter(f, U, g))
    BY <1>1
  <2>2. ASSUME NEW s \in SUBSET T, s # T PROVE G(s) = V(s)
    <3> DEFINE g == CHOOSE g : IsIter(f, s, g)
    <3>1. IsIter(f, s, g)
      BY <2>1, <2>2
    <3>2. CASE s = {}
      BY <3>1, <3>2 DEF IsIter
    <3>3. CASE s # {}
      <4> DEFINE r == s \ {First(s)}
                 k == CHOOSE k : IsIter(f, r, k)
      <4>1. First(s) \in s
        BY <3>3 DEF First
      <4>2. IsIter(f, r, k)
        BY <2>1, <4>1
      <4>3. IsFiniteSet(s)
        BY FS_Subset
      <4>4. g[r] = k[r]
        <5>1. r \in SUBSET s
          OBVIOUS
        <5> HIDE DEF g, k, r
        <5> QED  BY <3>1, <4>2, <4>3, <5>1, IterUnique
      <4>5. g[s] = f[First(s)] + g[r]
        <5> HIDE DEF g
        <5> QED  BY <3>1, <3>3 DEF IsIter
      <4> QED  BY <3>3, <4>4, <4>5
    <3> QED  BY <3>2, <3>3
  <2>3. ASSUME NEW s \in SUBSET T, s # {} PROVE h[s] = f[First(s)] + h[s \ {First(s)}]
    <3>1. First(s) \in s
      BY <2>3 DEF First
    <3>2. G(s \ {First(s)}) = V(s \ {First(s)})
      <4>1. s \ {First(s)} \in SUBSET T /\ s \ {First(s)} # T
        BY <3>1
      <4> HIDE DEF G, V
      <4> QED  BY <2>2, <4>1
    <3>3. h[s] = V(s) /\ h[s \ {First(s)}] = V(s \ {First(s)})
      OBVIOUS
    <3>4. V(s) = f[First(s)] + G(s \ {First(s)})
      BY <2>3
    <3> HIDE DEF V, G, h
    <3> QED  BY <3>2, <3>3, <3>4
  <2>4. h[{}] = 0
    OBVIOUS
  <2>5. h = [s \in SUBSET T |-> h[s]]
    OBVIOUS
  <2>6. IsIter(f, T, h)
    <3> HIDE DEF h
    <3>1. \A s \in SUBSET T : h[s] = IF s = {} THEN 0 ELSE f[First(s)] + h[s \ {First(s)}]
      BY <2>3, <2>4
    <3>2. h = [s \in SUBSET T |-> IF s = {} THEN 0 ELSE f[First(s)] + h[s \ {First(s)}]]
      BY <2>5, <3>1
    <3> QED  BY <3>2 DEF IsIter
  <2> HIDE DEF h
  <2> QED  BY <2>6
<1>2. \A T \in SUBSET S : T \in B
  <2> HIDE DEF B
  <2> QED  BY <1>1, SubsetInduction
<1> QED  BY <1>2

LEMMA SumIter ==
    ASSUME NEW S, IsFiniteSet(S), NEW f, NEW g, IsIter(f, S, g)
    PROVE  SumFunctionOnSet(f, S) = g[S]
<1> DEFINE k == CHOOSE k : k = [s \in SUBSET S |->
                    IF s = {} THEN 0
                    ELSE f[CHOOSE x \in s : TRUE] + k[s \ {CHOOSE x \in s : TRUE}]]
<1>1. SumFunctionOnSet(f, S) = k[S]
  BY DEF SumFunctionOnSet, FoldFunctionOnSet, MapThenFoldSet
<1>2. IsIter(f, S, k)
  <2>1. k = CHOOSE i : IsIter(f, S, i)
    BY DEF IsIter, First
  <2> HIDE DEF k
  <2> QED  BY <2>1
<1> HIDE DEF k
<1> QED  BY <1>1, <1>2, IterUnique

LEMMA SumStep ==
    ASSUME NEW S, IsFiniteSet(S), NEW f
    PROVE  SumFunctionOnSet(f, S) =
             IF S = {} THEN 0 ELSE f[First(S)] + SumFunctionOnSet(f, S \ {First(S)})
<1>1. PICK g : IsIter(f, S, g)
  BY IterExists
<1> DEFINE R == S \ {First(S)}
<1>2. SumFunctionOnSet(f, S) = g[S]
  BY <1>1, SumIter
<1>3. SumFunctionOnSet(f, R) = g[R]
  <2> DEFINE h == [s \in SUBSET R |-> g[s]]
  <2>1. IsIter(f, R, h)
    BY <1>1, IterRestrict
  <2>2. IsFiniteSet(R)
    BY FS_Subset
  <2>3. h[R] = g[R]
    OBVIOUS
  <2> HIDE DEF h, R
  <2> QED  BY <2>1, <2>2, <2>3, SumIter
<1>4. g[S] = IF S = {} THEN 0 ELSE f[First(S)] + g[R]
  BY <1>1 DEF IsIter
<1> QED  BY <1>2, <1>3, <1>4

(* A sum of natural numbers is one.                                        *)
LEMMA SumType ==
    ASSUME NEW S, IsFiniteSet(S), NEW f, \A x \in S : f[x] \in Nat
    PROVE  SumFunctionOnSet(f, S) \in Nat
<1> DEFINE B == {T \in SUBSET S : SumFunctionOnSet(f, T) \in Nat}
<1>1. ASSUME NEW T \in SUBSET S, \A U \in SUBSET T : U # T => U \in B
      PROVE  T \in B
  <2>1. IsFiniteSet(T)
    BY FS_Subset
  <2>2. CASE T = {}
    <3>1. SumFunctionOnSet(f, T) = 0
      BY <2>1, <2>2, SumStep
    <3> QED  BY <3>1
  <2>3. CASE T # {}
    <3>1. First(T) \in T
      BY <2>3 DEF First
    <3>2. SumFunctionOnSet(f, T \ {First(T)}) \in Nat
      BY <1>1, <3>1
    <3>3. SumFunctionOnSet(f, T) = f[First(T)] + SumFunctionOnSet(f, T \ {First(T)})
      BY <2>1, <2>3, SumStep
    <3>4. f[First(T)] \in Nat
      BY <3>1
    <3> QED  BY <3>2, <3>3, <3>4
  <2> QED  BY <2>2, <2>3
<1>2. \A T \in SUBSET S : T \in B
  <2> HIDE DEF B
  <2> QED  BY <1>1, SubsetInduction
<1> QED  BY <1>2

(* Any summand can be taken first.                                         *)
LEMMA SumRemove ==
    ASSUME NEW S, IsFiniteSet(S), NEW f, \A x \in S : f[x] \in Nat, NEW x \in S
    PROVE  SumFunctionOnSet(f, S) = f[x] + SumFunctionOnSet(f, S \ {x})
<1> DEFINE Removes(T) == \A y \in T :
             SumFunctionOnSet(f, T) = f[y] + SumFunctionOnSet(f, T \ {y})
           B == {T \in SUBSET S : Removes(T)}
<1>0. \A T \in SUBSET S : IsFiniteSet(T) /\ SumFunctionOnSet(f, T) \in Nat
  BY FS_Subset, SumType
<1>1. ASSUME NEW T \in SUBSET S, \A U \in SUBSET T : U # T => U \in B
      PROVE  T \in B
  <2> SUFFICES ASSUME NEW y \in T
               PROVE  SumFunctionOnSet(f, T) = f[y] + SumFunctionOnSet(f, T \ {y})
    OBVIOUS
  <2> DEFINE p == First(T)
  <2>1. p \in T
    BY DEF First
  <2>2. SumFunctionOnSet(f, T) = f[p] + SumFunctionOnSet(f, T \ {p})
    BY <1>0, SumStep
  <2>3. CASE y = p
    BY <2>2, <2>3
  <2>4. CASE y # p
    <3> HIDE DEF p
    <3> DEFINE R == (T \ {p}) \ {y}
    <3>1. Removes(T \ {p}) /\ Removes(T \ {y})
      BY <1>1, <2>1
    <3>2. SumFunctionOnSet(f, T \ {p}) = f[y] + SumFunctionOnSet(f, R)
      BY <2>4, <3>1
    <3>3. (T \ {y}) \ {p} = R
      OBVIOUS
    <3>4. SumFunctionOnSet(f, T \ {y}) = f[p] + SumFunctionOnSet(f, R)
      BY <2>1, <2>4, <3>1, <3>3
    <3>5. /\ f[p] \in Nat /\ f[y] \in Nat
          /\ SumFunctionOnSet(f, R) \in Nat
      BY <1>0, <2>1
    <3> QED  BY <2>2, <3>2, <3>4, <3>5
  <2> QED  BY <2>3, <2>4
<1>2. \A T \in SUBSET S : T \in B
  <2> HIDE DEF B
  <2> QED  BY <1>1, SubsetInduction
<1> QED  BY <1>2

(* Only the summands matter.                                               *)
LEMMA SumCongruence ==
    ASSUME NEW S, IsFiniteSet(S), NEW f, NEW g, \A x \in S : f[x] = g[x]
    PROVE  SumFunctionOnSet(f, S) = SumFunctionOnSet(g, S)
<1> DEFINE B == {T \in SUBSET S : SumFunctionOnSet(f, T) = SumFunctionOnSet(g, T)}
<1>1. ASSUME NEW T \in SUBSET S, \A U \in SUBSET T : U # T => U \in B
      PROVE  T \in B
  <2>1. IsFiniteSet(T)
    BY FS_Subset
  <2>2. CASE T = {}
    BY <2>1, <2>2, SumStep
  <2>3. CASE T # {}
    <3>1. First(T) \in T
      BY <2>3 DEF First
    <3>2. SumFunctionOnSet(f, T \ {First(T)}) = SumFunctionOnSet(g, T \ {First(T)})
      BY <1>1, <3>1
    <3>3. /\ SumFunctionOnSet(f, T) = f[First(T)] + SumFunctionOnSet(f, T \ {First(T)})
          /\ SumFunctionOnSet(g, T) = g[First(T)] + SumFunctionOnSet(g, T \ {First(T)})
      BY <2>1, <2>3, SumStep
    <3> QED  BY <3>1, <3>2, <3>3
  <2> QED  BY <2>2, <2>3
<1>2. \A T \in SUBSET S : T \in B
  <2> HIDE DEF B
  <2> QED  BY <1>1, SubsetInduction
<1> QED  BY <1>2

(* How a sum changes when one summand x does, is added, or is taken away.  *)
LEMMA SumChange ==
    ASSUME NEW S, IsFiniteSet(S), NEW f, NEW g, NEW x \in S,
           \A y \in S : f[y] \in Nat /\ g[y] \in Nat, \A y \in S \ {x} : f[y] = g[y]
    PROVE  SumFunctionOnSet(g, S) + f[x] = SumFunctionOnSet(f, S) + g[x]
<1> DEFINE R == S \ {x}
<1>1. IsFiniteSet(R)
  BY FS_Subset
<1>2. SumFunctionOnSet(f, R) = SumFunctionOnSet(g, R)
  BY <1>1, SumCongruence
<1>3. SumFunctionOnSet(f, R) \in Nat
  BY <1>1, SumType
<1>4. /\ SumFunctionOnSet(f, S) = f[x] + SumFunctionOnSet(f, R)
      /\ SumFunctionOnSet(g, S) = g[x] + SumFunctionOnSet(g, R)
  BY SumRemove
<1> QED  BY <1>2, <1>3, <1>4


(* A sum over a part of S as a sum over S.                                 *)
Part(f, T, x) == IF x \in T THEN f[x] ELSE 0

LEMMA SumPart ==
    ASSUME NEW S, IsFiniteSet(S), NEW R \in SUBSET S, NEW f, \A x \in R : f[x] \in Nat
    PROVE  SumFunctionOnSet(f, R) = SumFunctionOnSet([x \in S |-> Part(f, R, x)], S)
<1> DEFINE g == [x \in S |-> Part(f, R, x)]
           B == {T \in SUBSET S : SumFunctionOnSet(g, T) = SumFunctionOnSet(f, T \cap R)}
<1>0. \A T \in SUBSET S : IsFiniteSet(T) /\ IsFiniteSet(T \cap R)
  BY FS_Subset
<1>1. ASSUME NEW T \in SUBSET S, \A U \in SUBSET T : U # T => U \in B
      PROVE  T \in B
  <2>1. CASE T = {}
    <3>1. T \cap R = {} /\ IsFiniteSet({})
      BY <1>0, <2>1
    <3>2. SumFunctionOnSet(g, {}) = 0 /\ SumFunctionOnSet(f, {}) = 0
      BY <3>1, SumStep
    <3> QED  BY <2>1, <3>1, <3>2
  <2>2. CASE T # {}
    <3> DEFINE p == First(T)
               U == T \ {p}
    <3>1. p \in T
      BY <2>2 DEF First
    <3>2. SumFunctionOnSet(g, U) = SumFunctionOnSet(f, U \cap R)
      BY <1>1, <3>1
    <3>3. SumFunctionOnSet(g, T) = g[p] + SumFunctionOnSet(g, U)
      BY <1>0, <2>2, SumStep
    <3>4. SumFunctionOnSet(f, U \cap R) \in Nat
      <4>1. IsFiniteSet(U \cap R) /\ \A x \in U \cap R : f[x] \in Nat
        BY <1>0
      <4> HIDE DEF U
      <4> QED  BY <4>1, SumType
    <3>5. CASE p \in R
      <4>1. g[p] = f[p] /\ p \in T \cap R /\ (T \cap R) \ {p} = U \cap R
        BY <3>1, <3>5 DEF Part
      <4>2. SumFunctionOnSet(f, T \cap R) = f[p] + SumFunctionOnSet(f, (T \cap R) \ {p})
        <5>1. IsFiniteSet(T \cap R) /\ \A x \in T \cap R : f[x] \in Nat
          BY <1>0
        <5> HIDE DEF p
        <5> QED  BY <4>1, <5>1, SumRemove
      <4> HIDE DEF g, p, U
      <4>3. SumFunctionOnSet(g, T) = SumFunctionOnSet(f, T \cap R)
        BY <3>2, <3>3, <4>1, <4>2
      <4> QED  BY <4>3
    <3>6. CASE p \notin R
      <4>1. g[p] = 0 /\ T \cap R = U \cap R
        BY <3>1, <3>6 DEF Part
      <4> HIDE DEF g, p, U
      <4>2. SumFunctionOnSet(g, T) = SumFunctionOnSet(f, T \cap R)
        BY <3>2, <3>3, <3>4, <4>1
      <4> QED  BY <4>2
    <3> QED  BY <3>5, <3>6
  <2> QED  BY <2>1, <2>2
<1>2. \A T \in SUBSET S : T \in B
  <2> HIDE DEF B
  <2> QED  BY <1>1, SubsetInduction
<1>3. S \cap R = R
  OBVIOUS
<1> HIDE DEF g
<1> QED  BY <1>2, <1>3 DEF g

(* Two sums over parts of S that agree but for what x adds to each.        *)
LEMMA SumsDiffer ==
    ASSUME NEW S, IsFiniteSet(S), NEW T \in SUBSET S, NEW R \in SUBSET S, NEW f, NEW g,
           \A y \in T : f[y] \in Nat, \A y \in R : g[y] \in Nat, NEW x \in S,
           \A y \in S \ {x} : Part(f, T, y) = Part(g, R, y)
    PROVE  SumFunctionOnSet(g, R) + Part(f, T, x) = SumFunctionOnSet(f, T) + Part(g, R, x)
<1> DEFINE ff == [y \in S |-> Part(f, T, y)]
           gg == [y \in S |-> Part(g, R, y)]
<1>1. /\ \A y \in S : ff[y] \in Nat /\ gg[y] \in Nat
      /\ \A y \in S \ {x} : ff[y] = gg[y]
      /\ ff[x] = Part(f, T, x) /\ gg[x] = Part(g, R, x)
  BY DEF Part
<1>2. /\ SumFunctionOnSet(f, T) = SumFunctionOnSet(ff, S)
      /\ SumFunctionOnSet(g, R) = SumFunctionOnSet(gg, S)
  BY SumPart
<1> HIDE DEF ff, gg
<1>3. SumFunctionOnSet(gg, S) + ff[x] = SumFunctionOnSet(ff, S) + gg[x]
  BY <1>1, SumChange
<1> QED  BY <1>1, <1>2, <1>3

LEMMA SumsAgree ==
    ASSUME NEW S, IsFiniteSet(S), NEW T \in SUBSET S, NEW R \in SUBSET S, NEW f, NEW g,
           \A y \in T : f[y] \in Nat, \A y \in R : g[y] \in Nat,
           \A y \in S : Part(f, T, y) = Part(g, R, y)
    PROVE  SumFunctionOnSet(g, R) = SumFunctionOnSet(f, T)
<1> DEFINE ff == [y \in S |-> Part(f, T, y)]
           gg == [y \in S |-> Part(g, R, y)]
<1>1. SumFunctionOnSet(f, T) = SumFunctionOnSet(ff, S) /\ SumFunctionOnSet(g, R) = SumFunctionOnSet(gg, S)
  BY SumPart
<1>2. ff = gg
  OBVIOUS
<1> HIDE DEF ff, gg
<1> QED  BY <1>1, <1>2

-----------------------------------------------------------------------------
(* The totals: what the counters of a process and of an interface say of   *)
(* the counters of the connections.                                        *)

(* The workers between AddToConnection and the end of the handler.         *)
AddPCs == {"addProcess", "addInterface"}

OwnedBy(n)  == {c \in Ids : connection[c].owner = n}
AddingTo(n) == {w \in Workers : job[w].pc = "addProcess" /\ job[w].bp = n}
Counting    == {w \in Workers : job[w].pc \in AddPCs}

TotalsInv == ProcessTotalsAgree /\ InterfaceTotalsAgree

(* A step that counts nothing.                                             *)
NothingCounted ==
    /\ \A n \in Ids : process'[n].bytes = process[n].bytes
    /\ \A i \in Ifaces : interface'[i].bytes = interface[i].bytes
    /\ unknown' = unknown
    /\ \A c \in Ids : connection'[c].bytes = connection[c].bytes
    /\ \A c \in Ids : connection[c].once = "done" => connection'[c].owner = connection[c].owner
    /\ \A v \in Workers : IF job[v].pc \in AddPCs THEN job'[v] = job[v] ELSE job'[v].pc \notin AddPCs

(* What is known of the connections and jobs that count.                   *)
LEMMA CountingFacts ==
    ASSUME ObjectInv
    PROVE  /\ IsFiniteSet(Workers) /\ IsFiniteSet(Ids) /\ unknown \in Nat
           /\ \A n \in Ids : process[n].bytes \in Nat
           /\ \A i \in Ifaces : interface[i].bytes \in Nat
           /\ \A c \in Ids : connection[c].bytes \in Nat
           /\ \A c \in Ids : connection[c].bytes # 0 => connection[c].once = "done"
           /\ \A v \in Workers : job[v].pc \in AddPCs =>
                /\ job[v].ev.size \in Nat /\ job[v].bc \in Ids /\ job[v].bp \in Ids
                /\ connection[job[v].bc].once = "done"
                /\ connection[job[v].bc].owner = job[v].bp
<1>1. IsFiniteSet(Workers) /\ IsFiniteSet(Ids)
  BY WorkersAssumption, BoundsAssumption, FS_Interval DEF Ids
<1>2. /\ \A n \in Ids : process[n].bytes \in Nat
      /\ \A i \in Ifaces : interface[i].bytes \in Nat
      /\ \A c \in Ids : connection[c].bytes \in Nat
      /\ unknown \in Nat
  BY DEF ObjectInv, TypeInv, TypeOK, Processes, ConnectionObjects, Interfaces
<1>3. \A c \in Ids : connection[c].bytes # 0 => connection[c].once = "done"
  BY <1>2 DEF ObjectInv, ConnectionOnceInv, Settled
<1>4. ASSUME NEW v \in Workers, job[v].pc \in AddPCs
      PROVE  /\ job[v].ev.size \in Nat /\ job[v].bc \in Ids /\ job[v].bp \in Ids
             /\ connection[job[v].bc].once = "done"
             /\ connection[job[v].bc].owner = job[v].bp
  <2>1. job[v].pc \in ConnectionPCs /\ JobOK(job[v])
    BY <1>4 DEF AddPCs, ConnectionPCs, ObjectInv, TypeInv, FieldsOK
  <2>2. job[v].ev \in RWEvents /\ job[v].bc \in Ids /\ job[v].bp \in Ids
    BY <2>1 DEF JobOK
  <2>3. job[v].ev.size \in Nat
    BY <2>2, SizesAssumption DEF RWEvents
  <2>4. connection[job[v].bc].owner = job[v].bp
    BY <2>1 DEF ObjectInv, OwnerInv
  <2>5. connection[job[v].bc].once = "done"
    BY <1>4 DEF AddPCs, ObjectInv, ConnectionOnceInv, CountingPCs, Settled
  <2> QED  BY <2>2, <2>3, <2>4, <2>5
<1> QED  BY <1>1, <1>2, <1>3, <1>4

LEMMA TotalsFrame == ASSUME ObjectInv, TotalsInv, NothingCounted PROVE TotalsInv'
<1> USE CountingFacts
<1> DEFINE b == [c \in Ids |-> connection[c].bytes]
           bb == [c \in Ids |-> connection'[c].bytes]
<1>1. \A c \in Ids : b[c] \in Nat /\ bb[c] = b[c]
  BY DEF NothingCounted
<1>2. ASSUME NEW n \in Ids
      PROVE  /\ InFlight(AddingTo(n))' = InFlight(AddingTo(n))
             /\ Counted(OwnedBy(n))' = Counted(OwnedBy(n))
  <2>1. AddingTo(n)' = AddingTo(n)
    BY DEF NothingCounted, AddingTo, AddPCs
  <2>2. [w \in AddingTo(n)' |-> job'[w].ev.size] = [w \in AddingTo(n) |-> job[w].ev.size]
    BY <2>1 DEF NothingCounted, AddingTo, AddPCs
  <2>3. InFlight(AddingTo(n))' = InFlight(AddingTo(n))
    BY <2>1, <2>2 DEF InFlight
  <2>4. \A c \in Ids : Part(b, OwnedBy(n), c) = Part(bb, OwnedBy(n)', c)
    BY <1>1 DEF Part, OwnedBy, NothingCounted
  <2>5. SumFunctionOnSet(bb, OwnedBy(n)') = SumFunctionOnSet(b, OwnedBy(n))
    <3>1. OwnedBy(n) \in SUBSET Ids /\ OwnedBy(n)' \in SUBSET Ids
      BY DEF OwnedBy
    <3>2. (\A c \in OwnedBy(n) : b[c] \in Nat) /\ (\A c \in OwnedBy(n)' : bb[c] \in Nat)
      BY <1>1, <3>1
    <3> HIDE DEF b, bb
    <3> QED  BY <2>4, <3>1, <3>2, SumsAgree
  <2> QED  BY <2>3, <2>5 DEF Counted
<1>3. InFlight(Counting)' = InFlight(Counting) /\ Counted(Ids)' = Counted(Ids)
  <2>1. Counting' = Counting /\ \A w \in Counting : job'[w] = job[w]
    BY DEF NothingCounted, Counting, AddPCs
  <2>2. [w \in Counting |-> job'[w].ev.size] = [w \in Counting |-> job[w].ev.size]
    BY <2>1
  <2>3. bb = b
    BY <1>1
  <2> QED  BY <2>1, <2>2, <2>3 DEF InFlight, Counted
<1>6. OfInterfaces' = OfInterfaces /\ unknown' = unknown
  <2>1. [i \in Ifaces |-> interface'[i].bytes] = [i \in Ifaces |-> interface[i].bytes]
    BY DEF NothingCounted
  <2> QED  BY <2>1 DEF OfInterfaces, NothingCounted
<1>4. ProcessTotalsAgree'
  BY <1>2 DEF TotalsInv, ProcessTotalsAgree, NothingCounted, AddingTo, OwnedBy
<1>5. InterfaceTotalsAgree'
  BY <1>3, <1>6 DEF TotalsInv, InterfaceTotalsAgree, Counting, AddPCs
<1> QED  BY <1>4, <1>5 DEF TotalsInv

(* The sums of a step that adds n bytes to the connection c, or moves the  *)
(* job of the worker w into or out of a set.                               *)
LEMMA CountedGrows ==
    ASSUME ObjectInv, NEW c \in Ids, NEW n \in Nat, NEW S \in SUBSET Ids,
           connection'[c].bytes = connection[c].bytes + n,
           \A d \in Ids \ {c} : connection'[d].bytes = connection[d].bytes
    PROVE  /\ Counted(S) \in Nat
           /\ SumFunctionOnSet([d \in Ids |-> connection'[d].bytes], S)
                = IF c \in S THEN Counted(S) + n ELSE Counted(S)
<1> DEFINE b == [d \in Ids |-> connection[d].bytes]
           bb == [d \in Ids |-> connection'[d].bytes]
<1>1. /\ IsFiniteSet(Ids)
      /\ \A d \in Ids : b[d] \in Nat /\ bb[d] \in Nat
      /\ b[c] \in Nat /\ bb[c] = b[c] + n
      /\ \A d \in Ids \ {c} : Part(b, S, d) = Part(bb, S, d)
  BY CountingFacts DEF Part
<1> HIDE DEF b, bb
<1>2. SumFunctionOnSet(b, S) \in Nat /\ SumFunctionOnSet(bb, S) \in Nat
  <2>1. IsFiniteSet(S) /\ (\A d \in S : b[d] \in Nat) /\ (\A d \in S : bb[d] \in Nat)
    BY <1>1, FS_Subset
  <2> QED  BY <2>1, SumType
<1>3. SumFunctionOnSet(bb, S) + Part(b, S, c) = SumFunctionOnSet(b, S) + Part(bb, S, c)
  <2>1. (\A d \in S : b[d] \in Nat) /\ (\A d \in S : bb[d] \in Nat)
    BY <1>1
  <2> QED  BY <1>1, <2>1, SumsDiffer
<1>4. SumFunctionOnSet(bb, S) = IF c \in S THEN SumFunctionOnSet(b, S) + n ELSE SumFunctionOnSet(b, S)
  BY <1>1, <1>2, <1>3 DEF Part
<1> QED  BY <1>2, <1>4 DEF Counted, b, bb

LEMMA InFlightChanges ==
    ASSUME ObjectInv, NEW w \in Workers, NEW S \in SUBSET Workers, NEW R \in SUBSET Workers,
           \A v \in S : job[v].pc \in AddPCs,
           \A v \in R : job'[v].ev.size \in Nat,
           \A v \in Workers \ {w} : (v \in S <=> v \in R) /\ job'[v] = job[v]
    PROVE  /\ InFlight(S) \in Nat
           /\ SumFunctionOnSet([v \in R |-> job'[v].ev.size], R)
                 + (IF w \in S THEN job[w].ev.size ELSE 0)
                = InFlight(S) + (IF w \in R THEN job'[w].ev.size ELSE 0)
<1> DEFINE f == [v \in S |-> job[v].ev.size]
           g == [v \in R |-> job'[v].ev.size]
<1>1. /\ IsFiniteSet(Workers)
      /\ (\A v \in S : f[v] \in Nat) /\ (\A v \in R : g[v] \in Nat)
      /\ \A v \in Workers \ {w} : Part(f, S, v) = Part(g, R, v)
      /\ Part(f, S, w) = IF w \in S THEN job[w].ev.size ELSE 0
      /\ Part(g, R, w) = IF w \in R THEN job'[w].ev.size ELSE 0
  BY CountingFacts DEF Part
<1> HIDE DEF f, g
<1>2. SumFunctionOnSet(f, S) \in Nat
  BY <1>1, FS_Subset, SumType
<1>3. SumFunctionOnSet(g, R) + Part(f, S, w) = SumFunctionOnSet(f, S) + Part(g, R, w)
  BY <1>1, SumsDiffer
<1> QED  BY <1>1, <1>2, <1>3 DEF InFlight, f, g

LEMMA OfInterfacesType == ASSUME ObjectInv PROVE OfInterfaces \in Nat
<1> DEFINE f == [i \in Ifaces |-> interface[i].bytes]
<1>1. IsFiniteSet(Ifaces) /\ \A i \in Ifaces : f[i] \in Nat
  BY CountingFacts, IfacesAssumption
<1> HIDE DEF f
<1>2. SumFunctionOnSet(f, Ifaces) \in Nat
  BY <1>1, SumType
<1> QED  BY <1>2 DEF OfInterfaces, f

LEMMA InFlightType ==
    ASSUME NEW S \in SUBSET Workers, \A v \in S : job[v].ev.size \in Nat
    PROVE  InFlight(S) \in Nat
<1> DEFINE f == [v \in S |-> job[v].ev.size]
<1>1. IsFiniteSet(S) /\ \A v \in S : f[v] \in Nat
  BY WorkersAssumption, FS_Subset
<1> HIDE DEF f
<1>2. SumFunctionOnSet(f, S) \in Nat
  BY <1>1, SumType
<1> QED  BY <1>2 DEF InFlight, f

LEMMA InFlightNextType ==
    ASSUME NEW S \in SUBSET Workers, \A v \in S : job'[v].ev.size \in Nat
    PROVE  SumFunctionOnSet([v \in S |-> job'[v].ev.size], S) \in Nat
<1> DEFINE f == [v \in S |-> job'[v].ev.size]
<1>1. IsFiniteSet(S) /\ \A v \in S : f[v] \in Nat
  BY WorkersAssumption, FS_Subset
<1> HIDE DEF f
<1>2. SumFunctionOnSet(f, S) \in Nat
  BY <1>1, SumType
<1> QED  BY <1>2 DEF f

(* AddToConnection puts the size in flight, and adds it to a connection of *)
(* the process that will get it.                                           *)
LEMMA AddToConnectionTotals ==
    ASSUME ObjectInv, TotalsInv, NEW w \in Workers, AddToConnection(w) PROVE TotalsInv'
<1> USE DEF tables, objects
<1> DEFINE c == job[w].bc
           size == job[w].ev.size
<1>1. /\ TypeInv /\ OwnerInv /\ job \in [Workers -> Jobs]
      /\ connection \in [Ids -> ConnectionObjects] /\ JobOK(job[w])
  BY DEF ObjectInv, TypeInv, TypeOK, FieldsOK
<1>2. /\ job[w].pc = "addConnection"
      /\ connection' = [connection EXCEPT ![c] = Add(@, size)]
      /\ Step(w, "addProcess") /\ UNCHANGED <<process, interface, unknown>>
  BY DEF AddToConnection
<1>3. c \in Ids /\ size \in Nat /\ connection[c].owner = job[w].bp
  BY <1>1, <1>2, SizesAssumption DEF JobOK, ConnectionPCs, RWEvents, OwnerInv
<1>4. /\ connection'[c].bytes = connection[c].bytes + size
      /\ connection'[c].owner = connection[c].owner
      /\ \A d \in Ids \ {c} : connection'[d] = connection[d]
  BY <1>1, <1>2, <1>3 DEF Add, ConnectionObjects
<1>5. /\ job'[w].pc = "addProcess" /\ job'[w].ev = job[w].ev
      /\ job'[w].bp = job[w].bp /\ job'[w].bc = c
      /\ \A v \in Workers \ {w} : job'[v] = job[v]
  BY <1>1, <1>2 DEF Step, Jobs
<1>6. \A v \in Workers : job'[v].pc \in AddPCs => job'[v].ev.size \in Nat /\ job'[v].bc \in Ids
  BY <1>3, <1>5, CountingFacts
<1> HIDE DEF c, size
<1>7. ASSUME NEW n \in Ids
      PROVE  (process[n].bytes + InFlight(AddingTo(n)) = Counted(OwnedBy(n)))'
  <2>1. OwnedBy(n)' = OwnedBy(n) /\ (c \in OwnedBy(n) <=> job[w].bp = n)
    BY <1>3, <1>4 DEF OwnedBy
  <2>2. /\ Counted(OwnedBy(n)) \in Nat
        /\ Counted(OwnedBy(n))' = IF job[w].bp = n THEN Counted(OwnedBy(n)) + size
                                                   ELSE Counted(OwnedBy(n))
    <3>1. OwnedBy(n) \in SUBSET Ids
      BY DEF OwnedBy
    <3> QED  BY <1>3, <1>4, <2>1, <3>1, CountedGrows DEF Counted
  <2>3. /\ w \notin AddingTo(n) /\ (w \in AddingTo(n)' <=> job[w].bp = n)
        /\ \A v \in Workers \ {w} : v \in AddingTo(n) <=> v \in AddingTo(n)'
        /\ \A v \in AddingTo(n) : job[v].pc \in AddPCs
        /\ \A v \in AddingTo(n)' : job'[v].ev.size \in Nat
        /\ AddingTo(n) \in SUBSET Workers /\ AddingTo(n)' \in SUBSET Workers
    BY <1>2, <1>5, <1>6 DEF AddingTo, AddPCs
  <2>4. /\ InFlight(AddingTo(n)) \in Nat
        /\ InFlight(AddingTo(n))' = InFlight(AddingTo(n)) + (IF job[w].bp = n THEN size ELSE 0)
    <3>1. /\ InFlight(AddingTo(n)) \in Nat
          /\ InFlight(AddingTo(n))' + 0
               = InFlight(AddingTo(n)) + (IF job[w].bp = n THEN job'[w].ev.size ELSE 0)
      BY <1>5, <2>3, InFlightChanges DEF InFlight
    <3>2. InFlight(AddingTo(n))' \in Nat
      BY <2>3, InFlightNextType DEF InFlight
    <3> QED  BY <1>5, <3>1, <3>2 DEF size
  <2>5. process[n].bytes + InFlight(AddingTo(n)) = Counted(OwnedBy(n))
    BY DEF TotalsInv, ProcessTotalsAgree, AddingTo, OwnedBy
  <2>6. process[n].bytes \in Nat /\ process' = process
    BY <1>2, CountingFacts
  <2> QED  BY <1>3, <2>2, <2>4, <2>5, <2>6
<1>8. (OfInterfaces + unknown + InFlight(Counting) = Counted(Ids))'
  <2>1. /\ Counted(Ids) \in Nat /\ Counted(Ids)' = Counted(Ids) + size
    <3>1. Ids \in SUBSET Ids
      OBVIOUS
    <3>2. \A d \in Ids \ {c} : connection'[d].bytes = connection[d].bytes
      BY <1>4
    <3>3. /\ Counted(Ids) \in Nat
          /\ SumFunctionOnSet([d \in Ids |-> connection'[d].bytes], Ids)
               = IF c \in Ids THEN Counted(Ids) + size ELSE Counted(Ids)
      BY <1>3, <1>4, <3>1, <3>2, CountedGrows
    <3> QED  BY <1>3, <3>3 DEF Counted
  <2>2. /\ w \notin Counting /\ w \in Counting'
        /\ \A v \in Workers \ {w} : v \in Counting <=> v \in Counting'
        /\ \A v \in Counting : job[v].pc \in AddPCs
        /\ \A v \in Counting' : job'[v].ev.size \in Nat
        /\ Counting \in SUBSET Workers /\ Counting' \in SUBSET Workers
    BY <1>2, <1>5, <1>6 DEF Counting, AddPCs
  <2>3. InFlight(Counting) \in Nat /\ InFlight(Counting)' \in Nat
    <3>1. InFlight(Counting) \in Nat
      BY <2>2, InFlightType, CountingFacts
    <3> QED  BY <2>2, <3>1, InFlightNextType DEF InFlight
  <2>4. InFlight(Counting)' + 0 = InFlight(Counting) + job'[w].ev.size
    BY <1>5, <2>2, InFlightChanges DEF InFlight
  <2>5. OfInterfaces' = OfInterfaces /\ unknown' = unknown
    BY <1>2 DEF OfInterfaces
  <2>6. OfInterfaces + unknown + InFlight(Counting) = Counted(Ids)
    BY DEF TotalsInv, InterfaceTotalsAgree, Counting, AddPCs
  <2>7. OfInterfaces \in Nat /\ unknown \in Nat
    BY OfInterfacesType, CountingFacts
  <2>8. job'[w].ev.size = size
    BY <1>5 DEF size
  <2> QED  BY ONLY <1>3, <2>1, <2>3, <2>4, <2>5, <2>6, <2>7, <2>8
<1> QED  BY <1>7, <1>8 DEF TotalsInv, ProcessTotalsAgree, InterfaceTotalsAgree,
                           AddingTo, OwnedBy, Counting, AddPCs

(* AddToProcess takes the size out of flight for the process.              *)
LEMMA AddToProcessTotals ==
    ASSUME ObjectInv, TotalsInv, NEW w \in Workers, AddToProcess(w) PROVE TotalsInv'
<1> USE DEF tables, objects
<1> DEFINE size == job[w].ev.size
<1>1. /\ process \in [Ids -> Processes] /\ job \in [Workers -> Jobs]
      /\ job[w].pc = "addProcess" /\ process' = [process EXCEPT ![job[w].bp] = Add(@, size)]
      /\ Step(w, "addInterface") /\ UNCHANGED <<connection, interface, unknown>>
  BY DEF ObjectInv, TypeInv, TypeOK, AddToProcess
<1>2. size \in Nat /\ job[w].bp \in Ids
  BY <1>1, CountingFacts DEF AddPCs
<1>3. /\ process'[job[w].bp].bytes = process[job[w].bp].bytes + size
      /\ \A n \in Ids \ {job[w].bp} : process'[n] = process[n]
  BY <1>1, <1>2 DEF Add, Processes
<1>4. /\ job'[w].pc = "addInterface" /\ job'[w].ev = job[w].ev /\ job'[w].bc = job[w].bc
      /\ \A v \in Workers \ {w} : job'[v] = job[v]
  BY <1>1 DEF Step, Jobs
<1>5. \A v \in Workers : job'[v].pc \in AddPCs => job'[v].ev.size \in Nat
  BY <1>2, <1>4, CountingFacts
<1> HIDE DEF size
<1>6. ASSUME NEW n \in Ids
      PROVE  (process[n].bytes + InFlight(AddingTo(n)) = Counted(OwnedBy(n)))'
  <2>1. /\ w \notin AddingTo(n)' /\ (w \in AddingTo(n) <=> job[w].bp = n)
        /\ \A v \in Workers \ {w} : v \in AddingTo(n) <=> v \in AddingTo(n)'
        /\ \A v \in AddingTo(n) : job[v].pc \in AddPCs
        /\ \A v \in AddingTo(n)' : job'[v].ev.size \in Nat
        /\ AddingTo(n) \in SUBSET Workers /\ AddingTo(n)' \in SUBSET Workers
    BY <1>1, <1>4, <1>5 DEF AddingTo, AddPCs
  <2>2. /\ InFlight(AddingTo(n)) \in Nat
        /\ InFlight(AddingTo(n))' + (IF job[w].bp = n THEN size ELSE 0) = InFlight(AddingTo(n)) + 0
    BY <1>4, <2>1, InFlightChanges DEF InFlight, size
  <2>3. InFlight(AddingTo(n))' \in Nat
    BY <2>1, InFlightNextType DEF InFlight
  <2>4. Counted(OwnedBy(n))' = Counted(OwnedBy(n))
    BY <1>1 DEF Counted, OwnedBy
  <2>5. process[n].bytes + InFlight(AddingTo(n)) = Counted(OwnedBy(n))
    BY DEF TotalsInv, ProcessTotalsAgree, AddingTo, OwnedBy
  <2>6. /\ process[n].bytes \in Nat
        /\ process'[n].bytes = IF job[w].bp = n THEN process[n].bytes + size ELSE process[n].bytes
    BY <1>3, CountingFacts
  <2> QED  BY <1>2, <2>2, <2>3, <2>4, <2>5, <2>6
<1>7. (OfInterfaces + unknown + InFlight(Counting) = Counted(Ids))'
  <2>1. Counting' = Counting
    BY <1>1, <1>4 DEF Counting, AddPCs
  <2>2. [v \in Counting |-> job'[v].ev.size] = [v \in Counting |-> job[v].ev.size]
    <3>1. \A v \in Counting : job'[v].ev.size = job[v].ev.size
      BY <1>4 DEF Counting
    <3> QED  BY <3>1
  <2>3. InFlight(Counting)' = InFlight(Counting)
    BY <2>1, <2>2 DEF InFlight
  <2>4. Counted(Ids)' = Counted(Ids) /\ OfInterfaces' = OfInterfaces
    BY <1>1 DEF Counted, OfInterfaces
  <2> QED  BY <1>1, <2>3, <2>4 DEF TotalsInv, InterfaceTotalsAgree, Counting, AddPCs
<1> QED  BY <1>6, <1>7 DEF TotalsInv, ProcessTotalsAgree, InterfaceTotalsAgree,
                           AddingTo, OwnedBy, Counting, AddPCs

(* AddToInterface takes it out of flight: it goes to one interface, or to  *)
(* none, whatever the address is by now.                                   *)
LEMMA AddToInterfaceTotals ==
    ASSUME ObjectInv, TotalsInv, NEW w \in Workers, AddToInterface(w) PROVE TotalsInv'
<1> USE DEF tables, objects
<1> DEFINE size == job[w].ev.size
           f == [i \in Ifaces |-> interface[i].bytes]
           g == [i \in Ifaces |-> interface'[i].bytes]
           after == SumFunctionOnSet(g, Ifaces)
<1>1. /\ interface \in [Ifaces -> Interfaces] /\ job \in [Workers -> Jobs]
      /\ job[w].pc = "addInterface"
      /\ Return(w) /\ UNCHANGED <<connection, process>>
  BY DEF ObjectInv, TypeInv, TypeOK, AddToInterface
<1>2. size \in Nat
  BY <1>1, CountingFacts DEF AddPCs
<1>3. /\ unknown \in Nat /\ OfInterfaces \in Nat /\ unknown' \in Nat /\ after \in Nat
      /\ after + unknown' = OfInterfaces + unknown + size
  <2>1. unknown \in Nat /\ OfInterfaces \in Nat
    BY CountingFacts, OfInterfacesType
  <2>2. CASE unknown' = unknown + size /\ UNCHANGED interface
    <3>1. after = OfInterfaces
      BY <2>2 DEF OfInterfaces
    <3> HIDE DEF after
    <3> QED  BY ONLY <1>2, <2>1, <2>2, <3>1
  <2>3. ASSUME NEW i \in Ifaces, unknown' = unknown,
               interface' = [interface EXCEPT ![i].bytes = @ + size]
        PROVE  /\ unknown' \in Nat /\ after \in Nat
               /\ after + unknown' = OfInterfaces + unknown + size
    <3> HIDE DEF size
    <3>1. /\ \A k \in Ifaces : f[k] \in Nat
          /\ g[i] = f[i] + size /\ \A k \in Ifaces \ {i} : g[k] = f[k]
      BY <1>1, <2>3, CountingFacts DEF Interfaces
    <3>2. \A k \in Ifaces : g[k] \in Nat
      BY <1>2, <3>1
    <3> HIDE DEF f, g
    <3>3. SumFunctionOnSet(g, Ifaces) + f[i] = SumFunctionOnSet(f, Ifaces) + g[i]
      BY <3>1, <3>2, IfacesAssumption, SumChange
    <3>4. SumFunctionOnSet(f, Ifaces) \in Nat /\ SumFunctionOnSet(g, Ifaces) \in Nat
      BY <3>1, <3>2, IfacesAssumption, SumType
    <3>a. f[i] \in Nat /\ g[i] = f[i] + size
      BY <3>1
    <3>5. SumFunctionOnSet(g, Ifaces) = SumFunctionOnSet(f, Ifaces) + size
      BY ONLY <1>2, <3>a, <3>3, <3>4
    <3>6. OfInterfaces = SumFunctionOnSet(f, Ifaces)
      BY DEF OfInterfaces, f
    <3> QED  BY ONLY <1>2, <2>1, <2>3, <3>4, <3>5, <3>6
  <2>4. \A a \in Addresses \cup {Torn} : IfacesAt(a) \subseteq Ifaces \cup {NoIface}
    BY IfacesAssumption DEF IfacesAt
  <2>5. infos[connection[job[w].bc].info].local \in Addresses \cup {Torn}
    <3>1. job[w].bc \in Ids /\ Settled(connection[job[w].bc])
      BY <1>1, CountingFacts DEF AddPCs, ObjectInv, ConnectionOnceInv, CountingPCs
    <3>2. connection[job[w].bc].info \in Infos
      BY <3>1 DEF ObjectInv, TypeInv, TypeOK, ConnectionObjects, Settled
    <3> QED  BY <3>2 DEF ObjectInv, TypeInv, TypeOK
  <2>6. PICK i \in IfacesAt(infos[connection[job[w].bc].info].local) :
           IF i = NoIface THEN unknown' = unknown + size /\ UNCHANGED interface
           ELSE interface' = [interface EXCEPT ![i].bytes = @ + size] /\ UNCHANGED unknown
    BY DEF AddToInterface
  <2>7. i \in Ifaces \cup {NoIface}
    BY <2>4, <2>5, <2>6
  <2> QED  BY <2>1, <2>2, <2>3, <2>6, <2>7
<1>4. job'[w].pc = "receive" /\ \A v \in Workers \ {w} : job'[v] = job[v]
  BY <1>1, ReturnShape DEF ObjectInv
<1>5. \A v \in Workers : job'[v].pc \in AddPCs => job'[v].ev.size \in Nat
  BY <1>4, CountingFacts DEF AddPCs
<1>6. ASSUME NEW n \in Ids
      PROVE  (process[n].bytes + InFlight(AddingTo(n)) = Counted(OwnedBy(n)))'
  <2>1. AddingTo(n)' = AddingTo(n)
    BY <1>1, <1>4 DEF AddingTo
  <2>2. [v \in AddingTo(n) |-> job'[v].ev.size] = [v \in AddingTo(n) |-> job[v].ev.size]
    <3>1. \A v \in AddingTo(n) : job'[v].ev.size = job[v].ev.size
      BY <1>1, <1>4 DEF AddingTo
    <3> QED  BY <3>1
  <2>3. InFlight(AddingTo(n))' = InFlight(AddingTo(n))
    BY <2>1, <2>2 DEF InFlight
  <2>4. Counted(OwnedBy(n))' = Counted(OwnedBy(n))
    BY <1>1 DEF Counted, OwnedBy
  <2> QED  BY <1>1, <2>3, <2>4 DEF TotalsInv, ProcessTotalsAgree, AddingTo, OwnedBy
<1> HIDE DEF size, f, g, after
<1>7. (OfInterfaces + unknown + InFlight(Counting) = Counted(Ids))'
  <2>1. /\ w \notin Counting' /\ w \in Counting
        /\ \A v \in Workers \ {w} : v \in Counting <=> v \in Counting'
        /\ \A v \in Counting : job[v].pc \in AddPCs
        /\ \A v \in Counting' : job'[v].ev.size \in Nat
        /\ Counting \in SUBSET Workers /\ Counting' \in SUBSET Workers
    BY <1>1, <1>4, <1>5 DEF Counting, AddPCs
  <2> DEFINE left == SumFunctionOnSet([v \in Counting' |-> job'[v].ev.size], Counting')
  <2>2. InFlight(Counting) \in Nat /\ left \in Nat
    <3>1. InFlight(Counting) \in Nat
      BY <2>1, InFlightType, CountingFacts
    <3> QED  BY <2>1, <3>1, InFlightNextType
  <2>3. left + size = InFlight(Counting) + 0
    BY <1>4, <2>1, InFlightChanges DEF size
  <2>4. Counted(Ids)' = Counted(Ids)
    BY <1>1 DEF Counted
  <2>5. OfInterfaces + unknown + InFlight(Counting) = Counted(Ids)
    BY DEF TotalsInv, InterfaceTotalsAgree, Counting, AddPCs
  <2>6. OfInterfaces' = after /\ InFlight(Counting)' = left
    BY DEF OfInterfaces, InFlight, after, g
  <2> HIDE DEF left
  <2> DEFINE u == unknown'
  <2>8. u \in Nat /\ after \in Nat /\ after + u = OfInterfaces + unknown + size
    BY <1>3
  <2>9. unknown' = u
    OBVIOUS
  <2> HIDE DEF u
  <2>7. after + u + left = OfInterfaces + unknown + InFlight(Counting)
    BY ONLY <1>2, <1>3, <2>2, <2>3, <2>8
  <2> QED  BY ONLY <2>4, <2>5, <2>6, <2>7, <2>9
<1> QED  BY <1>6, <1>7 DEF TotalsInv, ProcessTotalsAgree, InterfaceTotalsAgree,
                           AddingTo, OwnedBy, Counting, AddPCs

(* No other step of a handler counts anything: what it changes of an       *)
(* object is not what the sums are taken over.                             *)
LEMMA OtherHandlesCountNothing ==
    ASSUME ObjectInv, NEW w \in Workers, Handle(w),
           ~AddToConnection(w), ~AddToProcess(w), ~AddToInterface(w)
    PROVE  NothingCounted
<1> USE DEF tables, objects
<1>a. /\ TypeInv /\ OwnerInv /\ ProcessOnceInv /\ ConnectionOnceInv
      /\ process \in [Ids -> Processes] /\ connection \in [Ids -> ConnectionObjects]
      /\ JobOK(job[w])
  BY DEF ObjectInv, TypeInv, TypeOK, FieldsOK
<1>b. \A v \in Workers : IF job[v].pc \in AddPCs THEN job'[v] = job[v] ELSE job'[v].pc \notin AddPCs
  <2>1. /\ \A v \in Workers \ {w} : job'[v] = job[v]
        /\ job[w].pc \notin AddPCs /\ job'[w].pc \notin AddPCs
    BY <1>a, OwnJobOnly DEF AddPCs
  <2> QED  BY <2>1
<1>c. UNCHANGED <<interface, unknown>>
  BY DEF Handle, LoadOrStoreProcess, EnterProcessInit, StampProcess, InitProcess,
         DropUnknownProcess, LoadOrStoreConnection, EnterConnectionInit, StampConnection,
         InitConnection, LockRefresh, StoreLine, LoadLine, RewriteInfo, EndScan,
         AssignConnectionInfo, SkipConnection, PassConnection, LoadClosingProcess,
         CloseConnection, ForgetClosedInode, ExitProcess
<1>1. CASE UNCHANGED <<process, connection>>
  BY <1>1, <1>b, <1>c DEF NothingCounted
<1>2. ASSUME NEW o, process' = [process EXCEPT ![job[w].bp] = o], UNCHANGED connection,
             o.bytes = process[job[w].bp].bytes
      PROVE  NothingCounted
  <2>1. \A n \in Ids : process'[n].bytes = process[n].bytes
    BY <1>2, <1>a
  <2> QED  BY <1>2, <1>b, <1>c, <2>1 DEF NothingCounted
<1>3. ASSUME NEW c \in Ids, NEW o, connection' = [connection EXCEPT ![c] = o],
             UNCHANGED process, o.bytes = connection[c].bytes, connection[c].once # "done"
      PROVE  NothingCounted
  <2>1. connection'[c] = o /\ \A d \in Ids \ {c} : connection'[d] = connection[d]
    BY <1>3, <1>a
  <2> QED  BY <1>3, <1>b, <1>c, <2>1 DEF NothingCounted
<1>4. CASE LoadOrStoreConnection(w)
  <2>1. UNCHANGED process
    BY <1>4 DEF LoadOrStoreConnection
  <2>2. CASE Connections[job[w].bp][job[w].ev.fd] = Nil
    <3> DEFINE c == job[w].id
               o == [connection[c] EXCEPT !.type = job[w].ev.type, !.owner = job[w].bp]
    <3>1. /\ connection' = [connection EXCEPT ![c].type = job[w].ev.type,
                                             ![c].owner = job[w].bp]
          /\ c \in Ids /\ connection[c].once = "new"
      BY <1>a, <1>4, <2>2 DEF LoadOrStoreConnection, JobOK, ObjectInv, IdsInv, OwnerInv, ProcessPCs
    <3>2. connection' = [connection EXCEPT ![c] = o]
      BY <1>a, <3>1
    <3>3. o.bytes = connection[c].bytes
      BY <1>a, <3>1 DEF ConnectionObjects
    <3> QED  BY <1>3, <2>1, <3>1, <3>2, <3>3
  <2> QED  BY <1>1, <1>4, <2>1, <2>2 DEF LoadOrStoreConnection
<1>5. CASE EnterProcessInit(w) \/ StampProcess(w) \/ InitProcess(w)
  <2> DEFINE o == process[job[w].bp]
  <2>1. job[w].bp \in Ids /\ UNCHANGED connection
    BY <1>a, <1>5 DEF EnterProcessInit, StampProcess, InitProcess, JobOK, ProcessPCs
  <2>2. CASE EnterProcessInit(w)
    <3>1. process' = [process EXCEPT ![job[w].bp] = [o EXCEPT !.once = "torn"]]
      BY <1>a, <2>1, <2>2 DEF EnterProcessInit
    <3>2. [o EXCEPT !.once = "torn"].bytes = o.bytes
      BY <1>a, <2>1 DEF Processes
    <3> QED  BY <1>2, <2>1, <3>1, <3>2
  <2>3. CASE StampProcess(w)
    <3>1. process' = [process EXCEPT ![job[w].bp] = [o EXCEPT !.once = "running", !.age = 0]]
      BY <1>a, <2>1, <2>3 DEF StampProcess
    <3>2. [o EXCEPT !.once = "running", !.age = 0].bytes = o.bytes
      BY <1>a, <2>1 DEF Processes
    <3> QED  BY <1>2, <2>1, <3>1, <3>2
  <2>4. CASE InitProcess(w)
    <3>1. PICK found \in BOOLEAN : process' = [process EXCEPT ![job[w].bp] =
                                        [o EXCEPT !.once = "done", !.real = found]]
      BY <1>a, <2>1, <2>4 DEF InitProcess
    <3>2. [o EXCEPT !.once = "done", !.real = found].bytes = o.bytes
      BY <1>a, <2>1 DEF Processes
    <3> QED  BY <1>2, <2>1, <3>1, <3>2
  <2> QED  BY <1>5, <2>2, <2>3, <2>4
<1>7. CASE EnterConnectionInit(w) \/ StampConnection(w) \/ AssignConnectionInfo(w)
  <2>1. /\ UNCHANGED process /\ job[w].pc \in ConnectionPCs
        /\ connection[job[w].bc].once # "done"
    BY <1>a, <1>7 DEF EnterConnectionInit, StampConnection, AssignConnectionInfo,
                      ConnectionOnceInv, ResolvePCs, ConnectionPCs
  <2>2. job[w].bc \in Ids
    BY <1>a, <2>1 DEF JobOK
  <2> DEFINE o == connection[job[w].bc]
  <2>3. CASE EnterConnectionInit(w)
    <3>1. connection' = [connection EXCEPT ![job[w].bc] = [o EXCEPT !.once = "torn"]]
      BY <1>a, <2>2, <2>3 DEF EnterConnectionInit
    <3>2. [o EXCEPT !.once = "torn"].bytes = o.bytes
      BY <1>a, <2>2 DEF ConnectionObjects
    <3> QED  BY <1>3, <2>1, <2>2, <3>1, <3>2
  <2>4. CASE StampConnection(w)
    <3>1. connection' = [connection EXCEPT ![job[w].bc] = [o EXCEPT !.once = "running", !.age = 0]]
      BY <1>a, <2>2, <2>4 DEF StampConnection
    <3>2. [o EXCEPT !.once = "running", !.age = 0].bytes = o.bytes
      BY <1>a, <2>2 DEF ConnectionObjects
    <3> QED  BY <1>3, <2>1, <2>2, <3>1, <3>2
  <2>5. CASE AssignConnectionInfo(w)
    <3> DEFINE t == IF job[w].info = NoInfo THEN o.type ELSE "socket"
               n == [o EXCEPT !.once = "done", !.info = job[w].info, !.type = t]
    <3>1. connection' = [connection EXCEPT ![job[w].bc] = n]
      BY <2>5 DEF AssignConnectionInfo
    <3>2. n.bytes = o.bytes
      BY <1>a, <2>2 DEF ConnectionObjects
    <3> HIDE DEF n
    <3> QED  BY <1>3, <2>1, <2>2, <3>1, <3>2
  <2> QED  BY <1>7, <2>3, <2>4, <2>5
<1>8. CASE Resolve(w)
  BY <1>a, <1>1, <1>8, ResolveShape
<1>9. CASE \/ LoadOrStoreProcess(w) \/ DropUnknownProcess(w) \/ SkipConnection(w)
           \/ PassConnection(w) \/ LoadClosingProcess(w)
           \/ CloseConnection(w) \/ ForgetClosedInode(w) \/ ExitProcess(w)
  BY <1>1, <1>9 DEF LoadOrStoreProcess, DropUnknownProcess, SkipConnection, PassConnection,
                    LoadClosingProcess, CloseConnection, ForgetClosedInode, ExitProcess
<1> QED  BY <1>4, <1>5, <1>7, <1>8, <1>9 DEF Handle, Resolve

LEMMA SnapshotCountsNothing == ASSUME ObjectInv, SnapshotStep PROVE NothingCounted
<1> USE DEF tables, objects
<1>a. /\ process \in [Ids -> Processes] /\ connection \in [Ids -> ConnectionObjects]
      /\ interface \in [Ifaces -> Interfaces]
  BY DEF ObjectInv, TypeInv, TypeOK
<1>1. /\ UNCHANGED <<job, unknown>>
      /\ UNCHANGED connection \/ \E c : connection' = [connection EXCEPT ![c] = takeSnapshot(@)]
      /\ UNCHANGED process \/ \E n : process' = [process EXCEPT ![n] = takeSnapshot(@)]
      /\ UNCHANGED interface \/ interface' = [i \in Ifaces |-> takeSnapshot(interface[i])]
  BY DEF SnapshotStep, StartPass, VisitProcess, EvictProcess, VisitConnection,
         EvictConnection, ForgetIdleInode, FinishProcess, SnapshotInterfaces, FinishPass
<1>2. /\ \A o \in ConnectionObjects : LET t == takeSnapshot(o) IN t.bytes = o.bytes /\ t.owner = o.owner
      /\ \A o \in Processes \cup Interfaces : takeSnapshot(o).bytes = o.bytes
  BY DEF takeSnapshot, ConnectionObjects, Processes, Interfaces
<1>3. /\ \A c \in Ids : connection'[c] \in {connection[c], takeSnapshot(connection[c])}
      /\ \A n \in Ids : process'[n] \in {process[n], takeSnapshot(process[n])}
      /\ \A i \in Ifaces : interface'[i] \in {interface[i], takeSnapshot(interface[i])}
  BY <1>a, <1>1
<1>4. /\ \A c \in Ids : connection'[c].bytes = connection[c].bytes /\ connection'[c].owner = connection[c].owner
      /\ \A n \in Ids : process'[n].bytes = process[n].bytes
      /\ \A i \in Ifaces : interface'[i].bytes = interface[i].bytes
  BY <1>a, <1>2, <1>3
<1> QED  BY <1>1, <1>4 DEF NothingCounted

LEMMA TickCountsNothing == ASSUME ObjectInv, Tick PROVE NothingCounted
<1>1. process \in [Ids -> Processes] /\ connection \in [Ids -> ConnectionObjects]
  BY DEF ObjectInv, TypeInv, TypeOK
<1>2. \A n \in Ids : process'[n].bytes = process[n].bytes
  BY <1>1 DEF Tick, Older, Processes
<1>3. \A c \in Ids : /\ connection'[c].bytes = connection[c].bytes
                     /\ connection'[c].owner = connection[c].owner
  BY <1>1 DEF Tick, Older, ConnectionObjects
<1> QED  BY <1>2, <1>3 DEF Tick, NothingCounted

LEMMA NextTotalsInv == ObjectInv /\ TotalsInv /\ [Next]_vars => TotalsInv'
<1> SUFFICES ASSUME ObjectInv, TotalsInv, [Next]_vars PROVE TotalsInv'
  OBVIOUS
<1>1. CASE UNCHANGED vars
  BY <1>1, TotalsFrame DEF vars, NothingCounted
<1>2. ASSUME NEW w \in Workers, Receive(w) PROVE TotalsInv'
  <2>1. /\ \A v \in Workers \ {w} : job'[v] = job[v]
        /\ job[w].pc \notin AddPCs /\ job'[w].pc \notin AddPCs
        /\ UNCHANGED <<process, connection, interface, unknown>>
    <3>1. job[w].pc = "receive"
      BY <1>2 DEF Receive
    <3> QED  BY <1>2, <3>1, OwnJobOnly DEF Receive, objects, ObjectInv, AddPCs,
                AddToConnection, AddToProcess
  <2>2. NothingCounted
    BY <2>1 DEF NothingCounted
  <2> QED  BY <2>2, TotalsFrame
<1>3. ASSUME NEW w \in Workers, Handle(w) PROVE TotalsInv'
  BY <1>3, AddToConnectionTotals, AddToProcessTotals, AddToInterfaceTotals,
     OtherHandlesCountNothing, TotalsFrame
<1> QED  BY <1>1, <1>2, <1>3, SnapshotCountsNothing, TickCountsNothing, TotalsFrame DEF Next

LEMMA InitTotalsInv == Init => TotalsInv
<1> SUFFICES ASSUME Init PROVE TotalsInv
  OBVIOUS
<1>1. /\ \A w \in Workers : job[w].pc = "receive"
      /\ \A n \in Ids : process[n].bytes = 0 /\ connection[n].bytes = 0
      /\ \A i \in Ifaces : interface[i].bytes = 0
      /\ unknown = 0
  BY DEF Init, Waiting, NewProcess, NewConnection, NewInterface
<1>2. IsFiniteSet(Ids) /\ IsFiniteSet({})
  BY BoundsAssumption, FS_Interval, FS_EmptySet DEF Ids
<1>3. InFlight({}) = 0
  BY <1>2, SumStep DEF InFlight
<1>4. ASSUME NEW S \in SUBSET Ids PROVE Counted(S) = 0
  <2> DEFINE b == [c \in Ids |-> connection[c].bytes]
  <2>1. (\A c \in S : b[c] = 0) /\ (\A c \in Ids : Part(b, S, c) = Part(b, {}, c))
    BY <1>1, <1>4 DEF Part
  <2> HIDE DEF b
  <2>2. SumFunctionOnSet(b, S) = SumFunctionOnSet(b, {})
    BY <1>2, <2>1, SumsAgree
  <2>3. SumFunctionOnSet(b, {}) = 0
    BY <1>2, SumStep
  <2> QED  BY <2>2, <2>3 DEF Counted, b
<1>5. ASSUME NEW n \in Ids PROVE AddingTo(n) = {} /\ Counted(OwnedBy(n)) = 0
  BY <1>1, <1>4 DEF AddingTo, OwnedBy
<1>6. Counting = {} /\ Counted(Ids) = 0
  BY <1>1, <1>4 DEF Counting, AddPCs
<1>7. ASSUME NEW n \in Ids PROVE process[n].bytes + InFlight(AddingTo(n)) = Counted(OwnedBy(n))
  <2>1. process[n].bytes = 0 /\ InFlight(AddingTo(n)) = 0 /\ Counted(OwnedBy(n)) = 0
    BY <1>1, <1>3, <1>5
  <2> QED  BY ONLY <2>1
<1>8. OfInterfaces = 0
  <2> DEFINE f == [i \in Ifaces |-> interface[i].bytes]
  <2>1. (\A i \in Ifaces : f[i] = 0) /\ (\A i \in Ifaces : Part(f, Ifaces, i) = Part(f, {}, i))
    BY <1>1 DEF Part
  <2> HIDE DEF f
  <2>2. SumFunctionOnSet(f, Ifaces) = SumFunctionOnSet(f, {})
    BY <2>1, IfacesAssumption, SumsAgree
  <2>3. SumFunctionOnSet(f, {}) = 0
    BY <1>2, SumStep
  <2> QED  BY <2>2, <2>3 DEF OfInterfaces, f
<1>9. OfInterfaces + unknown + InFlight(Counting) = Counted(Ids)
  BY <1>1, <1>3, <1>6, <1>8
<1> QED  BY <1>7, <1>9 DEF TotalsInv, ProcessTotalsAgree, InterfaceTotalsAgree,
            AddingTo, OwnedBy, Counting, AddPCs

(* The bytes a process has counted are those its connections have counted, *)
(* but for the events in the middle of a handler: no interleaving of the   *)
(* workers, the eviction and the closing of connections loses or doubles   *)
(* an update, and a connection never changes hands.                        *)
THEOREM ProcessTotalsAlwaysAgree == Spec => []ProcessTotalsAgree
<1>1. TotalsInv => ProcessTotalsAgree
  BY DEF TotalsInv
<1> QED  BY <1>1, InitTotalsInv, NextTotalsInv, ObjectInvariant, PTL DEF Spec

(* Every byte a connection counts is counted by one interface, or by none  *)
(* if no interface has the address at that moment (event.go reads it anew  *)
(* for every event, while a scan may be rewriting it): the interfaces lose *)
(* and double nothing.                                                     *)
THEOREM InterfaceTotalsAlwaysAgree == Spec => []InterfaceTotalsAgree
<1>1. TotalsInv => InterfaceTotalsAgree
  BY DEF TotalsInv
<1> QED  BY <1>1, InitTotalsInv, NextTotalsInv, ObjectInvariant, PTL DEF Spec

-----------------------------------------------------------------------------
(* The passes of the snapshot worker.  No table holds a fresh name, so an  *)
(* entry that a worker adds in the middle of a pass is not due.            *)

Fresh(n) == n > received \/ \E w \in Workers : job[w].pc = "rw" /\ job[w].id = n

FreshInv == \A n \in Ids : Fresh(n) =>
    /\ \A p \in Pids : ProcessesMap[p] # n
    /\ \A w \in Workers : job[w].bp # n
    /\ \A f \in FDs : Connections[n][f] = Nil

(* The handlers but for the two that allocate.                             *)
LEMMA OtherHandlesAllocateNothing ==
    ASSUME TypeInv, NEW w \in Workers, Handle(w),
           ~LoadOrStoreProcess(w), ~LoadOrStoreConnection(w)
    PROVE  /\ UNCHANGED received
           /\ \A v \in Workers \ {w} : job'[v] = job[v]
           /\ job'[w].pc # "rw"
           /\ job'[w].bp \in {job[w].bp, Nil} \cup {ProcessesMap[p] : p \in Pids}
           /\ \A p \in Pids : ProcessesMap'[p] \in {ProcessesMap[p], Nil}
           /\ \A n \in Ids, f \in FDs : Connections'[n][f] \in {Connections[n][f], Nil}
<1> USE DEF tables, objects
<1>a. /\ job \in [Workers -> Jobs] /\ JobOK(job[w])
      /\ ProcessesMap \in [Pids -> Ids \cup {Nil}]
      /\ Connections \in [Ids -> [FDs -> Ids \cup {Nil}]]
  BY DEF TypeInv, TypeOK, FieldsOK
<1>b. ASSUME NEW x, Step(w, x)
      PROVE  /\ job'[w].pc = x /\ job'[w].bp = job[w].bp
             /\ \A v \in Workers \ {w} : job'[v] = job[v]
  BY <1>a, <1>b DEF Step, Jobs
<1>c. ASSUME Return(w)
      PROVE  /\ job'[w].pc = "receive" /\ job'[w].bp = Nil
             /\ \A v \in Workers \ {w} : job'[v] = job[v]
  BY <1>a, <1>c DEF Return, Waiting
<1>1. CASE EnterProcessInit(w) \/ StampProcess(w) \/ InitProcess(w) \/ DropUnknownProcess(w)
  BY <1>1, <1>b, <1>c DEF EnterProcessInit, StampProcess, InitProcess, DropUnknownProcess
<1>2. CASE EnterConnectionInit(w) \/ StampConnection(w)
  BY <1>2, <1>b DEF EnterConnectionInit, StampConnection
<1>3. CASE Resolve(w)
  BY <1>3, ResolveShape DEF ResolvePCs
<1>4. CASE AssignConnectionInfo(w)
  BY <1>a, <1>4 DEF AssignConnectionInfo, Jobs
<1>5. CASE SkipConnection(w) \/ PassConnection(w)
  BY <1>5, <1>b, <1>c DEF SkipConnection, PassConnection
<1>6. CASE AddToConnection(w) \/ AddToProcess(w)
  BY <1>6, <1>b DEF AddToConnection, AddToProcess
<1>7. CASE AddToInterface(w)
  BY <1>7, <1>c DEF AddToInterface
<1>8. CASE LoadClosingProcess(w)
  <2>0. UNCHANGED <<ProcessesMap, Connections, received>>
    BY <1>8 DEF LoadClosingProcess
  <2>1. CASE Return(w)
    BY <2>0, <2>1, <1>c
  <2>2. CASE job' = [job EXCEPT ![w].pc = "closeConnection",
                               ![w].bp = ProcessesMap[job[w].ev.pid]]
    <3>1. job[w].ev.pid \in Pids
      BY <1>a, <1>8 DEF LoadClosingProcess, JobOK, CloseEvents
    <3> QED  BY <1>a, <2>0, <2>2, <3>1 DEF Jobs
  <2> QED  BY <1>8, <2>1, <2>2 DEF LoadClosingProcess
<1>9. CASE CloseConnection(w)
  <2>0. UNCHANGED <<ProcessesMap, received>>
    BY <1>9 DEF CloseConnection
  <2>1. \A n \in Ids, f \in FDs : Connections'[n][f] \in {Connections[n][f], Nil}
    BY <1>a, <1>9 DEF CloseConnection
  <2>2. CASE Return(w)
    BY <2>0, <2>1, <2>2, <1>c
  <2>3. ASSUME NEW x, job' = [job EXCEPT ![w].pc = "closeInfo", ![w].bc = x]
        PROVE  /\ job'[w].pc # "rw" /\ job'[w].bp = job[w].bp
               /\ \A v \in Workers \ {w} : job'[v] = job[v]
    BY <1>a, <2>3 DEF Jobs
  <2> QED  BY <1>9, <2>0, <2>1, <2>2, <2>3 DEF CloseConnection
<1>10. CASE ForgetClosedInode(w) \/ ExitProcess(w)
  BY <1>a, <1>10, <1>c DEF ForgetClosedInode, ExitProcess
<1> QED
  BY <1>1, <1>2, <1>3, <1>4, <1>5, <1>6, <1>7, <1>8, <1>9, <1>10 DEF Handle, Resolve

LEMMA SnapshotAllocatesNothing ==
    ASSUME TypeInv, SnapshotStep
    PROVE  /\ UNCHANGED <<received, job>>
           /\ \A p \in Pids : ProcessesMap'[p] \in {ProcessesMap[p], Nil}
           /\ \A n \in Ids, f \in FDs : Connections'[n][f] \in {Connections[n][f], Nil}
<1> USE DEF tables, objects
<1>a. /\ ProcessesMap \in [Pids -> Ids \cup {Nil}]
      /\ Connections \in [Ids -> [FDs -> Ids \cup {Nil}]]
  BY DEF TypeInv, TypeOK
<1>1. CASE EvictProcess
  BY <1>a, <1>1 DEF EvictProcess
<1>2. CASE EvictConnection
  BY <1>a, <1>2 DEF EvictConnection
<1>3. CASE ForgetIdleInode \/ FinishProcess \/ SnapshotInterfaces \/ FinishPass \/ StartPass
  BY <1>3 DEF ForgetIdleInode, FinishProcess, SnapshotInterfaces, FinishPass, StartPass
<1>4. ASSUME NEW p \in Pids, VisitProcess(p) PROVE UNCHANGED <<received, job, tables>>
  BY <1>4 DEF VisitProcess
<1>5. ASSUME NEW f \in FDs, VisitConnection(f) PROVE UNCHANGED <<received, job, tables>>
  BY <1>5 DEF VisitConnection
<1> QED  BY <1>1, <1>2, <1>3, <1>4, <1>5 DEF SnapshotStep

(* A fresh name stays unused while nothing is allocated.                   *)
LEMMA FreshFrame ==
    ASSUME TypeInv, FreshInv, \A n \in Ids : Fresh(n)' => Fresh(n),
           \A w \in Workers : job'[w].bp \in {job[w].bp, Nil} \cup {ProcessesMap[p] : p \in Pids},
           \A p \in Pids : ProcessesMap'[p] \in {ProcessesMap[p], Nil},
           \A n \in Ids, f \in FDs : Connections'[n][f] \in {Connections[n][f], Nil}
    PROVE  FreshInv'
<1> SUFFICES ASSUME NEW n \in Ids, Fresh(n)'
             PROVE  /\ \A p \in Pids : ProcessesMap'[p] # n
                    /\ \A w \in Workers : job'[w].bp # n
                    /\ \A f \in FDs : Connections'[n][f] = Nil
  BY DEF FreshInv
<1>1. /\ \A p \in Pids : ProcessesMap[p] # n
      /\ \A w \in Workers : job[w].bp # n
      /\ \A f \in FDs : Connections[n][f] = Nil
  BY DEF FreshInv
<1> QED  BY <1>1, IdsAreNonNil

LEMMA NextFreshInv == ObjectInv /\ FreshInv /\ [Next]_vars => FreshInv'
<1> SUFFICES ASSUME ObjectInv, FreshInv, [Next]_vars PROVE FreshInv'
  OBVIOUS
<1> USE DEF tables, objects
<1>a. /\ TypeInv /\ IdsInv /\ job \in [Workers -> Jobs] /\ received \in 0 .. MaxEvents
      /\ ProcessesMap \in [Pids -> Ids \cup {Nil}]
      /\ Connections \in [Ids -> [FDs -> Ids \cup {Nil}]]
      /\ \A w \in Workers : JobOK(job[w])
  BY DEF ObjectInv, TypeInv, TypeOK, FieldsOK
<1>1. CASE UNCHANGED vars
  BY <1>1, <1>a, FreshFrame DEF vars, Fresh
<1>2. ASSUME NEW w \in Workers, Receive(w) PROVE FreshInv'
  <2>1. /\ job'[w].id = received + 1 /\ job'[w].bp = Nil /\ received' = received + 1
        /\ \A v \in Workers \ {w} : job'[v] = job[v]
        /\ UNCHANGED tables
    <3>1. PICK e \in Events :
             job' = [job EXCEPT ![w] = [Waiting EXCEPT !.pc = e.kind, !.ev = e, !.id = received']]
      BY <1>2 DEF Receive
    <3>2. job'[w] = [Waiting EXCEPT !.pc = e.kind, !.ev = e, !.id = received']
      BY <1>a, <3>1
    <3>3. job'[w].id = received' /\ job'[w].bp = Nil
      BY <3>2 DEF Waiting
    <3> QED  BY <1>a, <1>2, <3>1, <3>3 DEF Receive
  <2>2. ASSUME NEW n \in Ids, Fresh(n)' PROVE Fresh(n)
    <3>1. CASE n > received'
      BY <1>a, <2>1, <3>1, BoundsAssumption DEF Ids, Fresh
    <3>2. CASE job'[w].id = n
      BY <1>a, <2>1, <3>2, BoundsAssumption DEF Fresh
    <3>3. ASSUME NEW v \in Workers \ {w}, job'[v].pc = "rw" /\ job'[v].id = n PROVE Fresh(n)
      BY <2>1, <3>3 DEF Fresh
    <3> QED  BY <2>2, <3>1, <3>2, <3>3 DEF Fresh
  <2>3. \A v \in Workers : job'[v].bp \in {job[v].bp, Nil}
    BY <2>1
  <2> QED  BY <1>a, <2>1, <2>2, <2>3, FreshFrame
<1>3. ASSUME NEW w \in Workers, LoadOrStoreProcess(w) PROVE FreshInv'
  <2> DEFINE pid == job[w].ev.pid
             bp  == IF ProcessesMap[pid] = Nil THEN job[w].id ELSE ProcessesMap[pid]
  <2>1. /\ job[w].pc = "rw" /\ pid \in Pids /\ job[w].id \in Ids
        /\ ProcessesMap' = [ProcessesMap EXCEPT ![pid] = bp]
        /\ job' = [job EXCEPT ![w].pc = "process", ![w].bp = bp]
        /\ UNCHANGED <<Connections, received>>
    BY <1>a, <1>3 DEF LoadOrStoreProcess, JobOK, RWEvents
  <2>2. /\ job'[w].pc = "process" /\ job'[w].bp = bp
        /\ \A v \in Workers \ {w} : job'[v] = job[v]
    BY <1>a, <2>1 DEF Jobs
  <2>3. bp \in {job[w].id, ProcessesMap[pid]}
    OBVIOUS
  <2>4. \A p \in Pids : ProcessesMap'[p] \in {ProcessesMap[p], bp}
    BY <1>a, <2>1
  <2> HIDE DEF bp
  <2>5. ASSUME NEW n \in Ids, Fresh(n)'
        PROVE  Fresh(n) /\ n # job[w].id
    <3>1. CASE n > received
      BY <1>a, <2>1, <3>1, BoundsAssumption DEF Fresh, IdsInv, Ids
    <3>2. CASE \E v \in Workers \ {w} : job[v].pc = "rw" /\ job[v].id = n
      BY <1>a, <2>1, <3>2 DEF Fresh, IdsInv
    <3>3. UNCHANGED received
      BY <2>1
    <3>4. n > received \/ \E v \in Workers \ {w} : job[v].pc = "rw" /\ job[v].id = n
      BY <2>2, <2>5, <3>3 DEF Fresh
    <3> QED  BY <3>1, <3>2, <3>4
  <2>6. ASSUME NEW n \in Ids, Fresh(n)'
        PROVE  /\ \A p \in Pids : ProcessesMap'[p] # n
               /\ \A v \in Workers : job'[v].bp # n
               /\ \A f \in FDs : Connections'[n][f] = Nil
    <3>1. /\ \A p \in Pids : ProcessesMap[p] # n
          /\ \A v \in Workers : job[v].bp # n
          /\ \A f \in FDs : Connections[n][f] = Nil
          /\ bp # n
      BY <2>1, <2>3, <2>5, <2>6 DEF FreshInv
    <3> QED  BY <2>1, <2>2, <2>4, <3>1
  <2> QED  BY <2>6 DEF FreshInv
<1>4. ASSUME NEW w \in Workers, LoadOrStoreConnection(w) PROVE FreshInv'
  <2>1. /\ job[w].pc = "process" /\ UNCHANGED <<ProcessesMap, received>>
        /\ \E x : Connections' = [Connections EXCEPT ![job[w].bp][job[w].ev.fd] = x]
        /\ \E x : job' = [job EXCEPT ![w].pc = "connection", ![w].bc = x]
    BY <1>4 DEF LoadOrStoreConnection
  <2>2. /\ job'[w].pc = "connection" /\ job'[w].bp = job[w].bp
        /\ \A v \in Workers \ {w} : job'[v] = job[v]
    BY <1>a, <2>1 DEF Jobs
  <2>3. \A n \in Ids : n # job[w].bp => Connections'[n] = Connections[n]
    BY <1>a, <2>1
  <2>4. ASSUME NEW n \in Ids, Fresh(n)'
        PROVE  /\ \A p \in Pids : ProcessesMap'[p] # n
               /\ \A v \in Workers : job'[v].bp # n
               /\ \A f \in FDs : Connections'[n][f] = Nil
    <3>1. Fresh(n)
      BY <2>1, <2>2, <2>4 DEF Fresh
    <3>2. /\ \A p \in Pids : ProcessesMap[p] # n
          /\ \A v \in Workers : job[v].bp # n
          /\ \A f \in FDs : Connections[n][f] = Nil
      BY <3>1 DEF FreshInv
    <3>3. UNCHANGED ProcessesMap
      BY <2>1
    <3>4. Connections'[n] = Connections[n]
      BY <2>3, <3>2
    <3> QED  BY <2>2, <3>2, <3>3, <3>4
  <2> QED  BY <2>4 DEF FreshInv
<1>5. ASSUME NEW w \in Workers, Handle(w), ~LoadOrStoreProcess(w), ~LoadOrStoreConnection(w)
      PROVE  FreshInv'
  <2>1. /\ UNCHANGED received
        /\ \A v \in Workers \ {w} : job'[v] = job[v]
        /\ job'[w].pc # "rw"
        /\ job'[w].bp \in {job[w].bp, Nil} \cup {ProcessesMap[p] : p \in Pids}
        /\ \A p \in Pids : ProcessesMap'[p] \in {ProcessesMap[p], Nil}
        /\ \A n \in Ids, f \in FDs : Connections'[n][f] \in {Connections[n][f], Nil}
    BY <1>5, <1>a, OtherHandlesAllocateNothing
  <2>2. \A n \in Ids : Fresh(n)' => Fresh(n)
    BY <2>1 DEF Fresh
  <2>3. \A v \in Workers : job'[v].bp \in {job[v].bp, Nil} \cup {ProcessesMap[p] : p \in Pids}
    BY <2>1
  <2> QED  BY <1>a, <2>1, <2>2, <2>3, FreshFrame
<1>6. CASE SnapshotStep
  <2>1. \A n \in Ids : Fresh(n)' => Fresh(n)
    BY <1>6, <1>a, SnapshotAllocatesNothing DEF Fresh
  <2> QED  BY <1>6, <1>a, <2>1, SnapshotAllocatesNothing, FreshFrame
<1>7. CASE Tick
  BY <1>7, <1>a, FreshFrame DEF Tick, Fresh
<1> QED  BY <1>1, <1>2, <1>3, <1>4, <1>5, <1>6, <1>7 DEF Next

(* Where in its pass the snapshot worker still comes to the entry f of the *)
(* process n of the pid p, which holds the connection c.                   *)
Covered(p, f, n, c) ==
    \/ p \in snap.pids /\ n \in snap.old
    \/ snap.pc = "evictProcess" /\ snap.pid = p
    \/ /\ snap.pc \in {"connections", "evictConnection", "forgetInode"}
       /\ snap.bp = n /\ f \in snap.fds /\ c \in snap.oldConns
    \/ snap.pc = "evictConnection" /\ snap.bp = n /\ snap.fd = f

(* It comes to every connection that is due and that is still in its maps. *)
DueInv ==
    /\ \A c \in due : connection[c].bytes > 0
    /\ snap.pc = "unlock" => snap.old = {}
    /\ \A p \in Pids, f \in FDs :
         LET n == ProcessesMap[p]
         IN  n # Nil /\ Connections[n][f] \in due => Covered(p, f, n, Connections[n][f])

(* A step of a worker: what was removed from the maps needs no visit, what *)
(* was added is not due.                                                   *)
LEMMA DueFrame ==
    ASSUME DueInv, UNCHANGED <<snap, due>>,
           \A c \in due : connection'[c].bytes > 0,
           \A p \in Pids, f \in FDs :
              ProcessesMap'[p] # Nil /\ Connections'[ProcessesMap'[p]][f] \in due
                => ProcessesMap'[p] = ProcessesMap[p]
                   /\ Connections'[ProcessesMap[p]][f] = Connections[ProcessesMap[p]][f]
    PROVE  DueInv'
<1>1. ASSUME NEW p \in Pids, NEW f \in FDs, ProcessesMap'[p] # Nil,
             Connections'[ProcessesMap'[p]][f] \in due
      PROVE  Covered(p, f, ProcessesMap[p], Connections[ProcessesMap[p]][f])
  BY <1>1 DEF DueInv
<1>2. ASSUME NEW p \in Pids, NEW f \in FDs, ProcessesMap'[p] # Nil,
             Connections'[ProcessesMap'[p]][f] \in due
      PROVE  Covered(p, f, ProcessesMap[p], Connections[ProcessesMap[p]][f])'
  <2>1. /\ ProcessesMap'[p] = ProcessesMap[p]
        /\ Connections'[ProcessesMap[p]][f] = Connections[ProcessesMap[p]][f]
    BY <1>2
  <2> QED  BY <1>1, <1>2, <2>1 DEF Covered
<1> QED  BY <1>2 DEF DueInv

LEMMA HandleDueInv ==
    ASSUME ObjectInv, FreshInv, DueInv, NEW w \in Workers, Handle(w) PROVE DueInv'
<1> USE DEF tables, objects
<1>a. /\ TypeInv /\ IdsInv /\ job \in [Workers -> Jobs] /\ due \subseteq Ids
      /\ ProcessesMap \in [Pids -> Ids \cup {Nil}]
      /\ Connections \in [Ids -> [FDs -> Ids \cup {Nil}]]
      /\ connection \in [Ids -> ConnectionObjects] /\ JobOK(job[w])
  BY DEF ObjectInv, TypeInv, TypeOK, FieldsOK
<1>b. UNCHANGED <<snap, due>>
  BY DEF Handle, LoadOrStoreProcess, EnterProcessInit, StampProcess, InitProcess,
         DropUnknownProcess, LoadOrStoreConnection, EnterConnectionInit, StampConnection,
         InitConnection, LockRefresh, StoreLine, LoadLine, RewriteInfo, EndScan,
         AssignConnectionInfo, SkipConnection, PassConnection,
         AddToConnection, AddToProcess, AddToInterface,
         LoadClosingProcess, CloseConnection, ForgetClosedInode, ExitProcess
<1>c. \A c \in due : connection'[c].bytes > 0
  <2>1. CASE AddToConnection(w)
    <3>1. /\ job[w].bc \in Ids /\ job[w].ev.size \in Nat
          /\ connection' = [connection EXCEPT ![job[w].bc] = Add(@, job[w].ev.size)]
      BY <1>a, <2>1, SizesAssumption DEF AddToConnection, JobOK, ConnectionPCs, RWEvents
    <3>2. /\ connection'[job[w].bc].bytes = connection[job[w].bc].bytes + job[w].ev.size
          /\ \A c \in Ids \ {job[w].bc} : connection'[c] = connection[c]
      BY <1>a, <3>1 DEF Add, ConnectionObjects
    <3>3. \A c \in Ids : connection[c].bytes \in Nat
      BY <1>a DEF ConnectionObjects
    <3> QED  BY <1>a, <3>1, <3>2, <3>3 DEF DueInv
  <2>2. CASE AddToProcess(w) \/ AddToInterface(w)
    BY <2>2 DEF AddToProcess, AddToInterface, DueInv
  <2>3. CASE ~AddToConnection(w) /\ ~AddToProcess(w) /\ ~AddToInterface(w)
    BY <1>a, <2>3, OtherHandlesCountNothing DEF NothingCounted, DueInv
  <2> QED  BY <2>1, <2>2, <2>3
<1>d. Nil \notin due
  BY <1>a, IdsAreNonNil
<1>1. CASE LoadOrStoreProcess(w)
  <2> DEFINE pid == job[w].ev.pid
  <2>1. /\ job[w].pc = "rw" /\ pid \in Pids /\ job[w].id \in Ids /\ UNCHANGED Connections
        /\ ProcessesMap' = [ProcessesMap EXCEPT ![pid] =
                              IF ProcessesMap[pid] = Nil THEN job[w].id ELSE ProcessesMap[pid]]
    BY <1>a, <1>1 DEF LoadOrStoreProcess, JobOK, RWEvents
  <2>2. \A p \in Pids : \/ ProcessesMap'[p] = ProcessesMap[p]
                         \/ ProcessesMap'[p] = job[w].id
    BY <1>a, <2>1
  <2>3. \A f \in FDs : Connections[job[w].id][f] = Nil
    <3>1. Fresh(job[w].id)
      BY <2>1 DEF Fresh
    <3> QED  BY <2>1, <3>1 DEF FreshInv
  <2> QED  BY <1>b, <1>c, <1>d, <2>1, <2>2, <2>3, DueFrame
<1>2. CASE LoadOrStoreConnection(w)
  <2> DEFINE bp == job[w].bp
             fd == job[w].ev.fd
  <2>1. /\ job[w].pc = "process" /\ bp \in Ids /\ fd \in FDs /\ job[w].id \in Ids
        /\ UNCHANGED ProcessesMap
        /\ Connections' = [Connections EXCEPT ![bp][fd] =
                             IF Connections[bp][fd] = Nil THEN job[w].id ELSE Connections[bp][fd]]
    BY <1>a, <1>2 DEF LoadOrStoreConnection, JobOK, RWEvents, ProcessPCs
  <2>2. \A n \in Ids, f \in FDs : \/ Connections'[n][f] = Connections[n][f]
                                  \/ Connections'[n][f] = job[w].id
    BY <1>a, <2>1
  <2>3. job[w].id \notin due
    <3>1. connection[job[w].id].bytes = 0
      BY <1>a, <2>1 DEF ObjectInv, OwnerInv, IdsInv, ProcessPCs
    <3> QED  BY <3>1 DEF DueInv
  <2>4. \A p \in Pids : ProcessesMap[p] # Nil => ProcessesMap[p] \in Ids
    BY <1>a
  <2>5. \A p \in Pids, f \in FDs :
           ProcessesMap'[p] # Nil /\ Connections'[ProcessesMap'[p]][f] \in due
             => ProcessesMap'[p] = ProcessesMap[p]
                /\ Connections'[ProcessesMap[p]][f] = Connections[ProcessesMap[p]][f]
    BY <2>1, <2>2, <2>3, <2>4
  <2> QED  BY <1>b, <1>c, <2>5, DueFrame
<1>3. CASE ~LoadOrStoreProcess(w) /\ ~LoadOrStoreConnection(w)
  <2>1. /\ \A p \in Pids : ProcessesMap'[p] \in {ProcessesMap[p], Nil}
        /\ \A n \in Ids, f \in FDs : Connections'[n][f] \in {Connections[n][f], Nil}
    BY <1>a, <1>3, OtherHandlesAllocateNothing
  <2>2. \A p \in Pids : ProcessesMap[p] # Nil => ProcessesMap[p] \in Ids
    BY <1>a
  <2>3. \A p \in Pids, f \in FDs :
           ProcessesMap'[p] # Nil /\ Connections'[ProcessesMap'[p]][f] \in due
             => ProcessesMap'[p] = ProcessesMap[p]
                /\ Connections'[ProcessesMap[p]][f] = Connections[ProcessesMap[p]][f]
    BY <1>d, <2>1, <2>2
  <2> QED  BY <1>b, <1>c, <2>3, DueFrame
<1> QED  BY <1>1, <1>2, <1>3

LEMMA SnapshotDueInv == ASSUME ObjectInv, DueInv, SnapshotStep PROVE DueInv'
<1> USE DEF tables, objects
<1>a. /\ snap \in Snaps /\ SnapOK /\ due \subseteq Ids
      /\ ProcessesMap \in [Pids -> Ids \cup {Nil}]
      /\ Connections \in [Ids -> [FDs -> Ids \cup {Nil}]]
      /\ connection \in [Ids -> ConnectionObjects]
  BY DEF ObjectInv, TypeInv, TypeOK, FieldsOK
<1>c. \A p \in Pids : ProcessesMap[p] # Nil => ProcessesMap[p] \in Ids
  BY <1>a
<1>d. Nil \notin due
  BY <1>a, IdsAreNonNil
(* What the invariant says, and asks, of one entry.                        *)
<1>e. ASSUME NEW p \in Pids, NEW f \in FDs, ProcessesMap[p] # Nil,
             Connections[ProcessesMap[p]][f] \in due
      PROVE  Covered(p, f, ProcessesMap[p], Connections[ProcessesMap[p]][f])
  BY <1>e DEF DueInv
<1>1. CASE StartPass
  <2>1. snap' = [snap EXCEPT !.pc = "processes", !.pids = Pids, !.old = LiveProcesses]
    BY <1>1 DEF StartPass
  <2>2. /\ UNCHANGED <<tables, connection>> /\ due' = Due
    BY <1>1 DEF StartPass
  <2>3. \A c \in due' : connection[c].bytes > 0
    BY <1>a, <2>2 DEF Due, LiveConnections, ConnectionObjects
  <2>4. snap'.pc = "processes" /\ snap'.pids = Pids /\ snap'.old = LiveProcesses
    BY <1>a, <2>1 DEF Snaps
  <2>5. \A p \in Pids : ProcessesMap[p] # Nil => ProcessesMap[p] \in LiveProcesses
    BY <1>a DEF LiveProcesses
  <2> QED  BY <2>2, <2>3, <2>4, <2>5 DEF DueInv, Covered
<1>2. ASSUME NEW p \in Pids, VisitProcess(p) PROVE DueInv'
  <2> DEFINE bp == ProcessesMap[p]
  <2>1. snap.pc = "processes" /\ UNCHANGED <<tables, connection, due>>
    BY <1>2 DEF VisitProcess
  <2>2. ASSUME NEW q \in Pids, NEW f \in FDs, ProcessesMap[q] # Nil,
               Connections[ProcessesMap[q]][f] \in due
        PROVE  q \in snap.pids /\ ProcessesMap[q] \in snap.old
    BY <1>e, <2>1, <2>2 DEF Covered
  <2>4. CASE snap' = [snap EXCEPT !.pc = "evictProcess", !.pids = @ \ {p}, !.pid = p]
    <3>1. /\ snap'.pc = "evictProcess" /\ snap'.pids = snap.pids \ {p}
          /\ snap'.old = snap.old /\ snap'.pid = p
      BY <1>a, <2>4 DEF Snaps
    <3> QED  BY <2>1, <2>2, <3>1 DEF DueInv, Covered
  <2>5. ASSUME bp # Nil,
               snap' = [snap EXCEPT !.pc = "connections", !.pids = @ \ {p},
                          !.bp = bp, !.fds = FDs, !.account = FALSE,
                          !.oldConns = {Connections[bp][f] : f \in FDs} \ {Nil}]
        PROVE  DueInv'
    <3>1. /\ snap'.pc = "connections" /\ snap'.pids = snap.pids \ {p}
          /\ snap'.old = snap.old /\ snap'.bp = bp /\ snap'.fds = FDs
          /\ snap'.oldConns = {Connections[bp][f] : f \in FDs} \ {Nil}
      BY <1>a, <2>5 DEF Snaps
    <3>3. ASSUME NEW q \in Pids, NEW f \in FDs, ProcessesMap[q] # Nil,
                 Connections[ProcessesMap[q]][f] \in due
          PROVE  Covered(q, f, ProcessesMap[q], Connections[ProcessesMap[q]][f])'
      <4>1. CASE q = p
        <5>1. Connections[bp][f] # Nil
          BY <1>d, <3>3, <4>1
        <5>2. f \in snap'.fds /\ Connections[bp][f] \in snap'.oldConns
          BY <3>1, <5>1
        <5> QED  BY <2>1, <3>1, <4>1, <5>2 DEF Covered
      <4>2. CASE q # p
        BY <2>1, <2>2, <3>1, <3>3, <4>2 DEF Covered
      <4> QED  BY <4>1, <4>2
    <3> QED  BY <2>1, <3>1, <3>3 DEF DueInv
  <2> QED  BY <1>2, <2>4, <2>5 DEF VisitProcess
<1>3. CASE EvictProcess
  <2>1. /\ snap.pc = "evictProcess" /\ UNCHANGED <<Connections, connection, due>>
        /\ ProcessesMap' = [ProcessesMap EXCEPT ![snap.pid] = Nil]
        /\ snap' = [snap EXCEPT !.pc = "processes", !.pid = Nil]
    BY <1>3 DEF EvictProcess
  <2>2. snap'.pc = "processes" /\ snap'.pids = snap.pids /\ snap'.old = snap.old
    BY <1>a, <2>1 DEF Snaps
  <2>3. ASSUME NEW p \in Pids, ProcessesMap'[p] # Nil
        PROVE  p # snap.pid /\ ProcessesMap'[p] = ProcessesMap[p]
    BY <1>a, <2>1, <2>3
  <2>4. ASSUME NEW p \in Pids, NEW f \in FDs, ProcessesMap'[p] # Nil,
               Connections[ProcessesMap'[p]][f] \in due
        PROVE  p \in snap'.pids /\ ProcessesMap'[p] \in snap'.old
    BY <1>e, <2>1, <2>2, <2>3, <2>4 DEF Covered
  <2> QED  BY <2>1, <2>2, <2>4 DEF DueInv, Covered
<1>4. ASSUME NEW f \in FDs, VisitConnection(f) PROVE DueInv'
  <2> DEFINE bc == Connections[snap.bp][f]
  <2>1. /\ snap.pc = "connections" /\ f \in snap.fds /\ UNCHANGED tables /\ snap.bp \in Ids
    BY <1>a, <1>4 DEF VisitConnection, SnapOK
  <2>2. ASSUME NEW q \in Pids, NEW g \in FDs, ProcessesMap[q] # Nil,
               Connections[ProcessesMap[q]][g] \in due
        PROVE  \/ q \in snap.pids /\ ProcessesMap[q] \in snap.old
               \/ /\ ProcessesMap[q] = snap.bp /\ g \in snap.fds
                  /\ Connections[ProcessesMap[q]][g] \in snap.oldConns
    BY <1>e, <2>1, <2>2 DEF Covered
  <2>3. CASE /\ UNCHANGED connection
             /\ snap' = [snap EXCEPT !.fds = @ \ {f}]
             /\ due' = due \ {bc}
    <3>1. /\ snap'.pc = "connections" /\ snap'.pids = snap.pids /\ snap'.old = snap.old
          /\ snap'.bp = snap.bp /\ snap'.fds = snap.fds \ {f} /\ snap'.oldConns = snap.oldConns
      BY <1>a, <2>1, <2>3 DEF Snaps
    <3> QED  BY <2>1, <2>2, <2>3, <3>1 DEF DueInv, Covered
  <2>4. CASE /\ UNCHANGED <<connection, due>>
             /\ snap' = [snap EXCEPT !.pc = "evictConnection", !.fds = @ \ {f},
                                     !.fd = f, !.bc = bc]
    <3>1. /\ snap'.pc = "evictConnection" /\ snap'.pids = snap.pids /\ snap'.old = snap.old
          /\ snap'.bp = snap.bp /\ snap'.fds = snap.fds \ {f} /\ snap'.oldConns = snap.oldConns
          /\ snap'.fd = f
      BY <1>a, <2>4 DEF Snaps
    <3> QED  BY <2>1, <2>2, <2>4, <3>1 DEF DueInv, Covered
  <2>5. CASE /\ bc # Nil
             /\ connection' = [connection EXCEPT ![bc] = takeSnapshot(@)]
             /\ snap' = [snap EXCEPT !.fds = @ \ {f}, !.account = TRUE]
             /\ due' = due \ {bc}
    <3>1. /\ snap'.pc = "connections" /\ snap'.pids = snap.pids /\ snap'.old = snap.old
          /\ snap'.bp = snap.bp /\ snap'.fds = snap.fds \ {f} /\ snap'.oldConns = snap.oldConns
      BY <1>a, <2>1, <2>5 DEF Snaps
    <3>2. \A c \in Ids : connection'[c].bytes = connection[c].bytes
      <4>1. \A c \in Ids : connection'[c] \in {connection[c], takeSnapshot(connection[c])}
        BY <1>a, <2>5
      <4>2. \A o \in ConnectionObjects : takeSnapshot(o).bytes = o.bytes
        BY DEF takeSnapshot, ConnectionObjects
      <4> QED  BY <1>a, <4>1, <4>2
    <3>3. \A c \in due' : connection'[c].bytes > 0
      BY <1>a, <2>5, <3>2 DEF DueInv
    <3>4. ASSUME NEW q \in Pids, NEW g \in FDs, ProcessesMap[q] # Nil,
                 Connections[ProcessesMap[q]][g] \in due'
          PROVE  Covered(q, g, ProcessesMap[q], Connections[ProcessesMap[q]][g])'
      <4>1. Connections[ProcessesMap[q]][g] \in due /\ Connections[ProcessesMap[q]][g] # bc
        BY <2>5, <3>4
      <4>2. ProcessesMap[q] = snap.bp => g # f
        BY <4>1
      <4> HIDE DEF bc
      <4> QED  BY <2>1, <2>2, <3>1, <3>4, <4>1, <4>2 DEF Covered
    <3> HIDE DEF bc
    <3> QED  BY <2>1, <3>1, <3>3, <3>4 DEF DueInv
  <2> QED  BY <1>4, <2>3, <2>4, <2>5 DEF VisitConnection
<1>5. CASE EvictConnection
  <2>1. /\ snap.pc = "evictConnection" /\ UNCHANGED <<ProcessesMap, connection, due>>
        /\ Connections' = [Connections EXCEPT ![snap.bp][snap.fd] = Nil]
        /\ snap' = [snap EXCEPT !.pc = "forgetInode", !.fd = Nil]
        /\ snap.bp \in Ids
    BY <1>a, <1>5 DEF EvictConnection, SnapOK
  <2>2. /\ snap'.pc = "forgetInode" /\ snap'.pids = snap.pids /\ snap'.old = snap.old
        /\ snap'.bp = snap.bp /\ snap'.fds = snap.fds /\ snap'.oldConns = snap.oldConns
    BY <1>a, <2>1 DEF Snaps
  <2>3. \A n \in Ids, f \in FDs :
           Connections'[n][f] = IF n = snap.bp /\ f = snap.fd THEN Nil ELSE Connections[n][f]
    BY <1>a, <2>1
  <2>4. ASSUME NEW p \in Pids, NEW f \in FDs, ProcessesMap[p] # Nil,
               Connections'[ProcessesMap[p]][f] \in due
        PROVE  Covered(p, f, ProcessesMap[p], Connections[ProcessesMap[p]][f])'
    <3>1. /\ Connections'[ProcessesMap[p]][f] = Connections[ProcessesMap[p]][f]
          /\ ~(ProcessesMap[p] = snap.bp /\ f = snap.fd)
      BY <1>c, <1>d, <2>3, <2>4
    <3>2. Covered(p, f, ProcessesMap[p], Connections[ProcessesMap[p]][f])
      BY <1>e, <2>4, <3>1
    <3> QED  BY <2>1, <2>2, <3>1, <3>2 DEF Covered
  <2> QED  BY <2>1, <2>2, <2>4 DEF DueInv
<1>6. CASE ForgetIdleInode
  <2>1. /\ snap.pc = "forgetInode" /\ UNCHANGED <<ProcessesMap, Connections, connection, due>>
        /\ snap' = [snap EXCEPT !.pc = "connections", !.bc = Nil]
    BY <1>6 DEF ForgetIdleInode
  <2>2. /\ snap'.pc = "connections" /\ snap'.pids = snap.pids /\ snap'.old = snap.old
        /\ snap'.bp = snap.bp /\ snap'.fds = snap.fds /\ snap'.oldConns = snap.oldConns
    BY <1>a, <2>1 DEF Snaps
  <2> QED  BY <1>e, <2>1, <2>2 DEF DueInv, Covered
<1>7. CASE FinishProcess
  <2>1. /\ snap.pc = "connections" /\ UNCHANGED <<tables, connection, due>>
        /\ \A f \in snap.fds : Connections[snap.bp][f] \notin snap.oldConns
        /\ snap' = [snap EXCEPT !.pc = "processes", !.bp = Nil, !.fds = {}, !.oldConns = {},
                                !.account = FALSE]
    BY <1>7 DEF FinishProcess, OnlyLater
  <2>2. snap'.pc = "processes" /\ snap'.pids = snap.pids /\ snap'.old = snap.old
    BY <1>a, <2>1 DEF Snaps
  <2> QED  BY <1>e, <2>1, <2>2 DEF DueInv, Covered
<1>8. CASE SnapshotInterfaces
  <2>1. /\ snap.pc = "processes" /\ UNCHANGED <<tables, connection, due>>
        /\ \A p \in snap.pids : ProcessesMap[p] \notin snap.old
        /\ snap' = [snap EXCEPT !.pc = "unlock", !.pids = {}, !.old = {}]
    BY <1>8 DEF SnapshotInterfaces, OnlyLater
  <2>2. snap'.pc = "unlock" /\ snap'.old = {}
    BY <1>a, <2>1 DEF Snaps
  <2> QED  BY <1>e, <2>1, <2>2 DEF DueInv, Covered
<1>9. CASE FinishPass
  BY <1>9 DEF FinishPass, DueInv, Sleeping
<1> QED  BY <1>1, <1>2, <1>3, <1>4, <1>5, <1>6, <1>7, <1>8, <1>9 DEF SnapshotStep

LEMMA NextDueInv == ObjectInv /\ FreshInv /\ DueInv /\ [Next]_vars => DueInv'
<1> SUFFICES ASSUME ObjectInv, FreshInv, DueInv, [Next]_vars PROVE DueInv'
  OBVIOUS
<1>1. CASE UNCHANGED vars
  BY <1>1 DEF vars, DueInv, Covered
<1>2. ASSUME NEW w \in Workers, Receive(w) PROVE DueInv'
  BY <1>2 DEF Receive, tables, objects, DueInv, Covered
<1>3. CASE Tick
  <2>1. UNCHANGED <<tables, snap, due>>
    BY <1>3 DEF Tick
  <2>2. \A c \in due : connection'[c].bytes > 0
    BY <1>3, TickCountsNothing DEF NothingCounted, DueInv, ObjectInv, TypeInv, TypeOK
  <2> QED  BY <2>1, <2>2 DEF tables, DueInv, Covered
<1> QED  BY <1>1, <1>2, <1>3, HandleDueInv, SnapshotDueInv DEF Next

(* Whatever is evicted, closed or opened while the snapshot worker walks   *)
(* the maps, and whatever a scan rewrites, a pass comes to every           *)
(* connection that an earlier pass has looked at, that had unreported      *)
(* traffic when it began and that is still in the maps when it ends.  It   *)
(* reports it, unless it finds it to be local by then.                     *)
THEOREM PassesAreComplete == Spec => []PassCoversConnections
<1>1. Init => FreshInv /\ DueInv
  BY IdsAreNonNil DEF Init, Waiting, Sleeping, FreshInv, DueInv
<1>2. ObjectInv /\ DueInv => PassCoversConnections
  <2> SUFFICES ASSUME ObjectInv, DueInv, snap.pc = "unlock", NEW c \in due \cap LiveConnections
               PROVE  FALSE
    BY DEF PassCoversConnections
  <2>1. PICK p \in Pids, f \in FDs : ProcessesMap[p] # Nil /\ Connections[ProcessesMap[p]][f] = c
    BY DEF LiveConnections
  <2>2. Covered(p, f, ProcessesMap[p], c)
    BY <2>1 DEF DueInv
  <2> QED  BY <2>2 DEF Covered, DueInv
<1> QED  BY <1>1, <1>2, NextFreshInv, NextDueInv, ObjectInvariant, PTL DEF Spec
=============================================================================
