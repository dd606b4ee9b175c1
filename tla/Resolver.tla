------------------------------ MODULE Resolver ------------------------------
(***************************************************************************)
(* Finding the socket of a connection: src/engine/connection.go.           *)
(*                                                                         *)
(* ConnectionsMap caches one ConnectionInfo for each inode that a scan of  *)
(* /proc/net has listed.  A lookup that does not find its inode scans, one *)
(* at a time under cLock; closes, and the eviction of idle connections,    *)
(* delete entries without the lock, and whoever holds a ConnectionInfo     *)
(* reads it without the lock.  Engine has the two fields that handlers     *)
(* read, rewritten in one step; here a scan rewrites all, one by one.      *)
(*                                                                         *)
(* A connection initialises once (counter.go), so it stands for the        *)
(* goroutine that does it, and its name for the pid and descriptor.        *)
(*                                                                         *)
(* External: the sockets of the kernel.  A file is read in one step; a     *)
(* line that cannot be decoded is as if it was not there.  An inode has at *)
(* most one line: the inode 0, which sockets without a file share, is left *)
(* out, since no descriptor names it and so no lookup asks for it.         *)
(***************************************************************************)
EXTENDS Naturals

CONSTANTS
    Connections,
    Inodes,
    Lines,         \* lines that a socket may have in its file
    Loopback,      \* loopback addresses
    Found,         \* files that could be found when the program started
    Nil,
    MaxChanges     \* bound: changes of the kernel's sockets

(* The files of /proc/net, in the order in which they are read.            *)
InOrder == <<"tcp", "tcp6", "udp", "udp6">>
Files   == {InOrder[n] : n \in 1 .. 4}
Stream  == {"tcp", "tcp6"}

ASSUME ResolverAssumption ==
    /\ \A l \in Lines : {"file", "status", "local", "sport", "remote", "dport"} \subseteq DOMAIN l
    /\ \A l \in Lines : l.file \in Files
    /\ Found \subseteq Files /\ {"tcp", "udp"} \subseteq Found
    /\ Nil \notin Lines \cup Connections \cup (Connections \X Inodes \X Files)
    /\ MaxChanges \in Nat

VARIABLES
    socket,          \* inode -> its line, or Nil
    changes,
    ConnectionsMap,  \* inode -> ConnectionInfo, or Nil
    infos,           \* the ConnectionInfos
    cLock,
    job,             \* what each connection's Init is doing
    closed           \* connections that were closed or evicted

vars == <<socket, changes, ConnectionsMap, infos, cLock, job, closed>>

(* A ConnectionInfo is named by the scan, the inode and the file that made *)
(* it; its fields, in the order in which they are rewritten.               *)
Infos == Connections \X Inodes \X Files

Fields == <<"pid", "local", "sport", "remote", "dport", "isIPv6", "isLocal", "status">>
NFields    == 8
FieldNames == {Fields[k] : k \in 1 .. NFields}

Content(l) ==
    [f \in FieldNames |->
        CASE f = "pid"     -> Nil
          [] f = "isIPv6"  -> l.file \in {"tcp6", "udp6"}
          [] f = "isLocal" -> l.local \in Loopback
          [] OTHER         -> l[f]]

Free == Nil

NoLines == [i \in {} |-> Nil]
NewJob  == [pc |-> "new", inode |-> Nil, n |-> 0, lines |-> NoLines, todo |-> {},
            info |-> Nil, k |-> 0, ret |-> Nil]

Init == /\ socket \in [Inodes -> Lines \cup {Nil}]
        /\ changes = 0
        /\ ConnectionsMap = [i \in Inodes |-> Nil]
        /\ infos = [o \in Infos |-> Nil]
        /\ cLock = Free
        /\ job = [c \in Connections |-> NewJob]
        /\ closed = {}

At(c, pc) == job[c].pc = pc
Go(c, pc) == job' = [job EXCEPT ![c].pc = pc]
Answer(c, pc, o) == job' = [job EXCEPT ![c].pc = pc, ![c].ret = o]

-----------------------------------------------------------------------------
(* A socket is made, changes its state or its addresses, or is gone; an    *)
(* inode may be used again.                                                *)
Change(i) ==
    /\ changes < MaxChanges
    /\ changes' = changes + 1
    /\ \E l \in Lines \cup {Nil} : socket' = [socket EXCEPT ![i] = l]
    /\ UNCHANGED <<ConnectionsMap, infos, cLock, job, closed>>

(* getConnectionInfoFor: the link of the descriptor, if it is of a socket. *)
Readlink(c) ==
    /\ At(c, "new")
    /\ \/ \E i \in Inodes : job' = [job EXCEPT ![c].pc = "find", ![c].inode = i]
       \/ Go(c, "return")
    /\ UNCHANGED <<socket, changes, ConnectionsMap, infos, cLock, closed>>

(* findConnectionInfoBy                                                    *)
Find(c) ==
    LET o == ConnectionsMap[job[c].inode]
    IN  /\ At(c, "find")
        /\ IF o # Nil THEN Answer(c, "return", o) ELSE Go(c, "lock")
        /\ UNCHANGED <<socket, changes, ConnectionsMap, infos, cLock, closed>>

(* refreshNetConnections: the lock, the second lookup, the four files.     *)
Lock(c) ==
    /\ At(c, "lock") /\ cLock = Free
    /\ cLock' = c
    /\ Go(c, "look")
    /\ UNCHANGED <<socket, changes, ConnectionsMap, infos, closed>>

Look(c) ==
    LET o == ConnectionsMap[job[c].inode]
    IN  /\ At(c, "look")
        /\ IF o # Nil THEN Answer(c, "unlock", o)
           ELSE job' = [job EXCEPT ![c].pc = "read", ![c].n = 1]
        /\ UNCHANGED <<socket, changes, ConnectionsMap, infos, cLock, closed>>

(* The lines that a scan looks at: of streams, the established ones.       *)
Listed(f) == {i \in Inodes : /\ socket[i] # Nil /\ socket[i].file = f
                             /\ f \in Stream => socket[i].status = "01"}

Unlock(c) ==
    /\ At(c, "unlock")
    /\ cLock' = Free
    /\ Go(c, "return")
    /\ UNCHANGED <<socket, changes, ConnectionsMap, infos, closed>>

(* refreshFromInet, of a file that exists; one that cannot be read is as   *)
(* if it listed nothing.                                                   *)
ReadFile(c) ==
    /\ At(c, "read") /\ job[c].n <= 4
    /\ LET f == InOrder[job[c].n]
       IN  \E S \in IF f \in Found THEN {Listed(f), {}} ELSE {{}} :
             job' = [job EXCEPT ![c].pc = "lines", ![c].lines = [i \in S |-> socket[i]],
                                ![c].todo = S]
    /\ UNCHANGED <<socket, changes, ConnectionsMap, infos, cLock, closed>>

(* The file is done; the next one is read unless the inode was in it.      *)
NextFile(c) ==
    /\ At(c, "lines") /\ job[c].todo = {}
    /\ job' = [job EXCEPT ![c].pc = IF job[c].ret # Nil THEN "unlock" ELSE "read",
                          ![c].n = @ + 1, ![c].lines = NoLines, ![c].info = Nil]
    /\ UNCHANGED <<socket, changes, ConnectionsMap, infos, cLock, closed>>

NoMoreFiles(c) ==
    /\ At(c, "read") /\ job[c].n > 4
    /\ Go(c, "unlock")
    /\ UNCHANGED <<socket, changes, ConnectionsMap, infos, cLock, closed>>

(* After LoadOrStore, the line is of the wanted inode or of another.       *)
AfterLine(c, i) == IF i = job[c].inode THEN "wanted" ELSE "lines"

(* A new ConnectionInfo for an inode that is not cached.                   *)
StoreLine(c) ==
    \E i \in job[c].todo :
        LET o == <<c, i, InOrder[job[c].n]>>
        IN  /\ At(c, "lines")
            /\ ConnectionsMap[i] = Nil
            /\ ConnectionsMap' = [ConnectionsMap EXCEPT ![i] = o]
            /\ infos' = [infos EXCEPT ![o] = Content(job[c].lines[i])]
            /\ job' = [job EXCEPT ![c] = [@ EXCEPT !.pc = AfterLine(c, i), !.todo = job[c].todo \ {i},
                                                   !.info = o]]
            /\ UNCHANGED <<socket, changes, cLock, closed>>

(* A cached one is taken for the same connection if both ports are.        *)
SamePorts(o, l) == infos[o]["sport"] = l.sport /\ infos[o]["dport"] = l.dport

(* Mutant of LoadLine: one equal port is enough.                           *)
LoadLineByOnePort(c) ==
    \E i \in job[c].todo :
        LET o == ConnectionsMap[i]
            l == job[c].lines[i]
        IN  /\ At(c, "lines")
            /\ o # Nil
            /\ job' = [job EXCEPT ![c] =
                         [@ EXCEPT !.pc = IF infos[o]["sport"] = l.sport \/ infos[o]["dport"] = l.dport
                                          THEN AfterLine(c, i) ELSE "rewrite",
                                   !.todo = job[c].todo \ {i}, !.info = o, !.k = 1]]
            /\ UNCHANGED <<socket, changes, ConnectionsMap, infos, cLock, closed>>

LoadLine(c) ==
    \E i \in job[c].todo :
        LET o == ConnectionsMap[i]
        IN  /\ At(c, "lines")
            /\ o # Nil
            /\ job' = [job EXCEPT ![c] =
                         [@ EXCEPT !.pc = IF SamePorts(o, job[c].lines[i])
                                          THEN AfterLine(c, i) ELSE "rewrite",
                                   !.todo = job[c].todo \ {i}, !.info = o, !.k = 1]]
            /\ UNCHANGED <<socket, changes, ConnectionsMap, infos, cLock, closed>>

(* Mutant of EndRewrite: the last field is left as it was.                 *)
EndRewriteEarly(c) ==
    /\ At(c, "rewrite") /\ job[c].k > NFields - 1
    /\ job' = [job EXCEPT ![c].pc = AfterLine(c, job[c].info[2]), ![c].k = 0]
    /\ UNCHANGED <<socket, changes, ConnectionsMap, infos, cLock, closed>>

(* Otherwise it is rewritten in place, one field after the other.          *)
RewriteField(c) ==
    LET o == job[c].info
        f == Fields[job[c].k]
    IN  /\ At(c, "rewrite") /\ job[c].k <= NFields
        /\ infos' = [infos EXCEPT ![o][f] = Content(job[c].lines[o[2]])[f]]
        /\ job' = [job EXCEPT ![c].k = @ + 1]
        /\ UNCHANGED <<socket, changes, ConnectionsMap, cLock, closed>>

EndRewrite(c) ==
    /\ At(c, "rewrite") /\ job[c].k > NFields
    /\ job' = [job EXCEPT ![c].pc = AfterLine(c, job[c].info[2]), ![c].k = 0]
    /\ UNCHANGED <<socket, changes, ConnectionsMap, infos, cLock, closed>>

(* Mutant of Wanted: the inode is taken for the pid.                       *)
WantedByInode(c) ==
    /\ At(c, "wanted")
    /\ infos' = [infos EXCEPT ![job[c].info]["pid"] = job[c].inode]
    /\ Answer(c, "lines", job[c].info)
    /\ UNCHANGED <<socket, changes, ConnectionsMap, cLock, closed>>

(* The wanted one gets the pid and the descriptor that asked for it.       *)
Wanted(c) ==
    /\ At(c, "wanted")
    /\ infos' = [infos EXCEPT ![job[c].info]["pid"] = c]
    /\ Answer(c, "lines", job[c].info)
    /\ UNCHANGED <<socket, changes, ConnectionsMap, cLock, closed>>

(* RWEvent.Process: the connection has its ConnectionInfo, or none.        *)
Assign(c) ==
    /\ At(c, "return")
    /\ Go(c, "done")
    /\ UNCHANGED <<socket, changes, ConnectionsMap, infos, cLock, closed>>

(* CloseEvent.Process, and the eviction of an idle connection: the inode   *)
(* is forgotten, whoever else uses it, but not before it is assigned.      *)
Close(c) ==
    /\ c \notin closed
    /\ closed' = closed \cup {c}
    /\ ConnectionsMap' = IF At(c, "done") /\ job[c].ret # Nil
                         THEN [ConnectionsMap EXCEPT ![job[c].ret[2]] = Nil]
                         ELSE ConnectionsMap
    /\ UNCHANGED <<socket, changes, infos, cLock, job>>

-----------------------------------------------------------------------------
Resolve(c) == \/ Readlink(c) \/ Find(c) \/ Lock(c) \/ Look(c) \/ Unlock(c)
              \/ ReadFile(c) \/ NextFile(c) \/ NoMoreFiles(c)
              \/ StoreLine(c) \/ LoadLine(c) \/ RewriteField(c) \/ EndRewrite(c)
              \/ Wanted(c) \/ Assign(c)

Next == \/ \E i \in Inodes : Change(i)
        \/ \E c \in Connections : Resolve(c) \/ Close(c)

Spec == Init /\ [][Next]_vars

-----------------------------------------------------------------------------
(* Properties.                                                             *)

PCs == {"new", "find", "lock", "look", "read", "lines", "rewrite", "wanted", "unlock",
        "return", "done"}

LineValues(f) == {Content(l)[f] : l \in Lines}
ConnectionInfo ==
    [pid : Connections \cup {Nil}, local : LineValues("local"), sport : LineValues("sport"),
     remote : LineValues("remote"), dport : LineValues("dport"),
     isIPv6 : BOOLEAN, isLocal : BOOLEAN, status : LineValues("status")]

(* The type invariant.                                                     *)
TypeOK ==
    /\ socket \in [Inodes -> Lines \cup {Nil}] /\ changes \in 0 .. MaxChanges
    /\ ConnectionsMap \in [Inodes -> Infos \cup {Nil}]
    /\ infos \in [Infos -> ConnectionInfo \cup {Nil}]
    /\ cLock \in Connections \cup {Free} /\ closed \subseteq Connections
    /\ \A c \in Connections :
         /\ DOMAIN job[c] = DOMAIN NewJob
         /\ job[c].pc \in PCs /\ job[c].inode \in Inodes \cup {Nil}
         /\ job[c].n \in 0 .. 5 /\ job[c].todo \subseteq DOMAIN job[c].lines
         /\ \A i \in DOMAIN job[c].lines : job[c].lines[i] \in Lines
         /\ {job[c].info, job[c].ret} \subseteq Infos \cup {Nil}
         /\ job[c].k \in 0 .. NFields + 1

(* Between scans every ConnectionInfo, cached or in use, has the fields of *)
(* one line: none is a mixture of two connections that had its inode one   *)
(* after the other, although it is rewritten in place.                     *)
Whole(o) == \E l \in Lines : \A f \in FieldNames \ {"pid"} : infos[o][f] = Content(l)[f]

InfosAreWhole == cLock = Free => \A o \in Infos : infos[o] # Nil => Whole(o)

(* When a file has been gone through, what is cached for its inodes has    *)
(* their ports; the wanted inode was found if and only if it is there, and *)
(* the answer is what its line says, for who asked.                        *)
ScansAgreeWithFiles ==
    \A c \in Connections :
        LET i == job[c].inode
            o == job[c].ret
        IN  At(c, "lines") /\ job[c].todo = {} =>
              /\ \A j \in DOMAIN job[c].lines :
                   ConnectionsMap[j] # Nil => SamePorts(ConnectionsMap[j], job[c].lines[j])
              /\ o # Nil <=> i \in DOMAIN job[c].lines
              /\ o # Nil => infos[o] = [Content(job[c].lines[i]) EXCEPT !["pid"] = c]
=============================================================================
