--------------------------- MODULE ResolverProofs ---------------------------
(***************************************************************************)
(* Proofs about Resolver, for any number of connections and inodes, any    *)
(* lines and any changes of them.                                          *)
(***************************************************************************)
EXTENDS Resolver, TLAPS

Values   == {Content(l)[f] : l \in Lines, f \in FieldNames} \cup Connections \cup {Nil}
Records  == [FieldNames -> Values]
AllLines == UNION {[S -> Lines] : S \in SUBSET Inodes}
Jobs     == [pc : PCs, inode : Inodes \cup {Nil}, n : 0 .. 5, lines : AllLines,
             todo : SUBSET Inodes, info : Infos \cup {Nil}, k : 0 .. NFields + 1,
             ret : Infos \cup {Nil}]

TypeInv ==
    /\ socket \in [Inodes -> Lines \cup {Nil}]
    /\ ConnectionsMap \in [Inodes -> Infos \cup {Nil}]
    /\ infos \in [Infos -> Records \cup {Nil}]
    /\ job \in [Connections -> Jobs]

(* Whoever scans holds the lock and has an inode to look for.              *)
Holds  == {"look", "read", "lines", "rewrite", "wanted", "unlock"}
InFile == {"lines", "rewrite", "wanted"}

LockInv(c) ==
    /\ job[c].pc \in Holds => cLock = c
    /\ job[c].pc \notin {"new", "return", "done"} => job[c].inode \in Inodes

(* An entry of the cache is a ConnectionInfo of its inode.                 *)
MapInv == \A i \in Inodes : LET o == ConnectionsMap[i]
                            IN  o # Nil => o[2] = i /\ infos[o] \in Records

(* The inode that is wanted is not cached until its line has been found:   *)
(* the second lookup has seen that, and nobody else adds entries.          *)
WantedInv(c) ==
    LET i == job[c].inode
        o == job[c].ret
    IN  /\ job[c].pc \in {"new", "find", "lock", "look", "read"} =>
             o = Nil /\ job[c].lines = NoLines
        /\ job[c].pc = "read" => job[c].n >= 1
        /\ job[c].pc \in {"read", "lines", "rewrite"} /\ o = Nil =>
             /\ ConnectionsMap[i] = Nil
             /\ i \notin DOMAIN job[c].lines \ job[c].todo
        /\ job[c].pc \in InFile /\ o # Nil =>
             /\ o[2] = i /\ i \in DOMAIN job[c].lines \ job[c].todo
             /\ infos[o] = [Content(job[c].lines[i]) EXCEPT !["pid"] = c]

(* The ConnectionInfo of the line in hand.                                 *)
HandInv(c) ==
    LET o == job[c].info
        l == job[c].lines[o[2]]
    IN  /\ job[c].pc \in {"rewrite", "wanted"} =>
             /\ o \in Infos /\ infos[o] \in Records
             /\ o[2] \in DOMAIN job[c].lines \ job[c].todo
             /\ ConnectionsMap[o[2]] \in {o, Nil}
        /\ job[c].pc = "rewrite" =>
             /\ o[2] # job[c].inode /\ job[c].k >= 1
             /\ \A j \in 1 .. NFields : j < job[c].k => infos[o][Fields[j]] = Content(l)[Fields[j]]
        /\ job[c].pc = "wanted" =>
             /\ o[2] = job[c].inode /\ job[c].ret = Nil /\ infos[o] = Content(l)

(* The lines that have been gone through.                                  *)
LinesInv(c) ==
    job[c].pc \in InFile =>
        /\ job[c].n \in 1 .. 4
        /\ job[c].todo \subseteq DOMAIN job[c].lines
        /\ \A i \in DOMAIN job[c].lines \ job[c].todo :
             /\ ConnectionsMap[i] # Nil
             /\ ~(job[c].pc = "rewrite" /\ job[c].info[2] = i)
             => SamePorts(ConnectionsMap[i], job[c].lines[i])

Rewrites(c, o) == job[c].pc = "rewrite" /\ job[c].info = o

WholeInv == \A o \in Infos : infos[o] # Nil => Whole(o) \/ \E c \in Connections : Rewrites(c, o)

ScanInv(c) == LockInv(c) /\ WantedInv(c) /\ HandInv(c) /\ LinesInv(c)

IInv == TypeInv /\ MapInv /\ WholeInv /\ \A c \in Connections : ScanInv(c)

-----------------------------------------------------------------------------
(* Facts about lines and fields.                                           *)

LEMMA FieldFacts ==
    /\ \A f \in FieldNames : \E k \in 1 .. NFields : Fields[k] = f
    /\ \A k \in 1 .. NFields : Fields[k] \in FieldNames
    /\ {"pid", "sport", "dport"} \subseteq FieldNames
<1>1. Fields[1] = "pid" /\ Fields[3] = "sport" /\ Fields[5] = "dport"
  BY DEF Fields
<1> QED
  BY <1>1 DEF FieldNames, NFields

LEMMA DifferentFields ==
    \A j, k \in 1 .. NFields : j < k => Fields[j] # Fields[k]
  BY DEF Fields, NFields

LEMMA ContentFacts ==
    ASSUME NEW l \in Lines
    PROVE  /\ Content(l) \in Records
           /\ Content(l)["sport"] = l.sport /\ Content(l)["dport"] = l.dport
<1>1. \A f \in FieldNames : Content(l)[f] \in Values
  BY DEF Values
<1>2. Content(l) \in Records
  BY <1>1 DEF Content, Records
<1>3. Content(l)["sport"] = l.sport
  BY FieldFacts DEF Content
<1>4. Content(l)["dport"] = l.dport
  BY FieldFacts DEF Content
<1> QED
  BY <1>2, <1>3, <1>4

LEMMA LineFacts ==
    ASSUME NEW g \in AllLines
    PROVE  DOMAIN g \subseteq Inodes /\ \A i \in DOMAIN g : g[i] \in Lines
  BY DEF AllLines

LEMMA SomeLines == \A S \in SUBSET Inodes : [S -> Lines] \subseteq AllLines
  BY DEF AllLines

LEMMA EmptyFile == NoLines \in AllLines /\ DOMAIN NoLines = {}
<1>1. NoLines \in [{} -> Lines]
  BY DEF NoLines
<1>2. DOMAIN NoLines = {}
  BY DEF NoLines
<1> QED
  BY <1>1, <1>2, SomeLines

LEMMA NilFacts ==
    /\ \A o \in Infos : o # Nil
    /\ \A c \in Connections : c # Nil
    /\ \A l \in Lines : l # Nil
  BY ResolverAssumption DEF Infos

LEMMA InfoFacts ==
    /\ \A o \in Infos : o[2] \in Inodes
    /\ \A c \in Connections, i \in Inodes, n \in 1 .. 4 :
         <<c, i, InOrder[n]>> \in Infos /\ <<c, i, InOrder[n]>>[2] = i
  BY DEF Infos, Files

-----------------------------------------------------------------------------
(* A connection whose job, and what it is about, a step leaves alone.      *)

LEMMA Undisturbed ==
    ASSUME NEW d \in Connections, ScanInv(d), UNCHANGED <<ConnectionsMap, infos>>,
           job'[d] = job[d], job[d].pc \in Holds => cLock' = d
    PROVE  ScanInv(d)'
  BY DEF ScanInv, LockInv, WantedInv, HandInv, LinesInv, SamePorts, Holds, InFile

(* A connection that holds no lock has nothing to do with the tables.      *)
LEMMA NotScanning ==
    ASSUME NEW d \in Connections, ScanInv(d), job'[d] = job[d], job[d].pc \notin Holds
    PROVE  ScanInv(d)'
  BY DEF ScanInv, LockInv, WantedInv, HandInv, LinesInv, Holds, InFile

LEMMA Ended ==
    ASSUME NEW c \in Connections, job'[c].pc \in {"return", "done"}
    PROVE  ScanInv(c)'
  BY DEF ScanInv, LockInv, WantedInv, HandInv, LinesInv, Holds, InFile

LEMMA Scanned ==
    ASSUME NEW c \in Connections, job'[c].pc = "unlock", cLock' = c, job'[c].inode \in Inodes
    PROVE  ScanInv(c)'
  BY DEF ScanInv, LockInv, WantedInv, HandInv, LinesInv, Holds, InFile

LEMMA InitOK == Init => IInv
<1> SUFFICES ASSUME Init PROVE IInv
  OBVIOUS
<1>1. NoLines \in AllLines
  BY EmptyFile
<1>2. TypeInv
  BY <1>1 DEF Init, TypeInv, Jobs, NewJob, PCs, NFields
<1>3. MapInv /\ WholeInv
  BY DEF Init, MapInv, WholeInv
<1>4. \A c \in Connections : ScanInv(c)
  BY DEF Init, NewJob, ScanInv, LockInv, WantedInv, HandInv, LinesInv, Holds, InFile
<1> QED
  BY <1>2, <1>3, <1>4 DEF IInv

(* Steps that leave the cache and its contents alone.                      *)
LEMMA QuietStep ==
    ASSUME IInv, NEW c \in Connections, UNCHANGED <<socket, ConnectionsMap, infos>>,
           NEW j \in Jobs, job' = [job EXCEPT ![c] = j],
           \A d \in Connections \ {c} : job[d].pc \in Holds => cLock' = d,
           ScanInv(c)', job[c].pc = "rewrite" => Whole(job[c].info)
    PROVE  IInv'
<1>1. TypeInv'
  BY DEF IInv, TypeInv
<1>2. \A d \in Connections \ {c} : job'[d] = job[d]
  BY DEF IInv, TypeInv
<1>3. \A d \in Connections : ScanInv(d)'
  BY <1>2, Undisturbed DEF IInv
<1>4. MapInv'
  BY DEF IInv, MapInv
<1>5. WholeInv'
  BY <1>2 DEF IInv, WholeInv, Whole, Rewrites
<1> QED
  BY <1>1, <1>3, <1>4, <1>5 DEF IInv

LEMMA QuietSteps ==
    ASSUME IInv, NEW c \in Connections,
           Readlink(c) \/ Find(c) \/ Lock(c) \/ Look(c) \/ Unlock(c) \/ ReadFile(c)
             \/ NextFile(c) \/ NoMoreFiles(c) \/ Assign(c)
    PROVE  IInv'
<1> USE DEF At, Go, Answer
<1> DEFINE J == job[c]
<1>0. /\ J \in Jobs /\ ScanInv(c)
      /\ \A d \in Connections \ {c} : job[d].pc \in Holds => cLock = d
      /\ J.pc \in Holds => cLock = c
  BY DEF IInv, TypeInv, ScanInv, LockInv
<1>a. ASSUME UNCHANGED <<socket, ConnectionsMap, infos>>, NEW j \in Jobs,
             job' = [job EXCEPT ![c] = j], J.pc # "rewrite",
             \/ cLock' = cLock
             \/ cLock = Free
             \/ J.pc \in Holds,
             ScanInv(c)'
      PROVE  IInv'
  <2>1. \A d \in Connections \ {c} : job[d].pc \in Holds => cLock' = d
    BY <1>0, <1>a, NilFacts DEF Free
  <2> QED
    BY <1>a, <2>1, QuietStep
<1>b. \A j : job' = [job EXCEPT ![c] = j] => job'[c] = j
  BY DEF IInv, TypeInv
<1>1. CASE Readlink(c)
  <2>1. PICK j : /\ job' = [job EXCEPT ![c] = j]
                 /\ \/ \E i \in Inodes : j = [J EXCEPT !.pc = "find", !.inode = i]
                    \/ j = [J EXCEPT !.pc = "return"]
    <3>1. ASSUME NEW i \in Inodes, job' = [job EXCEPT ![c].pc = "find", ![c].inode = i]
          PROVE  job' = [job EXCEPT ![c] = [J EXCEPT !.pc = "find", !.inode = i]]
      BY <1>0, <3>1 DEF IInv, TypeInv, Jobs
    <3> QED
      BY <1>1, <3>1 DEF Readlink
  <2>2. j \in Jobs
    BY <2>1, <1>0 DEF Jobs, PCs
  <2>3. J.pc = "new" /\ j.pc \in {"find", "return"} /\ j.ret = J.ret /\ j.lines = J.lines
        /\ (j.pc = "find" => j.inode \in Inodes)
    BY <2>1, <1>0, <1>1 DEF Readlink, Jobs
  <2>4. ScanInv(c)'
    BY <2>1, <2>3, <1>b, <1>0 DEF ScanInv, LockInv, WantedInv, HandInv, LinesInv, Holds, InFile
  <2> QED
    BY <1>a, <1>1, <2>1, <2>2, <2>3, <2>4 DEF Readlink
<1>2. CASE Find(c)
  <2>1. PICK j : /\ job' = [job EXCEPT ![c] = j]
                 /\ \/ ConnectionsMap[J.inode] # Nil
                       /\ j = [J EXCEPT !.pc = "return", !.ret = ConnectionsMap[J.inode]]
                    \/ j = [J EXCEPT !.pc = "lock"]
    BY <1>2 DEF Find
  <2>2. ConnectionsMap[J.inode] \in Infos \cup {Nil}
    BY <1>0, <1>2 DEF Find, IInv, TypeInv, ScanInv, LockInv
  <2>3. j \in Jobs
    BY <2>1, <2>2, <1>0 DEF Jobs, PCs
  <2>4. ScanInv(c)'
    <3>1. job'[c] = j
      BY <2>1, <1>b
    <3>2. CASE j.pc = "return"
      BY <3>1, <3>2, Ended
    <3>3. CASE j.pc = "lock"
      <4>1. /\ J.pc = "find" /\ J.inode \in Inodes /\ J.ret = Nil /\ J.lines = NoLines
        BY <1>0, <1>2 DEF Find, ScanInv, LockInv, WantedInv
      <4>2. j.inode = J.inode /\ j.ret = J.ret /\ j.lines = J.lines
        BY <1>0, <2>1, <3>3 DEF Jobs
      <4> QED
        BY <3>1, <3>3, <4>1, <4>2 DEF ScanInv, LockInv, WantedInv, HandInv, LinesInv, Holds, InFile
    <3> QED
      BY <1>0, <2>1, <3>2, <3>3 DEF Jobs
  <2> QED
    BY <1>a, <1>2, <2>1, <2>3, <2>4 DEF Find
<1>3. CASE Lock(c)
  <2>1. PICK j : job' = [job EXCEPT ![c] = j] /\ j = [J EXCEPT !.pc = "look"]
    BY <1>3 DEF Lock
  <2>2. j \in Jobs
    BY <2>1, <1>0 DEF Jobs, PCs
  <2>3. ScanInv(c)'
    BY <2>1, <1>b, <1>0, <1>3 DEF Lock, ScanInv, LockInv, WantedInv, HandInv, LinesInv, Holds, InFile, Jobs
  <2> QED
    BY <1>a, <1>3, <2>1, <2>2, <2>3 DEF Lock
<1>4. CASE Look(c)
  <2>1. PICK j : /\ job' = [job EXCEPT ![c] = j]
                 /\ \/ ConnectionsMap[J.inode] # Nil
                       /\ j = [J EXCEPT !.pc = "unlock", !.ret = ConnectionsMap[J.inode]]
                    \/ ConnectionsMap[J.inode] = Nil
                       /\ j = [J EXCEPT !.pc = "read", !.n = 1]
    <3>1. ASSUME NEW o, job' = [job EXCEPT ![c].pc = "unlock", ![c].ret = o]
          PROVE  job' = [job EXCEPT ![c] = [J EXCEPT !.pc = "unlock", !.ret = o]]
      BY <1>0, <3>1 DEF IInv, TypeInv, Jobs
    <3>2. ASSUME job' = [job EXCEPT ![c].pc = "read", ![c].n = 1]
          PROVE  job' = [job EXCEPT ![c] = [J EXCEPT !.pc = "read", !.n = 1]]
      BY <1>0, <3>2 DEF IInv, TypeInv, Jobs
    <3> QED
      BY <1>4, <3>1, <3>2 DEF Look
  <2>2. ConnectionsMap[J.inode] \in Infos \cup {Nil}
    BY <1>0, <1>4 DEF Look, IInv, TypeInv, ScanInv, LockInv
  <2>3. j \in Jobs
    <3>1. 1 \in 0 .. 5
      OBVIOUS
    <3>2. {"unlock", "read"} \subseteq PCs
      BY DEF PCs
    <3> QED
      BY <2>1, <2>2, <1>0, <3>1, <3>2 DEF Jobs
  <2>4. ScanInv(c)'
    <3>1. J.inode \in Inodes /\ cLock = c /\ J.ret = Nil /\ J.lines = NoLines
      BY <1>0, <1>4 DEF Look, ScanInv, LockInv, WantedInv, Holds
    <3>2. CASE j.pc = "unlock"
      BY <1>4, <1>b, <2>1, <3>1, <3>2, Scanned, <1>0 DEF Look, Jobs
    <3>3. CASE j.pc = "read"
      <4>1. job'[c] = j /\ j.ret = Nil /\ j.lines = NoLines /\ j.n = 1 /\ j.inode = J.inode
            /\ ConnectionsMap'[J.inode] = Nil /\ cLock' = c
        BY <1>4, <1>b, <2>1, <3>1, <3>3, <1>0 DEF Look, Jobs
      <4> QED
        BY <3>1, <3>3, <4>1, EmptyFile DEF ScanInv, LockInv, WantedInv, HandInv, LinesInv, Holds, InFile
    <3> QED
      BY <2>1, <1>0, <3>2, <3>3 DEF Jobs
  <2> QED
    BY <1>a, <1>4, <2>1, <2>3, <2>4 DEF Look
<1>5. CASE Unlock(c)
  <2>1. PICK j : /\ job' = [job EXCEPT ![c] = j]
                 /\ j = [J EXCEPT !.pc = "return"]
    BY <1>5 DEF Unlock
  <2>2. j \in Jobs
    BY <2>1, <1>0 DEF Jobs, PCs
  <2>3. ScanInv(c)'
    <3>1. job'[c] = j
      BY <2>1, <1>b
    <3>2. j.pc = "return"
      BY <2>1, <1>0 DEF Jobs
    <3> QED
      BY <3>1, <3>2, Ended
  <2>4. J.pc \in Holds /\ J.pc # "rewrite" /\ UNCHANGED <<socket, ConnectionsMap, infos>>
    BY <1>5 DEF Unlock, Holds
  <2> QED
    BY <1>a, <2>1, <2>2, <2>3, <2>4
<1>6. CASE ReadFile(c)
  <2>1. PICK S \in SUBSET Inodes :
          /\ \A i \in S : socket[i] # Nil
          /\ job' = [job EXCEPT ![c] = [J EXCEPT !.pc = "lines", !.lines = [i \in S |-> socket[i]],
                                                !.todo = S]]
    <3>1. PICK S \in SUBSET Inodes :
            /\ \A i \in S : socket[i] # Nil
            /\ job' = [job EXCEPT ![c].pc = "lines", ![c].lines = [i \in S |-> socket[i]],
                                  ![c].todo = S]
      BY <1>6 DEF ReadFile, Listed
    <3>2. job' = [job EXCEPT ![c] = [J EXCEPT !.pc = "lines", !.lines = [i \in S |-> socket[i]],
                                              !.todo = S]]
      BY <1>0, <3>1 DEF IInv, TypeInv, Jobs
    <3> QED
      BY <3>1, <3>2
  <2> DEFINE g == [i \in S |-> socket[i]]
             j == [J EXCEPT !.pc = "lines", !.lines = g, !.todo = S]
  <2>2. g \in [S -> Lines]
    BY <2>1 DEF IInv, TypeInv
  <2>3. g \in AllLines /\ DOMAIN g = S
    BY <2>2, SomeLines
  <2>7. job' = [job EXCEPT ![c] = j]
    BY <2>1
  <2> HIDE DEF g
  <2>4. j \in Jobs
    BY <2>3, <1>0 DEF Jobs, PCs
  <2>5. J.n \in 1 .. 4
    <3>1. J.n >= 1 /\ J.n <= 4
      BY <1>0, <1>6 DEF ReadFile, ScanInv, WantedInv
    <3>2. J.n \in 0 .. 5
      BY <1>0 DEF Jobs
    <3> QED
      BY <3>1, <3>2
  <2>6. ScanInv(c)'
    <3>1. J.inode \in Inodes /\ cLock = c /\ J.ret = Nil /\ ConnectionsMap[J.inode] = Nil
      BY <1>0, <1>6 DEF ReadFile, ScanInv, LockInv, WantedInv, Holds
    <3>2. /\ job'[c] = j /\ j.pc = "lines" /\ j.ret = Nil /\ j.lines = g /\ j.todo = S
          /\ j.inode = J.inode /\ j.n = J.n /\ UNCHANGED <<ConnectionsMap, infos, cLock>>
      BY <1>6, <1>b, <2>7, <3>1, <1>0 DEF ReadFile, Jobs
    <3> QED
      BY <2>3, <2>5, <3>1, <3>2 DEF ScanInv, LockInv, WantedInv, HandInv, LinesInv, Holds, InFile
  <2> QED
    BY <1>a, <1>6, <2>7, <2>4, <2>6 DEF ReadFile
<1>7. CASE NextFile(c)
  <2>1. PICK j : /\ job' = [job EXCEPT ![c] = j]
                 /\ j = [J EXCEPT !.pc = IF J.ret # Nil THEN "unlock" ELSE "read", !.n = J.n + 1,
                                !.lines = NoLines, !.info = Nil]
    BY <1>7 DEF NextFile
  <2>2. j \in Jobs
    <3>1. J.n \in 1 .. 4
      BY <1>0, <1>7 DEF NextFile, ScanInv, LinesInv, InFile
    <3>2. J.n + 1 \in 0 .. 5
      BY <3>1
    <3>3. {"unlock", "read"} \subseteq PCs
      BY DEF PCs
    <3> QED
      BY <2>1, <1>0, <3>2, <3>3, EmptyFile DEF Jobs
  <2>3. ScanInv(c)'
    <3>1. J.inode \in Inodes /\ cLock = c /\ J.n + 1 >= 1
          /\ (J.ret = Nil => ConnectionsMap[J.inode] = Nil)
      BY <1>0, <1>7 DEF NextFile, ScanInv, LockInv, WantedInv, LinesInv, InFile, Holds
    <3>2. /\ job'[c] = j /\ j.pc = (IF J.ret # Nil THEN "unlock" ELSE "read") /\ j.ret = J.ret
          /\ j.lines = NoLines /\ j.n = J.n + 1 /\ j.inode = J.inode
          /\ UNCHANGED <<ConnectionsMap, infos, cLock>>
      BY <1>7, <1>b, <2>1, <3>1, <1>0 DEF NextFile, Jobs
    <3>3. CASE J.ret # Nil
      BY <3>1, <3>2, <3>3, Scanned
    <3>4. CASE J.ret = Nil
      BY <3>1, <3>2, <3>4, EmptyFile DEF ScanInv, LockInv, WantedInv, HandInv, LinesInv, Holds, InFile
    <3> QED
      BY <3>3, <3>4
  <2> QED
    BY <1>a, <1>7, <2>1, <2>2, <2>3 DEF NextFile
<1>8. CASE NoMoreFiles(c)
  <2>1. PICK j : /\ job' = [job EXCEPT ![c] = j]
                 /\ j = [J EXCEPT !.pc = "unlock"]
    BY <1>8 DEF NoMoreFiles
  <2>2. j \in Jobs
    BY <2>1, <1>0 DEF Jobs, PCs
  <2>3. ScanInv(c)'
    BY <2>1, <2>2, <1>b, <1>0, <1>8 DEF NoMoreFiles, ScanInv, LockInv, WantedInv, HandInv, LinesInv, Holds, InFile, Jobs
  <2> QED
    BY <1>a, <1>8, <2>1, <2>2, <2>3 DEF NoMoreFiles
<1>9. CASE Assign(c)
  <2>1. PICK j : /\ job' = [job EXCEPT ![c] = j]
                 /\ j = [J EXCEPT !.pc = "done"]
    BY <1>9 DEF Assign
  <2>2. j \in Jobs
    BY <2>1, <1>0 DEF Jobs, PCs
  <2>3. ScanInv(c)'
    BY <2>1, <2>2, <1>b, <1>0, <1>9 DEF Assign, ScanInv, LockInv, WantedInv, HandInv, LinesInv, Holds, InFile, Jobs
  <2> QED
    BY <1>a, <1>9, <2>1, <2>2, <2>3 DEF Assign
<1> QED
  BY <1>1, <1>2, <1>3, <1>4, <1>5, <1>6, <1>7, <1>8, <1>9

(* The last field has been rewritten: the ConnectionInfo is whole, and has *)
(* the ports of its line.                                                  *)
LEMMA EndRewriteOK ==
    ASSUME IInv, NEW c \in Connections, EndRewrite(c)
    PROVE  IInv'
<1> DEFINE J == job[c]
           o == J.info
           j == [J EXCEPT !.pc = "lines", !.k = 0]
<1>0. /\ J \in Jobs /\ ScanInv(c) /\ J.pc = "rewrite" /\ J.k > NFields /\ cLock' = cLock
      /\ UNCHANGED <<socket, ConnectionsMap, infos>>
      /\ job' = [job EXCEPT ![c] = [J EXCEPT !.pc = AfterLine(c, o[2]), !.k = 0]]
  BY DEF IInv, TypeInv, EndRewrite, At
<1>1. /\ o \in Infos /\ infos[o] \in Records /\ o[2] \in DOMAIN J.lines \ J.todo
      /\ o[2] # J.inode /\ ConnectionsMap[o[2]] \in {o, Nil} /\ J.lines[o[2]] \in Lines
      /\ \A k \in 1 .. NFields : infos[o][Fields[k]] = Content(J.lines[o[2]])[Fields[k]]
  <2>1. J.lines \in AllLines
    BY <1>0 DEF Jobs
  <2>2. HandInv(c)
    BY <1>0 DEF ScanInv
  <2>3. \A k \in 1 .. NFields : k < J.k
    BY <1>0 DEF Jobs, NFields
  <2> QED
    BY <1>0, <2>1, <2>2, <2>3, LineFacts DEF HandInv
<1>2. job' = [job EXCEPT ![c] = j] /\ j \in Jobs
  <2>1. AfterLine(c, o[2]) = "lines"
    BY <1>1 DEF AfterLine
  <2>2. "lines" \in PCs /\ 0 \in 0 .. NFields + 1
    BY DEF PCs, NFields
  <2> QED
    BY <1>0, <2>1, <2>2 DEF Jobs
<1>3. \A f \in FieldNames : infos[o][f] = Content(J.lines[o[2]])[f]
  BY <1>1, FieldFacts
<1>4. Whole(o)
  BY <1>1, <1>3 DEF Whole
<1>5. SamePorts(o, J.lines[o[2]])
  BY <1>1, <1>3, FieldFacts, ContentFacts DEF SamePorts
<1>6. ScanInv(c)'
  <2>1. /\ job'[c] = j /\ j.pc = "lines" /\ j.lines = J.lines /\ j.todo = J.todo /\ j.ret = J.ret
        /\ j.inode = J.inode /\ j.n = J.n
    BY <1>0, <1>2 DEF IInv, TypeInv, Jobs
  <2> HIDE DEF j
  <2>2. LockInv(c)' /\ WantedInv(c)'
    <3>1. LockInv(c)'
      BY <1>0, <2>1 DEF ScanInv, LockInv, Holds
    <3>2. WantedInv(c)'
      BY <1>0, <2>1 DEF ScanInv, WantedInv, InFile
    <3> QED
      BY <3>1, <3>2
  <2>3. HandInv(c)'
    BY <2>1 DEF HandInv
  <2>4. LinesInv(c)'
    BY <1>0, <1>1, <1>5, <2>1 DEF ScanInv, LinesInv, InFile, SamePorts
  <2> QED
    BY <2>2, <2>3, <2>4 DEF ScanInv
<1>7. \A d \in Connections \ {c} : job[d].pc \in Holds => cLock' = d
  BY <1>0 DEF IInv, ScanInv, LockInv
<1> QED
  BY <1>0, <1>2, <1>4, <1>6, <1>7, QuietStep

(* A line of a cached inode, which is not the wanted one.                  *)
LEMMA LoadLineOK ==
    ASSUME IInv, NEW c \in Connections, LoadLine(c)
    PROVE  IInv'
<1> DEFINE J == job[c]
<1>0. /\ J \in Jobs /\ ScanInv(c) /\ J.pc = "lines" /\ cLock' = cLock
      /\ UNCHANGED <<socket, ConnectionsMap, infos>>
  BY DEF IInv, TypeInv, LoadLine, At
<1>1. PICK i \in J.todo :
        /\ ConnectionsMap[i] # Nil
        /\ job' = [job EXCEPT ![c] =
             [J EXCEPT !.pc = IF SamePorts(ConnectionsMap[i], J.lines[i])
                              THEN AfterLine(c, i) ELSE "rewrite",
                       !.todo = J.todo \ {i}, !.info = ConnectionsMap[i], !.k = 1]]
  BY DEF LoadLine
<1> DEFINE o == ConnectionsMap[i]
           same == SamePorts(o, J.lines[i])
           j == [J EXCEPT !.pc = IF same THEN "lines" ELSE "rewrite",
                          !.todo = J.todo \ {i}, !.info = o, !.k = 1]
<1>2. /\ i \in DOMAIN J.lines /\ J.lines \in AllLines /\ J.lines[i] \in Lines /\ i \in Inodes
      /\ i # J.inode
  <2>1. i \in DOMAIN J.lines /\ J.lines \in AllLines
    BY <1>0, <1>1 DEF ScanInv, LinesInv, InFile, Jobs
  <2>2. i # J.inode
    BY <1>0, <1>1, <2>1 DEF ScanInv, WantedInv, InFile
  <2> QED
    BY <2>1, <2>2, LineFacts
<1>3. o \in Infos /\ o[2] = i /\ infos[o] \in Records
  BY <1>1, <1>2 DEF IInv, TypeInv, MapInv
<1>4. job' = [job EXCEPT ![c] = j] /\ j \in Jobs
  <2>1. AfterLine(c, i) = "lines"
    BY <1>2 DEF AfterLine
  <2>2. {"lines", "rewrite"} \subseteq PCs /\ 1 \in 0 .. NFields + 1
    BY DEF PCs, NFields
  <2> HIDE DEF same
  <2>3. j \in Jobs
    BY <1>0, <1>3, <2>2 DEF Jobs
  <2> QED
    BY <1>1, <2>1, <2>3 DEF same
<1> HIDE DEF same
<1>5. /\ job'[c] = j /\ j.pc = (IF same THEN "lines" ELSE "rewrite") /\ j.lines = J.lines
      /\ j.todo = J.todo \ {i} /\ j.ret = J.ret /\ j.inode = J.inode /\ j.n = J.n
      /\ j.info = o /\ j.k = 1
  BY <1>0, <1>4 DEF IInv, TypeInv, Jobs
<1>6. ScanInv(c)'
  <2>1. (LockInv(c) /\ WantedInv(c))'
    BY <1>0, <1>2, <1>5 DEF ScanInv, LockInv, WantedInv, Holds, InFile
  <2>2. HandInv(c)'
    <3>1. \A k \in 1 .. NFields : ~(k < 1)
      BY DEF NFields
    <3>2. /\ o[2] = i /\ i \in DOMAIN J.lines \ (J.todo \ {i})
          /\ ConnectionsMap'[i] = o /\ infos' = infos
      BY <1>0, <1>2, <1>3
    <3>3. job'[c].pc \in {"lines", "rewrite"}
      BY <1>5
    <3> QED
      BY <1>2, <1>3, <1>5, <3>1, <3>2, <3>3 DEF HandInv
  <2>3. LinesInv(c)'
    BY <1>0, <1>2, <1>3, <1>5 DEF ScanInv, LinesInv, InFile, SamePorts, same
  <2> QED
    BY <2>1, <2>2, <2>3 DEF ScanInv
<1>7. \A d \in Connections \ {c} : job[d].pc \in Holds => cLock' = d
  BY <1>0 DEF IInv, ScanInv, LockInv
<1> QED
  BY <1>0, <1>4, <1>6, <1>7, QuietStep

-----------------------------------------------------------------------------
(* Steps that write: only who holds the lock does, so that no other scan   *)
(* is in progress.                                                         *)
LEMMA WritingStep ==
    ASSUME IInv, NEW c \in Connections, job[c].pc \in Holds, UNCHANGED socket,
           ConnectionsMap' \in [Inodes -> Infos \cup {Nil}], infos' \in [Infos -> Records \cup {Nil}],
           NEW j \in Jobs, job' = [job EXCEPT ![c] = j],
           MapInv', WholeInv', ScanInv(c)'
    PROVE  IInv'
<1>1. TypeInv'
  BY DEF IInv, TypeInv
<1>2. \A d \in Connections \ {c} : job'[d] = job[d] /\ job[d].pc \notin Holds
  BY DEF IInv, TypeInv, ScanInv, LockInv
<1>3. \A d \in Connections : ScanInv(d)'
  BY <1>2, NotScanning DEF IInv
<1> QED
  BY <1>1, <1>3 DEF IInv

LEMMA WantedOK ==
    ASSUME IInv, NEW c \in Connections, Wanted(c)
    PROVE  IInv'
<1> DEFINE J == job[c]
           o == J.info
           i == J.inode
           j == [J EXCEPT !.pc = "lines", !.ret = o]
<1>0. /\ J \in Jobs /\ ScanInv(c) /\ J.pc = "wanted" /\ UNCHANGED <<socket, ConnectionsMap, cLock>>
      /\ infos' = [infos EXCEPT ![o]["pid"] = c]
      /\ job' = [job EXCEPT ![c] = [J EXCEPT !.pc = "lines", !.ret = o]]
  BY DEF IInv, TypeInv, Wanted, At, Answer
<1>1. /\ o \in Infos /\ infos[o] \in Records /\ o[2] = i /\ i \in DOMAIN J.lines \ J.todo
      /\ infos[o] = Content(J.lines[i]) /\ J.ret = Nil /\ ConnectionsMap[i] \in {o, Nil}
  BY <1>0 DEF ScanInv, HandInv
<1>2. /\ infos' \in [Infos -> Records \cup {Nil}] /\ infos'[o] \in Records
      /\ infos'[o] = [Content(J.lines[i]) EXCEPT !["pid"] = c]
      /\ \A x \in Infos \ {o} : infos'[x] = infos[x]
      /\ \A f \in FieldNames \ {"pid"} : infos'[o][f] = infos[o][f]
  <2>1. infos \in [Infos -> Records \cup {Nil}] /\ c \in Values
    BY DEF IInv, TypeInv, Values
  <2>2. infos'[o] = [infos[o] EXCEPT !["pid"] = c] /\ \A x \in Infos \ {o} : infos'[x] = infos[x]
    BY <1>0, <1>1, <2>1
  <2>3. [infos[o] EXCEPT !["pid"] = c] \in Records
    BY <1>1, <2>1 DEF Records
  <2>4. infos' \in [Infos -> Records \cup {Nil}]
    BY <1>0, <1>1, <2>1, <2>2, <2>3
  <2>5. \A f \in FieldNames \ {"pid"} : infos'[o][f] = infos[o][f]
    BY <1>1, <2>2 DEF Records
  <2> QED
    BY <1>1, <2>2, <2>3, <2>4, <2>5
<1>3. j \in Jobs
  <2>1. "lines" \in PCs
    BY DEF PCs
  <2> QED
    BY <1>0, <1>1, <2>1 DEF Jobs
<1>4. /\ job'[c] = j /\ j.pc = "lines" /\ j.lines = J.lines /\ j.todo = J.todo /\ j.ret = o
      /\ j.inode = i /\ j.n = J.n
  BY <1>0, <1>1 DEF IInv, TypeInv, Jobs
<1>5. MapInv'
  BY <1>0, <1>2 DEF IInv, TypeInv, MapInv
<1>6. WholeInv'
  <2> SUFFICES ASSUME NEW x \in Infos, infos'[x] # Nil
               PROVE  Whole(x)' \/ \E d \in Connections : Rewrites(d, x)'
    BY DEF WholeInv
  <2>1. CASE x = o
    <3>1. J.lines[i] \in Lines
      BY <1>0, <1>1, LineFacts DEF Jobs
    <3>2. \A f \in FieldNames \ {"pid"} : infos'[o][f] = Content(J.lines[i])[f]
      BY <1>1, <1>2
    <3>3. \E l \in Lines : \A f \in FieldNames \ {"pid"} : infos'[o][f] = Content(l)[f]
      BY <3>1, <3>2
    <3> QED
      BY <2>1, <3>3 DEF Whole
  <2>2. CASE x # o
    <3>1. infos'[x] = infos[x]
      BY <1>2, <2>2
    <3>2. CASE Whole(x)
      BY <3>1, <3>2 DEF Whole
    <3>3. CASE \E d \in Connections : Rewrites(d, x)
      <4>1. PICK d \in Connections : Rewrites(d, x)
        BY <3>3
      <4>2. d # c
        BY <1>0, <4>1 DEF Rewrites
      <4> QED
        BY <1>0, <4>1, <4>2 DEF IInv, TypeInv, Rewrites
    <3> QED
      BY <3>1, <3>2, <3>3 DEF IInv, WholeInv
  <2> QED
    BY <2>1, <2>2
<1>7. ScanInv(c)'
  <2>1. LockInv(c)'
    BY <1>0, <1>4 DEF ScanInv, LockInv, Holds
  <2>2. WantedInv(c)'
    BY <1>1, <1>2, <1>4, NilFacts DEF WantedInv, InFile
  <2>3. HandInv(c)'
    BY <1>4 DEF HandInv
  <2>4. LinesInv(c)'
    <3>1. \A x \in Infos : /\ infos'[x]["sport"] = infos[x]["sport"]
                           /\ infos'[x]["dport"] = infos[x]["dport"]
      BY <1>2, FieldFacts
    <3>2. \A k \in DOMAIN J.lines : k \in Inodes
      BY <1>0, LineFacts DEF Jobs
    <3> QED
      BY <1>0, <1>4, <3>1, <3>2 DEF IInv, TypeInv, ScanInv, LinesInv, InFile, SamePorts
  <2> QED
    BY <2>1, <2>2, <2>3, <2>4 DEF ScanInv
<1>8. ConnectionsMap' \in [Inodes -> Infos \cup {Nil}] /\ J.pc \in Holds
  BY <1>0 DEF IInv, TypeInv, Holds
<1> QED
  BY <1>0, <1>2, <1>3, <1>5, <1>6, <1>7, <1>8, WritingStep

(* One more field of the ConnectionInfo in hand is that of its line.       *)
LEMMA RewriteFieldOK ==
    ASSUME IInv, NEW c \in Connections, RewriteField(c)
    PROVE  IInv'
<1> DEFINE J == job[c]
           o == J.info
           i == o[2]
           F == Fields[J.k]
           v == Content(J.lines[i])[F]
           j == [J EXCEPT !.k = J.k + 1]
<1>0. /\ J \in Jobs /\ ScanInv(c) /\ J.pc = "rewrite" /\ UNCHANGED <<socket, ConnectionsMap, cLock>>
      /\ J.k <= NFields /\ infos' = [infos EXCEPT ![o][F] = v]
      /\ job' = [job EXCEPT ![c] = j]
  BY DEF IInv, TypeInv, RewriteField, At
<1>1. /\ o \in Infos /\ infos[o] \in Records /\ i \in DOMAIN J.lines \ J.todo
      /\ i # J.inode /\ ConnectionsMap[i] \in {o, Nil} /\ J.lines[i] \in Lines
      /\ \A k \in 1 .. NFields : k < J.k => infos[o][Fields[k]] = Content(J.lines[i])[Fields[k]]
      /\ J.k \in 1 .. NFields
  <2>1. J.lines \in AllLines
    BY <1>0 DEF Jobs
  <2>2. HandInv(c)
    BY <1>0 DEF ScanInv
  <2>3. J.k \in 1 .. NFields
    BY <1>0, <2>2 DEF Jobs, NFields, HandInv
  <2> QED
    BY <1>0, <2>1, <2>2, <2>3, LineFacts DEF HandInv
<1>2. F \in FieldNames /\ v \in Values
  BY <1>1, FieldFacts DEF Values
<1> HIDE DEF v, F
<1>3. /\ infos' \in [Infos -> Records \cup {Nil}] /\ infos'[o] \in Records
      /\ infos'[o] = [infos[o] EXCEPT ![F] = v]
      /\ \A x \in Infos \ {o} : infos'[x] = infos[x]
  <2>1. infos \in [Infos -> Records \cup {Nil}]
    BY DEF IInv, TypeInv
  <2>2. infos'[o] = [infos[o] EXCEPT ![F] = v] /\ \A x \in Infos \ {o} : infos'[x] = infos[x]
    BY <1>0, <1>1, <2>1
  <2>3. [infos[o] EXCEPT ![F] = v] \in Records
    BY <1>1, <1>2 DEF Records
  <2> QED
    BY <1>0, <1>1, <2>1, <2>2, <2>3
<1>4. j \in Jobs
  <2>1. J.k + 1 \in 0 .. NFields + 1
    BY <1>1 DEF NFields
  <2> QED
    BY <1>0, <2>1 DEF Jobs
<1>5. /\ job'[c] = j /\ j.pc = "rewrite" /\ j.lines = J.lines /\ j.todo = J.todo /\ j.ret = J.ret
      /\ j.inode = J.inode /\ j.n = J.n /\ j.info = o /\ j.k = J.k + 1
  BY <1>0 DEF IInv, TypeInv, Jobs
<1>6. MapInv'
  BY <1>0, <1>3 DEF IInv, TypeInv, MapInv
<1>7. WholeInv'
  <2> SUFFICES ASSUME NEW x \in Infos, infos'[x] # Nil
               PROVE  Whole(x)' \/ \E d \in Connections : Rewrites(d, x)'
    BY DEF WholeInv
  <2>1. CASE x = o
    BY <1>5, <2>1 DEF Rewrites
  <2>2. CASE x # o
    <3>1. infos'[x] = infos[x]
      BY <1>3, <2>2
    <3>2. CASE Whole(x)
      BY <3>1, <3>2 DEF Whole
    <3>3. CASE \E d \in Connections : Rewrites(d, x)
      <4>1. PICK d \in Connections : Rewrites(d, x)
        BY <3>3
      <4>2. d # c
        BY <2>2, <4>1 DEF Rewrites
      <4> QED
        BY <1>0, <4>1, <4>2 DEF IInv, TypeInv, Rewrites
    <3> QED
      BY <3>1, <3>2, <3>3 DEF IInv, WholeInv
  <2> QED
    BY <2>1, <2>2
<1>8. ScanInv(c)'
  <2>1. LockInv(c)'
    BY <1>0, <1>5 DEF ScanInv, LockInv, Holds
  <2>2. WantedInv(c)'
    <3>1. J.ret # Nil => J.ret \in Infos /\ J.ret # o
      BY <1>0, <1>1 DEF ScanInv, WantedInv, InFile, Jobs
    <3> QED
      BY <1>0, <1>3, <1>5, <3>1 DEF ScanInv, WantedInv, InFile
  <2>3. HandInv(c)'
    <3>1. ASSUME NEW k \in 1 .. NFields, k < J.k + 1
          PROVE  infos'[o][Fields[k]] = Content(J.lines[i])[Fields[k]]
      <4>1. CASE k = J.k
        BY <1>1, <1>2, <1>3, <4>1 DEF F, v, Records
      <4>2. CASE k < J.k
        <5>1. Fields[k] # F
          BY <1>1, <3>1, <4>2, DifferentFields DEF F
        <5> QED
          BY <1>1, <1>2, <1>3, <3>1, <4>2, <5>1, FieldFacts DEF Records
      <4> QED
        BY <1>1, <3>1, <4>1, <4>2 DEF NFields
    <3>2. J.k + 1 >= 1
      BY <1>1 DEF NFields
    <3> QED
      BY <1>0, <1>1, <1>3, <1>5, <3>1, <3>2 DEF HandInv
  <2>4. LinesInv(c)'
    <3>1. \A k \in DOMAIN J.lines : k \in Inodes
      BY <1>0, LineFacts DEF Jobs
    <3>2. \A k \in DOMAIN J.lines \ {i} : ConnectionsMap[k] # Nil =>
             infos'[ConnectionsMap[k]] = infos[ConnectionsMap[k]]
      BY <1>3, <3>1 DEF IInv, TypeInv, MapInv
    <3> QED
      BY <1>0, <1>5, <3>1, <3>2 DEF ScanInv, LinesInv, InFile, SamePorts
  <2> QED
    BY <2>1, <2>2, <2>3, <2>4 DEF ScanInv
<1>9. ConnectionsMap' \in [Inodes -> Infos \cup {Nil}] /\ J.pc \in Holds
  BY <1>0 DEF IInv, TypeInv, Holds
<1> QED
  BY <1>0, <1>3, <1>4, <1>6, <1>7, <1>8, <1>9, WritingStep

(* A new ConnectionInfo, for the wanted inode or for another.              *)
LEMMA StoreLineOK ==
    ASSUME IInv, NEW c \in Connections, StoreLine(c)
    PROVE  IInv'
<1> DEFINE J == job[c]
<1>0. /\ J \in Jobs /\ ScanInv(c) /\ J.pc = "lines" /\ UNCHANGED <<socket, cLock>>
  BY DEF IInv, TypeInv, StoreLine, At
<1>1. PICK i \in J.todo :
        LET o == <<c, i, InOrder[J.n]>>
        IN  /\ ConnectionsMap[i] = Nil
            /\ ConnectionsMap' = [ConnectionsMap EXCEPT ![i] = o]
            /\ infos' = [infos EXCEPT ![o] = Content(J.lines[i])]
            /\ job' = [job EXCEPT ![c] = [J EXCEPT !.pc = AfterLine(c, i),
                                                  !.todo = J.todo \ {i}, !.info = o]]
  BY DEF StoreLine
<1> DEFINE o == <<c, i, InOrder[J.n]>>
           l == J.lines[i]
           next == AfterLine(c, i)
           j == [J EXCEPT !.pc = next, !.todo = J.todo \ {i}, !.info = o]
<1>2. /\ i \in DOMAIN J.lines /\ l \in Lines /\ i \in Inodes /\ J.n \in 1 .. 4
      /\ DOMAIN J.lines \subseteq Inodes
  <2>1. i \in DOMAIN J.lines /\ J.lines \in AllLines /\ J.n \in 1 .. 4
    BY <1>0, <1>1 DEF ScanInv, LinesInv, InFile, Jobs
  <2> QED
    BY <2>1, LineFacts
<1>3. o \in Infos /\ o[2] = i /\ o # Nil
  BY <1>2, InfoFacts, NilFacts
<1> HIDE DEF o, l, next
<1>4. /\ infos' \in [Infos -> Records \cup {Nil}] /\ infos'[o] = Content(l) /\ Content(l) \in Records
      /\ \A x \in Infos \ {o} : infos'[x] = infos[x]
      /\ ConnectionsMap' \in [Inodes -> Infos \cup {Nil}] /\ ConnectionsMap'[i] = o
      /\ \A k \in Inodes \ {i} : ConnectionsMap'[k] = ConnectionsMap[k]
  <2>1. infos' = [infos EXCEPT ![o] = Content(l)]
    BY <1>1 DEF o, l
  <2>2. ConnectionsMap' = [ConnectionsMap EXCEPT ![i] = o]
    BY <1>1 DEF o
  <2> QED
    BY <2>1, <2>2, <1>2, <1>3, ContentFacts DEF IInv, TypeInv
<1>5. job' = [job EXCEPT ![c] = j] /\ j \in Jobs /\ next \in {"lines", "wanted"}
  <2>1. next \in PCs /\ next \in {"lines", "wanted"}
    BY DEF PCs, next, AfterLine
  <2>2. job' = [job EXCEPT ![c] = j]
    BY <1>1 DEF o, next
  <2> QED
    BY <1>0, <1>3, <2>1, <2>2 DEF Jobs
<1>6. /\ job'[c] = j /\ j.pc = next /\ j.lines = J.lines /\ j.todo = J.todo \ {i} /\ j.ret = J.ret
      /\ j.inode = J.inode /\ j.n = J.n /\ j.info = o
  BY <1>0, <1>5 DEF IInv, TypeInv, Jobs
<1>7. \A k \in Inodes \ {i} : ConnectionsMap[k] # Nil =>
         ConnectionsMap[k] \in Infos /\ infos'[ConnectionsMap[k]] = infos[ConnectionsMap[k]]
  BY <1>3, <1>4 DEF IInv, TypeInv, MapInv
<1>8. MapInv'
  BY <1>3, <1>4, <1>7 DEF IInv, MapInv
<1>9. WholeInv'
  <2> SUFFICES ASSUME NEW x \in Infos, infos'[x] # Nil
               PROVE  Whole(x)' \/ \E d \in Connections : Rewrites(d, x)'
    BY DEF WholeInv
  <2>1. CASE x = o
    BY <1>2, <1>4, <2>1 DEF Whole
  <2>2. CASE x # o
    <3>1. infos'[x] = infos[x]
      BY <1>4, <2>2
    <3>2. CASE Whole(x)
      BY <3>1, <3>2 DEF Whole
    <3>3. CASE \E d \in Connections : Rewrites(d, x)
      <4>1. PICK d \in Connections : Rewrites(d, x)
        BY <3>3
      <4>2. d # c
        BY <1>0, <4>1 DEF Rewrites
      <4> QED
        BY <1>5, <4>1, <4>2 DEF IInv, TypeInv, Rewrites
    <3> QED
      BY <3>1, <3>2, <3>3 DEF IInv, WholeInv
  <2> QED
    BY <2>1, <2>2
<1>10. ScanInv(c)'
  <2>1. LockInv(c)'
    BY <1>0, <1>5, <1>6 DEF ScanInv, LockInv, Holds
  <2>2. i = J.inode => J.ret = Nil
    BY <1>0, <1>1 DEF ScanInv, WantedInv, InFile
  <2>3. J.inode \in Inodes
    BY <1>0 DEF ScanInv, LockInv
  <2>4. WantedInv(c)'
    <3>1. CASE J.ret # Nil
      <4>1. J.ret \in Infos /\ J.ret # o /\ infos'[J.ret] = infos[J.ret]
        BY <1>0, <1>3, <1>4, <2>2, <3>1 DEF ScanInv, WantedInv, InFile, Jobs
      <4> QED
        BY <1>0, <1>5, <1>6, <3>1, <4>1 DEF ScanInv, WantedInv, InFile
    <3>2. CASE J.ret = Nil /\ i = J.inode
      BY <1>6, <3>2 DEF WantedInv, InFile, next, AfterLine
    <3>3. CASE J.ret = Nil /\ i # J.inode
      BY <1>0, <1>4, <1>5, <1>6, <2>3, <3>3 DEF ScanInv, WantedInv, InFile
    <3> QED
      BY <3>1, <3>2, <3>3
  <2>5. HandInv(c)'
    <3>1. next = "wanted" => i = J.inode
      BY DEF next, AfterLine
    <3>2. i \in DOMAIN J.lines \ (J.todo \ {i}) /\ infos'[o] = Content(J.lines[i])
      BY <1>2, <1>4 DEF l
    <3> HIDE DEF j
    <3>3. /\ job'[c].pc = next /\ job'[c].info = o /\ job'[c].lines = J.lines
          /\ job'[c].todo = J.todo \ {i} /\ job'[c].inode = J.inode /\ job'[c].ret = J.ret
      BY <1>6
    <3>4. /\ o \in Infos /\ infos'[o] \in Records /\ o[2] = i /\ ConnectionsMap'[o[2]] = o
          /\ infos'[o] = Content(J.lines[i])
      BY <1>3, <1>4, <3>2
    <3>5. next = "wanted" => i = J.inode /\ J.ret = Nil
      BY <2>2, <3>1
    <3> QED
      BY <1>5, <3>2, <3>3, <3>4, <3>5 DEF HandInv
  <2>6. LinesInv(c)'
    <3>1. infos'[o]["sport"] = l.sport /\ infos'[o]["dport"] = l.dport
      BY <1>2, <1>4, ContentFacts
    <3>2. ASSUME NEW k \in DOMAIN J.lines \ (J.todo \ {i}), ConnectionsMap'[k] # Nil
          PROVE  /\ infos'[ConnectionsMap'[k]]["sport"] = J.lines[k].sport
                 /\ infos'[ConnectionsMap'[k]]["dport"] = J.lines[k].dport
      <4>1. CASE k = i
        BY <1>4, <3>1, <4>1 DEF l
      <4>2. CASE k # i
        BY <1>0, <1>2, <1>4, <1>7, <3>2, <4>2 DEF ScanInv, LinesInv, InFile, SamePorts
      <4> QED
        BY <4>1, <4>2
    <3> QED
      BY <1>0, <1>2, <1>5, <1>6, <3>2 DEF ScanInv, LinesInv, InFile, SamePorts
  <2> QED
    BY <2>1, <2>4, <2>5, <2>6 DEF ScanInv
<1> QED
  BY <1>0, <1>4, <1>5, <1>8, <1>9, <1>10, WritingStep DEF Holds

(* A close deletes at most an entry, and a change of the kernel's sockets  *)
(* is not seen by those who have read a file.                              *)
LEMMA CloseOK ==
    ASSUME IInv, NEW c \in Connections, Close(c)
    PROVE  IInv'
<1>0. UNCHANGED <<socket, infos, cLock, job>>
  BY DEF Close
<1>1. /\ ConnectionsMap' \in [Inodes -> Infos \cup {Nil}]
      /\ \A i \in Inodes : ConnectionsMap'[i] \in {ConnectionsMap[i], Nil}
  <2>1. CASE job[c].ret = Nil
    BY <2>1 DEF Close, IInv, TypeInv
  <2>2. CASE job[c].ret # Nil
    BY <2>2 DEF Close, IInv, TypeInv
  <2> QED
    BY <2>1, <2>2
<1>2. TypeInv'
  BY <1>0, <1>1 DEF IInv, TypeInv
<1>3. MapInv'
  BY <1>0, <1>1 DEF IInv, MapInv
<1>4. WholeInv'
  BY <1>0 DEF IInv, WholeInv, Whole, Rewrites
<1>5. ASSUME NEW d \in Connections PROVE ScanInv(d)'
  <2>0. ScanInv(d) /\ job[d] \in Jobs
    BY DEF IInv, TypeInv
  <2>1. DOMAIN job[d].lines \subseteq Inodes
    BY <2>0, LineFacts DEF Jobs
  <2>2. LockInv(d)'
    BY <1>0, <2>0 DEF ScanInv, LockInv
  <2>3. WantedInv(d)'
    BY <1>0, <1>1, <2>0 DEF ScanInv, LockInv, WantedInv
  <2>4. HandInv(d)'
    BY <1>0, <1>1, <2>0, <2>1 DEF ScanInv, HandInv
  <2>5. LinesInv(d)'
    BY <1>0, <1>1, <2>0, <2>1 DEF ScanInv, LinesInv, SamePorts
  <2> QED
    BY <2>2, <2>3, <2>4, <2>5 DEF ScanInv
<1> QED
  BY <1>2, <1>3, <1>4, <1>5 DEF IInv

LEMMA SameOK ==
    ASSUME IInv, UNCHANGED <<ConnectionsMap, infos, cLock, job>>, socket' \in [Inodes -> Lines \cup {Nil}]
    PROVE  IInv'
<1>1. TypeInv' /\ MapInv' /\ WholeInv'
  BY DEF IInv, TypeInv, MapInv, WholeInv, Whole, Rewrites
<1>2. ASSUME NEW d \in Connections PROVE ScanInv(d)'
  BY Undisturbed DEF IInv, ScanInv, LockInv
<1> QED
  BY <1>1, <1>2 DEF IInv

LEMMA StepOK == IInv /\ [Next]_vars => IInv'
<1> SUFFICES ASSUME IInv, [Next]_vars PROVE IInv'
  OBVIOUS
<1>1. ASSUME NEW i \in Inodes, Change(i) PROVE IInv'
  <2>1. socket' \in [Inodes -> Lines \cup {Nil}]
    BY <1>1 DEF Change, IInv, TypeInv
  <2> QED
    BY <1>1, <2>1, SameOK DEF Change
<1>2. ASSUME NEW c \in Connections, Resolve(c) PROVE IInv'
  BY <1>2, QuietSteps, EndRewriteOK, LoadLineOK, WantedOK, RewriteFieldOK, StoreLineOK DEF Resolve
<1>3. ASSUME NEW c \in Connections, Close(c) PROVE IInv'
  BY <1>3, CloseOK
<1>4. CASE UNCHANGED vars
  BY <1>4, SameOK DEF vars, IInv, TypeInv
<1> QED
  BY <1>1, <1>2, <1>3, <1>4 DEF Next

-----------------------------------------------------------------------------
(* Between scans every ConnectionInfo has the fields of one line, although *)
(* refreshFromInet rewrites it field by field (connection.go:177-188).     *)
THEOREM InfosStayWhole == Spec => []InfosAreWhole
<1>1. IInv => InfosAreWhole
  BY NilFacts DEF IInv, InfosAreWhole, WholeInv, Rewrites, ScanInv, LockInv, Holds, Free
<1> QED
  BY <1>1, InitOK, StepOK, PTL DEF Spec

(* A scan brings the ports of what is cached up to date, and answers with  *)
(* the line of the wanted inode, or nothing if the file lacks it.          *)
THEOREM ScansAgree == Spec => []ScansAgreeWithFiles
<1>1. IInv => ScansAgreeWithFiles
  <2> SUFFICES ASSUME IInv, NEW c \in Connections, At(c, "lines"), job[c].todo = {}
               PROVE  /\ \A j \in DOMAIN job[c].lines :
                           ConnectionsMap[j] # Nil => SamePorts(ConnectionsMap[j], job[c].lines[j])
                      /\ job[c].ret # Nil <=> job[c].inode \in DOMAIN job[c].lines
                      /\ job[c].ret # Nil => infos[job[c].ret] =
                           [Content(job[c].lines[job[c].inode]) EXCEPT !["pid"] = c]
    BY DEF ScansAgreeWithFiles
  <2>1. job[c].pc = "lines" /\ WantedInv(c) /\ LinesInv(c)
    BY DEF At, IInv, ScanInv
  <2> QED
    BY <2>1 DEF WantedInv, LinesInv, InFile
<1> QED
  BY <1>1, InitOK, StepOK, PTL DEF Spec

-----------------------------------------------------------------------------
(* Types.                                                                  *)

(* The values of a field, wherever they come from.                         *)
ValuesOf(f) == CASE f = "pid"                   -> Connections \cup {Nil}
                 [] f \in {"isIPv6", "isLocal"} -> BOOLEAN
                 [] OTHER                       -> LineValues(f)

Typed(x) == \A f \in FieldNames : x[f] \in ValuesOf(f)

(* What is not in IInv: numbers, lines, and the types of the fields of all *)
(* ConnectionInfos that are cached or in somebody's hand.                  *)
InHand(c) == job[c].pc \in {"rewrite", "wanted"} => Typed(infos[job[c].info])

RestInv ==
    /\ changes \in 0 .. MaxChanges
    /\ cLock \in Connections \cup {Free} /\ closed \subseteq Connections
    /\ \A c \in Connections : job[c].todo \subseteq DOMAIN job[c].lines
    /\ \A o \in Infos : infos[o] # Nil => Typed(infos[o])
    /\ \A i \in Inodes : ConnectionsMap[i] # Nil => Typed(infos[ConnectionsMap[i]])
    /\ \A c \in Connections : InHand(c)

LEMMA AllFields ==
    FieldNames = {"pid", "local", "sport", "remote", "dport", "isIPv6", "isLocal", "status"}
<1>1. /\ Fields[1] = "pid" /\ Fields[2] = "local" /\ Fields[3] = "sport" /\ Fields[4] = "remote"
      /\ Fields[5] = "dport" /\ Fields[6] = "isIPv6" /\ Fields[7] = "isLocal"
      /\ Fields[8] = "status"
  BY DEF Fields
<1>2. \A k \in 1 .. 8 : k \in {1, 2, 3, 4, 5, 6, 7, 8}
  OBVIOUS
<1> QED
  BY <1>1, <1>2 DEF FieldNames, NFields

LEMMA ContentTyped ==
    ASSUME NEW l \in Lines, NEW f \in FieldNames
    PROVE  Content(l)[f] \in ValuesOf(f)
<1>1. CASE f = "pid"
  BY <1>1 DEF Content, ValuesOf
<1>2. CASE f = "isIPv6"
  <2>1. Content(l)[f] = (l.file \in {"tcp6", "udp6"})
    BY <1>2 DEF Content
  <2>2. Content(l)[f] \in BOOLEAN
    BY <2>1
  <2> QED
    BY <1>2, <2>2 DEF ValuesOf
<1>3. CASE f = "isLocal"
  <2>1. Content(l)[f] = (l.local \in Loopback)
    BY <1>3 DEF Content
  <2>2. Content(l)[f] \in BOOLEAN
    BY <2>1
  <2> QED
    BY <1>3, <2>2 DEF ValuesOf
<1>4. CASE f \notin {"pid", "isIPv6", "isLocal"}
  BY <1>4 DEF ValuesOf, LineValues
<1> QED
  BY <1>1, <1>2, <1>3, <1>4

LEMMA TypedRecords ==
    ASSUME NEW x \in Records, Typed(x)
    PROVE  x \in ConnectionInfo
<1>1. x = [f \in FieldNames |-> x[f]] /\ DOMAIN x = FieldNames
  BY DEF Records
<1>2. /\ x["pid"] \in Connections \cup {Nil} /\ x["isIPv6"] \in BOOLEAN /\ x["isLocal"] \in BOOLEAN
      /\ x["local"] \in LineValues("local") /\ x["sport"] \in LineValues("sport")
      /\ x["remote"] \in LineValues("remote") /\ x["dport"] \in LineValues("dport")
      /\ x["status"] \in LineValues("status")
  BY AllFields DEF Typed, ValuesOf
<1> QED
  BY <1>1, <1>2, AllFields DEF ConnectionInfo

LEMMA RestInit == Init => RestInv
  BY ResolverAssumption, EmptyFile DEF Init, RestInv, InHand, NewJob

(* What is written into a ConnectionInfo has the type of its field.        *)
LEMMA RestStep == IInv /\ RestInv /\ [Next]_vars => RestInv'
<1> SUFFICES ASSUME IInv, RestInv, [Next]_vars PROVE RestInv'
  OBVIOUS
<1> USE DEF At, Go, Answer
<1>0. TypeInv
  BY DEF IInv
<1>a. ASSUME NEW c \in Connections, UNCHANGED <<changes, closed, infos, ConnectionsMap>>,
             cLock' \in {cLock, c, Free}, \A d \in Connections \ {c} : job'[d] = job[d],
             job'[c].todo \subseteq DOMAIN job'[c].lines, InHand(c)'
      PROVE  RestInv'
  <2>1. \A d \in Connections : InHand(d)'
    BY <1>a DEF RestInv, InHand
  <2> QED
    BY <1>a, <2>1 DEF RestInv
<1>b. ASSUME NEW c \in Connections, UNCHANGED <<changes, closed, cLock>>,
             \A d \in Connections \ {c} : job'[d] = job[d],
             job'[c].todo \subseteq DOMAIN job'[c].lines,
             NEW o \in Infos, \A x \in Infos \ {o} : infos'[x] = infos[x],
             Typed(infos'[o]), job'[c].info = o,
             \A i \in Inodes : ConnectionsMap'[i] \in {ConnectionsMap[i], o}
      PROVE  RestInv'
  <2>1. ASSUME NEW x \in Infos, infos[x] # Nil \/ Typed(infos[x]) PROVE Typed(infos'[x])
    BY <1>b, <2>1 DEF RestInv
  <2>2. ASSUME NEW x \in Infos, infos'[x] # Nil PROVE Typed(infos'[x])
    BY <1>b, <2>2 DEF RestInv
  <2>3. ASSUME NEW i \in Inodes, ConnectionsMap'[i] # Nil PROVE Typed(infos'[ConnectionsMap'[i]])
    BY <1>0, <1>b, <2>1, <2>3 DEF RestInv, TypeInv
  <2>4. ASSUME NEW d \in Connections, job'[d].pc \in {"rewrite", "wanted"}
        PROVE  Typed(infos'[job'[d].info])
    <3>1. CASE d = c
      BY <1>b, <3>1
    <3>2. CASE d # c
      <4>1. job'[d] = job[d] /\ Typed(infos[job[d].info])
        BY <1>b, <2>4, <3>2 DEF RestInv, InHand
      <4>2. job[d].info \in Infos
        BY <2>4, <4>1 DEF IInv, ScanInv, HandInv
      <4> QED
        BY <2>1, <4>1, <4>2
    <3> QED
      BY <3>1, <3>2
  <2>5. /\ \A x \in Infos : infos'[x] # Nil => \A f \in FieldNames : infos'[x][f] \in ValuesOf(f)
        /\ \A i \in Inodes : ConnectionsMap'[i] # Nil =>
              \A f \in FieldNames : infos'[ConnectionsMap'[i]][f] \in ValuesOf(f)
        /\ \A d \in Connections : job'[d].pc \in {"rewrite", "wanted"} =>
              \A f \in FieldNames : infos'[job'[d].info][f] \in ValuesOf(f)
    BY <2>2, <2>3, <2>4 DEF Typed
  <2> QED
    BY <1>b, <2>5 DEF RestInv, InHand, Typed
<1>1. ASSUME NEW i \in Inodes, Change(i) PROVE RestInv'
  BY <1>1, ResolverAssumption DEF Change, RestInv, InHand
<1>2. ASSUME NEW c \in Connections, Close(c) PROVE RestInv'
  <2>1. \A i \in Inodes : ConnectionsMap'[i] \in {ConnectionsMap[i], Nil}
    BY <1>0, <1>2 DEF Close, TypeInv
  <2> QED
    BY <1>2, <2>1 DEF Close, RestInv, InHand
<1>3. ASSUME NEW c \in Connections, Resolve(c) PROVE RestInv'
  <2> DEFINE J == job[c]
  <2>0. J \in Jobs /\ J.todo \subseteq DOMAIN J.lines /\ ScanInv(c)
        /\ \A j : job' = [job EXCEPT ![c] = j] =>
                job'[c] = j /\ \A d \in Connections \ {c} : job'[d] = job[d]
    BY <1>0 DEF TypeInv, RestInv, IInv
  <2>1. CASE Readlink(c)
    BY <1>0, <1>a, <2>0, <2>1 DEF Readlink, TypeInv, Jobs, InHand
  <2>2. CASE Find(c) \/ Look(c)
    BY <1>0, <1>a, <2>0, <2>2 DEF Find, Look, TypeInv, Jobs, InHand
  <2>3. CASE Lock(c) \/ Unlock(c)
    BY <1>0, <1>a, <2>0, <2>3 DEF Lock, Unlock, TypeInv, Jobs, InHand
  <2>4. CASE NoMoreFiles(c) \/ Assign(c)
    BY <1>0, <1>a, <2>0, <2>4 DEF NoMoreFiles, Assign, TypeInv, Jobs, InHand
  <2>5. CASE ReadFile(c)
    <3>1. PICK S : job' = [job EXCEPT ![c].pc = "lines", ![c].lines = [i \in S |-> socket[i]],
                                      ![c].todo = S]
      BY <2>5 DEF ReadFile
    <3>2. job'[c].todo = S /\ job'[c].pc = "lines" /\ DOMAIN job'[c].lines = S
          /\ \A d \in Connections \ {c} : job'[d] = job[d]
      BY <1>0, <2>0, <3>1 DEF TypeInv, Jobs
    <3> QED
      BY <1>a, <2>5, <3>2 DEF ReadFile, InHand
  <2>6. CASE NextFile(c)
    <3>1. job'[c].todo = {} /\ job'[c].pc \in {"unlock", "read"} /\ \A d \in Connections \ {c} : job'[d] = job[d]
      BY <1>0, <2>0, <2>6 DEF NextFile, TypeInv, Jobs
    <3> QED
      BY <1>a, <2>6, <3>1 DEF NextFile, InHand
  <2>7. CASE LoadLine(c)
    <3>1. PICK i \in J.todo : \E pc, o :
            /\ ConnectionsMap[i] # Nil /\ o = ConnectionsMap[i]
            /\ job' = [job EXCEPT ![c] = [J EXCEPT !.pc = pc, !.todo = J.todo \ {i}, !.info = o, !.k = 1]]
      BY <2>7 DEF LoadLine
    <3>a. PICK pc, o :
            /\ ConnectionsMap[i] # Nil /\ o = ConnectionsMap[i]
            /\ job' = [job EXCEPT ![c] = [J EXCEPT !.pc = pc, !.todo = J.todo \ {i}, !.info = o, !.k = 1]]
      BY <3>1
    <3>2. /\ job'[c] = [J EXCEPT !.pc = pc, !.todo = J.todo \ {i}, !.info = o, !.k = 1]
          /\ \A d \in Connections \ {c} : job'[d] = job[d]
      BY <2>0, <3>a
    <3>3. job'[c].todo = J.todo \ {i} /\ job'[c].lines = J.lines /\ job'[c].info = o
      BY <2>0, <3>2 DEF Jobs
    <3>4. i \in Inodes
      BY <2>0, LineFacts DEF Jobs
    <3>5. InHand(c)' /\ UNCHANGED <<changes, closed, infos, ConnectionsMap, cLock>>
      BY <2>7, <3>a, <3>3, <3>4 DEF LoadLine, RestInv, InHand
    <3> QED
      BY <1>a, <2>0, <3>2, <3>3, <3>5
  <2>8. CASE EndRewrite(c)
    <3>1. /\ job'[c].todo = J.todo /\ job'[c].lines = J.lines /\ job'[c].info = J.info
          /\ \A d \in Connections \ {c} : job'[d] = job[d]
      BY <1>0, <2>0, <2>8 DEF EndRewrite, TypeInv, Jobs
    <3>2. InHand(c)' /\ UNCHANGED <<changes, closed, infos, ConnectionsMap, cLock>>
      BY <2>8, <3>1 DEF EndRewrite, RestInv, InHand
    <3> QED
      BY <1>a, <2>0, <3>1, <3>2
  <2>9. CASE StoreLine(c)
    <3>1. PICK i \in J.todo :
            LET o == <<c, i, InOrder[J.n]>>
            IN  /\ infos' = [infos EXCEPT ![o] = Content(J.lines[i])]
                /\ job' = [job EXCEPT ![c] = [J EXCEPT !.pc = AfterLine(c, i),
                                                      !.todo = J.todo \ {i}, !.info = o]]
      BY <2>9 DEF StoreLine
    <3> DEFINE o == <<c, i, InOrder[J.n]>>
               l == J.lines[i]
    <3>2. i \in Inodes /\ l \in Lines /\ J.n \in 1 .. 4
      <4>1. J.lines \in AllLines /\ J.n \in 1 .. 4
        BY <2>0, <2>9 DEF StoreLine, ScanInv, LinesInv, InFile, Jobs
      <4> QED
        BY <2>0, <4>1, LineFacts
    <3>3. o \in Infos
      BY <3>2, InfoFacts
    <3>4. /\ job'[c] = [J EXCEPT !.pc = AfterLine(c, i), !.todo = J.todo \ {i}, !.info = o]
          /\ \A d \in Connections \ {c} : job'[d] = job[d]
      BY <2>0, <3>1
    <3>5. job'[c].todo = J.todo \ {i} /\ job'[c].lines = J.lines /\ job'[c].info = o
      BY <2>0, <3>4 DEF Jobs
    <3> HIDE DEF o, l
    <3>6. infos' = [infos EXCEPT ![o] = Content(l)]
      BY <3>1 DEF o, l
    <3>7. infos'[o] = Content(l) /\ \A x \in Infos \ {o} : infos'[x] = infos[x]
      BY <1>0, <3>3, <3>6 DEF TypeInv
    <3>8. Typed(infos'[o])
      BY <3>2, <3>7, ContentTyped DEF Typed
    <3>9. \A k \in Inodes : ConnectionsMap'[k] \in {ConnectionsMap[k], o}
      BY <1>0, <2>9, <3>5, <3>2, <3>4 DEF StoreLine, TypeInv
    <3> QED
      BY <1>b, <2>0, <2>9, <3>3, <3>4, <3>5, <3>7, <3>8, <3>9 DEF StoreLine
  <2>10. CASE RewriteField(c)
    <3> DEFINE o == J.info
               f == Fields[J.k]
               v == Content(J.lines[o[2]])[f]
    <3>1. /\ o \in Infos /\ infos[o] \in Records /\ o[2] \in DOMAIN J.lines /\ J.k \in 1 .. NFields
      <4>1. HandInv(c) /\ J.k <= NFields /\ J.pc = "rewrite" /\ J.k \in 0 .. NFields + 1
        BY <2>0, <2>10 DEF RewriteField, ScanInv, Jobs
      <4> QED
        BY <4>1 DEF HandInv, NFields
    <3>2. J.lines[o[2]] \in Lines /\ f \in FieldNames
      BY <2>0, <3>1, LineFacts, FieldFacts DEF Jobs
    <3>3. v \in ValuesOf(f)
      BY <3>2, ContentTyped
    <3>4. infos' = [infos EXCEPT ![o][f] = v]
      BY <2>10 DEF RewriteField
    <3>5. job'[c].todo = J.todo /\ job'[c].lines = J.lines /\ job'[c].info = o
          /\ \A d \in Connections \ {c} : job'[d] = job[d]
      BY <1>0, <2>0, <2>10 DEF RewriteField, TypeInv, Jobs
    <3>6. Typed(infos[o])
      BY <2>10 DEF RewriteField, RestInv, InHand
    <3> HIDE DEF v, f
    <3>7. /\ \A g \in FieldNames : infos'[o][g] = IF g = f THEN v ELSE infos[o][g]
          /\ \A x \in Infos \ {o} : infos'[x] = infos[x]
      BY <1>0, <3>1, <3>2, <3>4 DEF TypeInv, Records
    <3>8. Typed(infos'[o])
      BY <3>3, <3>6, <3>7 DEF Typed
    <3> QED
      BY <1>b, <2>0, <2>10, <3>1, <3>5, <3>7, <3>8 DEF RewriteField
  <2>11. CASE Wanted(c)
    <3> DEFINE o == J.info
    <3>1. o \in Infos /\ infos[o] \in Records
      BY <2>0, <2>11 DEF Wanted, ScanInv, HandInv
    <3>2. infos' = [infos EXCEPT ![o]["pid"] = c]
      BY <2>11 DEF Wanted
    <3>3. job'[c].todo = J.todo /\ job'[c].lines = J.lines /\ job'[c].info = o
          /\ \A d \in Connections \ {c} : job'[d] = job[d]
      BY <1>0, <2>0, <2>11 DEF Wanted, TypeInv, Jobs
    <3>4. Typed(infos[o])
      BY <2>11 DEF Wanted, RestInv, InHand
    <3>5. /\ \A g \in FieldNames : infos'[o][g] = IF g = "pid" THEN c ELSE infos[o][g]
          /\ \A x \in Infos \ {o} : infos'[x] = infos[x]
      BY <1>0, <3>1, <3>2, FieldFacts DEF TypeInv, Records
    <3>6. c \in ValuesOf("pid")
      BY DEF ValuesOf
    <3>7. Typed(infos'[o])
      BY <3>4, <3>5, <3>6 DEF Typed
    <3> QED
      BY <1>b, <2>0, <2>11, <3>1, <3>3, <3>5, <3>7 DEF Wanted
  <2> QED
    BY <1>3, <2>1, <2>2, <2>3, <2>4, <2>5, <2>6, <2>7, <2>8, <2>9, <2>10, <2>11 DEF Resolve
<1>4. CASE UNCHANGED vars
  BY <1>4 DEF vars, RestInv, InHand
<1> QED
  BY <1>1, <1>2, <1>3, <1>4 DEF Next

(* The cache and the jobs keep their types: each field of a ConnectionInfo *)
(* has a value that such a field can have, whoever rewrites it.            *)
THEOREM ResolverTypeCorrect == Spec => []TypeOK
<1>1. IInv /\ RestInv => TypeOK
  <2> SUFFICES ASSUME IInv, RestInv PROVE TypeOK
    OBVIOUS
  <2>1. TypeInv
    BY DEF IInv
  <2>2. infos \in [Infos -> ConnectionInfo \cup {Nil}]
    <3>1. ASSUME NEW o \in Infos PROVE infos[o] \in ConnectionInfo \cup {Nil}
      BY <2>1, TypedRecords DEF TypeInv, RestInv
    <3> QED
      BY <2>1, <3>1 DEF TypeInv
  <2>3. DOMAIN NewJob = {"pc", "inode", "n", "lines", "todo", "info", "k", "ret"}
    BY DEF NewJob
  <2>4. ASSUME NEW c \in Connections
        PROVE  /\ DOMAIN job[c] = DOMAIN NewJob
               /\ job[c].pc \in PCs /\ job[c].inode \in Inodes \cup {Nil}
               /\ job[c].n \in 0 .. 5 /\ job[c].todo \subseteq DOMAIN job[c].lines
               /\ \A i \in DOMAIN job[c].lines : job[c].lines[i] \in Lines
               /\ {job[c].info, job[c].ret} \subseteq Infos \cup {Nil}
               /\ job[c].k \in 0 .. NFields + 1
    <3>1. job[c] \in Jobs
      BY <2>1 DEF TypeInv
    <3>2. DOMAIN job[c] = DOMAIN NewJob
      BY <2>3, <3>1 DEF Jobs
    <3> QED
      BY <3>1, <3>2, LineFacts DEF Jobs, RestInv
  <2> QED
    BY <2>1, <2>2, <2>4 DEF TypeOK, TypeInv, RestInv
<1> QED
  BY <1>1, InitOK, StepOK, RestInit, RestStep, PTL DEF Spec
=============================================================================
