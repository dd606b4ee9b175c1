----------------------------- MODULE ProbeProofs -----------------------------
(* Theorems about Probe, for any number of threads and descriptors.        *)
EXTENDS Probe, TLAPS

(* What a call in progress has left in pid_fid_map: its own descriptor, or *)
(* nothing when the map was full.  Whatever was there before is gone.      *)
OwnDescriptor ==
    \A t \in Threads : th[t].pc = "rw" /\ th[t].whole => pid_fid_map[t] \in {th[t].fd, NoFD}

(* A descriptor that was opened by a traced call is a socket or a file.    *)
OpenedIsTyped == \A t \in Threads : th[t].pc = "opened" => th[t].kind \in {"socket", "file"}

ProbeInv == TypeOK /\ OpenedIsTyped /\ OwnDescriptor /\ TransfersNameTheirDescriptor

(* The state before the first step satisfies the invariant.                *)
LEMMA InitProbe == Init => ProbeInv
  BY ProbeAssumption DEF Init, ProbeInv, TypeOK, OpenedIsTyped, OwnDescriptor, TransfersNameTheirDescriptor, Nothing,
     Running, Doing, NewProcess, StdFDs, Kinds, Keys, Types, tracepoints

(* Once all programs are attached, those of reads and writes are.          *)
LEMMA EntersAttached ==
    ASSUME AllAttached, NEW call \in {"read", "write"}
    PROVE  IsAttached("enter", call)
  <1>1. attached = 8
    BY DEF AllAttached, tracepoints
  <1>2. tracepoints[3] = <<"enter", "write">> /\ tracepoints[5] = <<"enter", "read">>
    BY DEF tracepoints
  <1>3. 3 \in 1 .. attached /\ 5 \in 1 .. attached
    BY <1>1
  <1> QED BY <1>2, <1>3 DEF IsAttached

(* Every step keeps the types.                                             *)
LEMMA NextType == TypeOK /\ OpenedIsTyped /\ [Next]_vars => TypeOK'
  <1> SUFFICES ASSUME TypeOK, OpenedIsTyped, [Next]_vars PROVE TypeOK'
    OBVIOUS
  <1> USE ProbeAssumption
  <1>a. Running \in Doing /\ Gone \in Doing /\ NewProcess \in [FDs -> Kinds \cup {"closed"}]
    BY DEF Running, Gone, Doing, NewProcess, Kinds
  <1>b. ASSUME NEW t \in Threads, NEW fd \in FDs \cup {NoFD}, NEW type \in Types,
               NEW what \in {"rw", "dropped", "close", "exit"}
        PROVE  Outcome(what, t, fd, type) \in [what : {"rw", "dropped", "close", "exit"},
                    fd : FDs \cup {NoFD}, type : Types, of : Doing]
    BY DEF Outcome, TypeOK
  <1>1. CASE Attach
    BY <1>1 DEF Attach, TypeOK, maps, AllAttached, tracepoints
  <1>2. ASSUME NEW t \in Threads, EnterRW(t) PROVE TypeOK'
    <2>1. PICK call \in {"read", "write"}, fd \in FDs :
            /\ files[ProcOf[t]][fd] # "closed"
            /\ th' = [th EXCEPT ![t] = [pc |-> "rw", call |-> call, fd |-> fd,
                                     kind |-> files[ProcOf[t]][fd], whole |-> AllAttached]]
            /\ IF IsAttached("enter", call) THEN save_fd_with_pid(t, fd) ELSE UNCHANGED pid_fid_map
      BY <1>2 DEF EnterRW
    <2>2. files[ProcOf[t]][fd] \in Kinds
      BY <2>1 DEF TypeOK
    <2>3. [pc |-> "rw", call |-> call, fd |-> fd, kind |-> files[ProcOf[t]][fd], whole |-> AllAttached]
            \in Doing
      BY <2>2 DEF Doing, AllAttached
    <2>4. th' \in [Threads -> Doing]
      BY <2>1, <2>3 DEF TypeOK
    <2>5. pid_fid_map' \in [Threads -> FDs \cup {NoFD}]
      BY <2>1 DEF save_fd_with_pid, TypeOK
    <2> QED BY <1>2, <2>4, <2>5 DEF EnterRW, TypeOK
  <1>3. ASSUME NEW t \in Threads, ExitRW(t) PROVE TypeOK'
    <2>1. th' \in [Threads -> Doing]
      BY <1>3, <1>a DEF ExitRW, TypeOK
    <2>2. pid_fid_map' \in [Threads -> FDs \cup {NoFD}]
      BY <1>3 DEF ExitRW, gen_rw_event, TypeOK
    <2>3. out' \in {Nothing} \cup [what : {"rw", "dropped", "close", "exit"}, fd : FDs \cup {NoFD},
                                   type : Types, of : Doing]
      <3>1. pid_fid_map[t] # NoFD => pfid_type_map[<<t, pid_fid_map[t]>>] \in Types
        BY DEF TypeOK, Keys
      <3>2. pid_fid_map[t] \in FDs \cup {NoFD}
        BY DEF TypeOK
      <3>3. ASSUME NEW ret \in {-1, 0, 1}, gen_rw_event(t, ret), out' # Nothing
            PROVE  pid_fid_map[t] # NoFD /\
                   \E what \in {"rw", "dropped"} :
                     out' = Outcome(what, t, pid_fid_map[t], pfid_type_map[<<t, pid_fid_map[t]>>])
        BY <3>3 DEF gen_rw_event
      <3> QED BY <1>3, <1>b, <3>1, <3>2, <3>3 DEF ExitRW
    <2> QED BY <1>3, <2>1, <2>2, <2>3 DEF ExitRW, TypeOK
  <1>4. ASSUME NEW t \in Threads, Open(t) PROVE TypeOK'
    <2>1. PICK fd \in FDs, kind \in {"socket", "file"} :
            /\ files' = [files EXCEPT ![ProcOf[t]][fd] = kind]
            /\ th' = [th EXCEPT ![t] = [Running EXCEPT !.pc = "opened", !.fd = fd, !.kind = kind,
                         !.call = IF kind = "socket" THEN "socket" ELSE "openat"]]
      BY <1>4 DEF Open
    <2>2. [Running EXCEPT !.pc = "opened", !.fd = fd, !.kind = kind,
             !.call = IF kind = "socket" THEN "socket" ELSE "openat"] \in Doing
      BY DEF Running, Doing, Kinds
    <2>3. th' \in [Threads -> Doing]
      BY <2>1, <2>2 DEF TypeOK
    <2>4. files' \in [Procs -> [FDs -> Kinds \cup {"closed"}]]
      BY <2>1 DEF TypeOK, Kinds
    <2> QED BY <1>4, <2>3, <2>4 DEF Open, TypeOK, maps
  <1>5. ASSUME NEW t \in Threads, ExitOpen(t) PROVE TypeOK'
    <2>1. th' \in [Threads -> Doing]
      BY <1>5, <1>a DEF ExitOpen, TypeOK
    <2>2. pfid_type_map' \in [Keys -> Types]
      <3>1. th[t].kind \in Types
        BY <1>5 DEF ExitOpen, OpenedIsTyped, Types
      <3> QED BY <1>5, <3>1 DEF ExitOpen, save_fdtype_with_pfid, TypeOK
    <2> QED BY <1>5, <2>1, <2>2 DEF ExitOpen, TypeOK
  <1>6. ASSUME NEW t \in Threads, EnterClose(t) PROVE TypeOK'
    <2>1. PICK fd \in FDs :
            /\ th' = [th EXCEPT ![t] = [Running EXCEPT !.pc = "closing", !.call = "close", !.fd = fd]]
            /\ IF IsAttached("enter", "close")
               THEN /\ pfid_type_map' = [pfid_type_map EXCEPT ![<<t, fd>>] = "unknown"]
                    /\ out' = Outcome("close", t, fd, "unknown")
               ELSE UNCHANGED pfid_type_map /\ out' = Nothing
      BY <1>6 DEF EnterClose
    <2>2. [Running EXCEPT !.pc = "closing", !.call = "close", !.fd = fd] \in Doing
      BY DEF Running, Doing, Kinds
    <2>3. th' \in [Threads -> Doing]
      BY <2>1, <2>2 DEF TypeOK
    <2>4. pfid_type_map' \in [Keys -> Types]
      BY <2>1 DEF TypeOK, Types
    <2>5. out' \in {Nothing} \cup [what : {"rw", "dropped", "close", "exit"}, fd : FDs \cup {NoFD},
                                   type : Types, of : Doing]
      BY <2>1, <1>b DEF Types
    <2> QED BY <1>6, <2>3, <2>4, <2>5 DEF EnterClose, TypeOK
  <1>7. ASSUME NEW t \in Threads, Close(t) PROVE TypeOK'
    BY <1>7, <1>a DEF Close, TypeOK, maps, Kinds
  <1>8. ASSUME NEW t \in Threads, ExitThread(t) PROVE TypeOK'
    <2>1. th' \in [Threads -> Doing]
      BY <1>8, <1>a DEF ExitThread, TypeOK
    <2>2. files' \in [Procs -> [FDs -> Kinds \cup {"closed"}]]
      BY <1>8, <1>a DEF ExitThread, TypeOK
    <2>3. out' \in {Nothing} \cup [what : {"rw", "dropped", "close", "exit"}, fd : FDs \cup {NoFD},
                                   type : Types, of : Doing]
      BY <1>8, <1>b DEF ExitThread, Types
    <2> QED BY <1>8, <2>1, <2>2, <2>3 DEF ExitThread, TypeOK, maps
  <1>9. ASSUME NEW t \in Threads, StartThread(t) PROVE TypeOK'
    BY <1>9, <1>a DEF StartThread, TypeOK, maps
  <1>10. ASSUME NEW p \in Procs, ChangeUntraced(p) PROVE TypeOK'
    BY <1>10 DEF ChangeUntraced, TypeOK, maps
  <1>11. CASE UNCHANGED vars
    BY <1>11 DEF vars, TypeOK
  <1> QED BY <1>1, <1>2, <1>3, <1>4, <1>5, <1>6, <1>7, <1>8, <1>9, <1>10, <1>11 DEF Next

(* Only Open makes a thread "opened".                                      *)
LEMMA NextOpened == TypeOK /\ OpenedIsTyped /\ [Next]_vars => OpenedIsTyped'
  <1> SUFFICES ASSUME TypeOK, OpenedIsTyped, [Next]_vars PROVE OpenedIsTyped'
    OBVIOUS
  <1>1. CASE \E t \in Threads : Open(t)
    BY <1>1 DEF Open, TypeOK, OpenedIsTyped, Running
  <1>2. ASSUME NEW t \in Threads, EnterRW(t) PROVE OpenedIsTyped'
    BY <1>2 DEF EnterRW, TypeOK, OpenedIsTyped, Running, Gone
  <1>3. ASSUME NEW t \in Threads, ExitRW(t) PROVE OpenedIsTyped'
    BY <1>3 DEF ExitRW, TypeOK, OpenedIsTyped, Running, Gone
  <1>4. ASSUME NEW t \in Threads, ExitOpen(t) PROVE OpenedIsTyped'
    BY <1>4 DEF ExitOpen, TypeOK, OpenedIsTyped, Running, Gone
  <1>5. ASSUME NEW t \in Threads, EnterClose(t) PROVE OpenedIsTyped'
    BY <1>5 DEF EnterClose, TypeOK, OpenedIsTyped, Running, Gone
  <1>6. ASSUME NEW t \in Threads, Close(t) PROVE OpenedIsTyped'
    BY <1>6 DEF Close, TypeOK, OpenedIsTyped, Running, Gone
  <1>7. ASSUME NEW t \in Threads, ExitThread(t) PROVE OpenedIsTyped'
    BY <1>7 DEF ExitThread, TypeOK, OpenedIsTyped, Running, Gone
  <1>8. ASSUME NEW t \in Threads, StartThread(t) PROVE OpenedIsTyped'
    BY <1>8 DEF StartThread, TypeOK, OpenedIsTyped, Running, Gone
  <1>9. CASE Attach \/ (\E p \in Procs : ChangeUntraced(p)) \/ UNCHANGED vars
    BY <1>9 DEF Attach, ChangeUntraced, vars, OpenedIsTyped
  <1> QED BY <1>1, <1>2, <1>3, <1>4, <1>5, <1>6, <1>7, <1>8, <1>9 DEF Next

(* The maps hold what the calls in progress put there: entering a call     *)
(* overwrites what an earlier one left, and nobody else uses the key.      *)
LEMMA NextOwn == TypeOK /\ OwnDescriptor /\ [Next]_vars => OwnDescriptor'
  <1> SUFFICES ASSUME TypeOK, OwnDescriptor, [Next]_vars PROVE OwnDescriptor'
    OBVIOUS
  <1>1. ASSUME NEW t \in Threads, EnterRW(t) PROVE OwnDescriptor'
    <2>1. PICK call \in {"read", "write"}, fd \in FDs :
            /\ th' = [th EXCEPT ![t] = [pc |-> "rw", call |-> call, fd |-> fd,
                                     kind |-> files[ProcOf[t]][fd], whole |-> AllAttached]]
            /\ IF IsAttached("enter", call) THEN save_fd_with_pid(t, fd) ELSE UNCHANGED pid_fid_map
      BY <1>1 DEF EnterRW
    <2>2. \A u \in Threads \ {t} : pid_fid_map'[u] = pid_fid_map[u] /\ th'[u] = th[u]
      BY <2>1 DEF save_fd_with_pid, TypeOK
    <2>3. AllAttached => pid_fid_map'[t] \in {fd, NoFD}
      BY <2>1, EntersAttached DEF save_fd_with_pid, TypeOK
    <2>4. th'[t].fd = fd /\ th'[t].whole = AllAttached
      BY <2>1 DEF TypeOK
    <2> QED BY <2>2, <2>3, <2>4 DEF OwnDescriptor
  <1>2. ASSUME NEW t \in Threads, ExitRW(t) PROVE OwnDescriptor'
    <2>1. th'[t].pc = "running" /\ \A u \in Threads \ {t} : th'[u] = th[u]
      BY <1>2 DEF ExitRW, Running, TypeOK
    <2>2. \A u \in Threads \ {t} : pid_fid_map'[u] = pid_fid_map[u]
      BY <1>2 DEF ExitRW, gen_rw_event, TypeOK
    <2> QED BY <2>1, <2>2 DEF OwnDescriptor
  <1>3. ASSUME NEW t \in Threads, Open(t) PROVE OwnDescriptor'
    BY <1>3 DEF Open, TypeOK, OwnDescriptor, Running, Gone, maps
  <1>4. ASSUME NEW t \in Threads, ExitOpen(t) PROVE OwnDescriptor'
    BY <1>4 DEF ExitOpen, TypeOK, OwnDescriptor, Running, Gone, maps
  <1>5. ASSUME NEW t \in Threads, EnterClose(t) PROVE OwnDescriptor'
    BY <1>5 DEF EnterClose, TypeOK, OwnDescriptor, Running, Gone, maps
  <1>6. ASSUME NEW t \in Threads, Close(t) PROVE OwnDescriptor'
    BY <1>6 DEF Close, TypeOK, OwnDescriptor, Running, Gone, maps
  <1>7. ASSUME NEW t \in Threads, ExitThread(t) PROVE OwnDescriptor'
    BY <1>7 DEF ExitThread, TypeOK, OwnDescriptor, Running, Gone, maps
  <1>8. ASSUME NEW t \in Threads, StartThread(t) PROVE OwnDescriptor'
    BY <1>8 DEF StartThread, TypeOK, OwnDescriptor, Running, Gone, maps
  <1>9. CASE Attach \/ (\E p \in Procs : ChangeUntraced(p)) \/ UNCHANGED vars
    BY <1>9 DEF Attach, ChangeUntraced, vars, maps, OwnDescriptor
  <1> QED BY <1>1, <1>2, <1>3, <1>4, <1>5, <1>6, <1>7, <1>8, <1>9 DEF Next

(* So a transfer that leaves a call names the descriptor of the call.      *)
LEMMA NextNames == TypeOK /\ OwnDescriptor /\ TransfersNameTheirDescriptor /\ [Next]_vars
                     => TransfersNameTheirDescriptor'
  <1> SUFFICES ASSUME TypeOK, OwnDescriptor, TransfersNameTheirDescriptor, [Next]_vars
               PROVE  TransfersNameTheirDescriptor'
    OBVIOUS
  <1>1. ASSUME NEW t \in Threads, ExitRW(t) PROVE TransfersNameTheirDescriptor'
    <2>1. ASSUME out' # Nothing
          PROVE  /\ pid_fid_map[t] # NoFD
                 /\ \E what \in {"rw", "dropped"} :
                      out' = Outcome(what, t, pid_fid_map[t], pfid_type_map[<<t, pid_fid_map[t]>>])
      BY <1>1, <2>1 DEF ExitRW, gen_rw_event
    <2>2. out' # Nothing => out'.of = th[t] /\ out'.fd = pid_fid_map[t] /\ pid_fid_map[t] # NoFD
      BY <2>1 DEF Outcome
    <2>3. th[t].whole => pid_fid_map[t] \in {th[t].fd, NoFD}
      BY <1>1 DEF ExitRW, OwnDescriptor
    <2> QED BY <2>2, <2>3 DEF TransfersNameTheirDescriptor, Nothing
  <1>2. ASSUME NEW t \in Threads, EnterRW(t) PROVE TransfersNameTheirDescriptor'
    BY <1>2 DEF EnterRW, Outcome, Nothing, TransfersNameTheirDescriptor
  <1>3. ASSUME NEW t \in Threads, Open(t) PROVE TransfersNameTheirDescriptor'
    BY <1>3 DEF Open, Outcome, Nothing, TransfersNameTheirDescriptor
  <1>4. ASSUME NEW t \in Threads, ExitOpen(t) PROVE TransfersNameTheirDescriptor'
    BY <1>4 DEF ExitOpen, Outcome, Nothing, TransfersNameTheirDescriptor
  <1>5. ASSUME NEW t \in Threads, EnterClose(t) PROVE TransfersNameTheirDescriptor'
    BY <1>5 DEF EnterClose, Outcome, Nothing, TransfersNameTheirDescriptor
  <1>6. ASSUME NEW t \in Threads, Close(t) PROVE TransfersNameTheirDescriptor'
    BY <1>6 DEF Close, Outcome, Nothing, TransfersNameTheirDescriptor
  <1>7. ASSUME NEW t \in Threads, ExitThread(t) PROVE TransfersNameTheirDescriptor'
    BY <1>7 DEF ExitThread, Outcome, Nothing, TransfersNameTheirDescriptor
  <1>8. ASSUME NEW t \in Threads, StartThread(t) PROVE TransfersNameTheirDescriptor'
    BY <1>8 DEF StartThread, Outcome, Nothing, TransfersNameTheirDescriptor
  <1>9. CASE Attach \/ (\E p \in Procs : ChangeUntraced(p))
    BY <1>9 DEF Attach, ChangeUntraced, Nothing, TransfersNameTheirDescriptor
  <1>10. CASE UNCHANGED vars
    BY <1>10 DEF vars, TransfersNameTheirDescriptor
  <1> QED BY <1>1, <1>2, <1>3, <1>4, <1>5, <1>6, <1>7, <1>8, <1>9, <1>10 DEF Next

(* The three facts together.                                               *)
LEMMA ProbeInvariant == Spec => []ProbeInv
  <1>1. ProbeInv /\ [Next]_vars => ProbeInv'
    BY NextType, NextOpened, NextOwn, NextNames DEF ProbeInv
  <1> QED BY InitProbe, <1>1, PTL DEF Spec

(* The probe's state has its types, whatever its threads do.               *)
THEOREM ProbeTypeCorrect == Spec => []TypeOK
  <1>1. ProbeInv => TypeOK
    BY DEF ProbeInv
  <1> QED BY ProbeInvariant, <1>1, PTL

(* A read or write that was entered when all programs were attached is     *)
(* reported, or dropped, with its own descriptor (gen_rw_event): for any   *)
(* number of threads and any size of the maps.                             *)
THEOREM DescriptorsMatch == Spec => []TransfersNameTheirDescriptor
  <1>1. ProbeInv => TransfersNameTheirDescriptor
    BY DEF ProbeInv
  <1> QED BY ProbeInvariant, <1>1, PTL

-----------------------------------------------------------------------------
(* When the types that the probe remembers can be trusted: each process    *)
(* has one thread, every call that makes a descriptor is traced, and all   *)
(* programs are attached before it.                                        *)
TracedFromTheStart ==
    /\ \A t, u \in Threads : ProcOf[t] = ProcOf[u] => t = u
    /\ ~Untraced
    /\ Before = {Len(tracepoints)}

(* A descriptor that is remembered as a file is no socket, but for one     *)
(* that is being opened; and nothing changes what a thread in a call reads *)
(* or writes.                                                              *)
TypesAreFresh ==
    /\ AllAttached
    /\ \A t \in Threads, fd \in FDs :
         /\ pfid_type_map[<<t, fd>>] = "file" /\ files[ProcOf[t]][fd] = "socket"
              => th[t].pc = "opened" /\ th[t].fd = fd
         /\ th[t].pc \in {"rw", "opened"} /\ th[t].fd = fd
              => th[t].kind = files[ProcOf[t]][fd]
    /\ \A t \in Threads :
         /\ th[t].pc \in {"rw", "opened"} => th[t].fd \in FDs
         /\ th[t].pc = "rw" => th[t].whole
         /\ th[t].pc = "opened" => th[t].call = IF th[t].kind = "socket" THEN "socket" ELSE "openat"

LEMMA InitFresh == TracedFromTheStart /\ Init => TypesAreFresh
  BY ProbeAssumption DEF TracedFromTheStart, Init, TypesAreFresh, AllAttached, Running, NewProcess, Keys, StdFDs

LEMMA OpensAttached ==
    ASSUME AllAttached, NEW call \in {"socket", "openat"}
    PROVE  IsAttached("exit", call)
<1>1. attached = 8
  BY DEF AllAttached, tracepoints
<1>2. tracepoints[1] = <<"exit", "socket">> /\ tracepoints[2] = <<"exit", "openat">>
  BY DEF tracepoints
<1> QED
  BY <1>1, <1>2 DEF IsAttached

(* A step of a thread touches its own descriptors, and nobody else's.      *)
LEMMA NextFresh ==
    ASSUME TracedFromTheStart, TypeOK, TypesAreFresh, [Next]_vars
    PROVE  TypesAreFresh'
<1> USE DEF AllAttached
<1>0. /\ \A t, u \in Threads : ProcOf[t] = ProcOf[u] => t = u
      /\ \A t \in Threads : ProcOf[t] \in Procs
      /\ \A t \in Threads, fd \in FDs : <<t, fd>> \in Keys
      /\ \A t, u \in Threads, f, g \in FDs : <<t, f>> = <<u, g>> => t = u /\ f = g
  BY ProbeAssumption DEF TracedFromTheStart, Keys
<1>1. ASSUME NEW t \in Threads, EnterRW(t) PROVE TypesAreFresh'
  <2>1. PICK call \in {"read", "write"}, fd \in FDs :
          th' = [th EXCEPT ![t] = [pc |-> "rw", call |-> call, fd |-> fd,
                                   kind |-> files[ProcOf[t]][fd], whole |-> AllAttached]]
    BY <1>1 DEF EnterRW
  <2>2. /\ th[t].pc = "running" /\ th'[t].pc = "rw" /\ th'[t].fd = fd /\ th'[t].whole
        /\ th'[t].kind = files[ProcOf[t]][fd] /\ \A u \in Threads \ {t} : th'[u] = th[u]
    BY <1>1, <2>1 DEF EnterRW, TypeOK, TypesAreFresh
  <2>3. UNCHANGED <<attached, files, pfid_type_map>>
    BY <1>1 DEF EnterRW
  <2> QED
    BY <2>2, <2>3 DEF TypesAreFresh
<1>2. ASSUME NEW t \in Threads, ExitRW(t) \/ ExitOpen(t) PROVE TypesAreFresh'
  <2>1. th'[t].pc = "running" /\ \A u \in Threads \ {t} : th'[u] = th[u]
    BY <1>2 DEF ExitRW, ExitOpen, Running, TypeOK
  <2>2. UNCHANGED <<attached, files>>
    BY <1>2 DEF ExitRW, ExitOpen
  <2>3. CASE ExitRW(t)
    BY <2>1, <2>2, <2>3 DEF ExitRW, TypesAreFresh
  <2>4. CASE ExitOpen(t)
    <3>1. /\ th[t].fd \in FDs /\ th[t].kind = files[ProcOf[t]][th[t].fd] /\ th[t].pc = "opened"
          /\ th[t].call \in {"socket", "openat"}
      BY <2>4 DEF ExitOpen, TypesAreFresh
    <3>2. IsAttached("exit", th[t].call)
      BY <3>1, OpensAttached DEF TypesAreFresh
    <3>3. \/ pfid_type_map' = [pfid_type_map EXCEPT ![<<t, th[t].fd>>] = th[t].kind]
          \/ pfid_type_map' = pfid_type_map /\ pfid_type_map[<<t, th[t].fd>>] = "unknown"
      BY <2>4, <3>2 DEF ExitOpen, save_fdtype_with_pfid
    <3>4. \A u \in Threads, fd \in FDs : u # t \/ fd # th[t].fd =>
             pfid_type_map'[<<u, fd>>] = pfid_type_map[<<u, fd>>]
      BY <1>0, <3>1, <3>3 DEF TypeOK
    <3>5. pfid_type_map'[<<t, th[t].fd>>] \in {th[t].kind, "unknown"}
      BY <1>0, <3>1, <3>3 DEF TypeOK
    <3> QED
      BY <2>1, <2>2, <3>1, <3>4, <3>5 DEF TypesAreFresh
  <2> QED
    BY <1>2, <2>3, <2>4
<1>3. ASSUME NEW t \in Threads, Open(t) PROVE TypesAreFresh'
  <2>1. PICK fd \in FDs, kind \in {"socket", "file"} :
          /\ files' = [files EXCEPT ![ProcOf[t]][fd] = kind]
          /\ th' = [th EXCEPT ![t] = [Running EXCEPT !.pc = "opened", !.fd = fd, !.kind = kind,
                      !.call = IF kind = "socket" THEN "socket" ELSE "openat"]]
    BY <1>3 DEF Open
  <2>2. /\ th[t].pc = "running" /\ th'[t].pc = "opened" /\ th'[t].fd = fd /\ th'[t].kind = kind
        /\ th'[t].call = IF kind = "socket" THEN "socket" ELSE "openat"
        /\ \A u \in Threads \ {t} : th'[u] = th[u]
    BY <1>3, <2>1 DEF Open, TypeOK, Running
  <2>3. UNCHANGED <<attached, pfid_type_map>>
    BY <1>3 DEF Open, maps
  <2>4. /\ files'[ProcOf[t]][fd] = kind
        /\ \A g \in FDs \ {fd} : files'[ProcOf[t]][g] = files[ProcOf[t]][g]
        /\ \A u \in Threads \ {t} : files'[ProcOf[u]] = files[ProcOf[u]]
    BY <1>0, <2>1 DEF TypeOK
  <2> QED
    BY <2>2, <2>3, <2>4 DEF TypesAreFresh
<1>4. ASSUME NEW t \in Threads, EnterClose(t) PROVE TypesAreFresh'
  <2>1. /\ th'[t].pc = "closing" /\ \A u \in Threads \ {t} : th'[u] = th[u]
        /\ UNCHANGED <<attached, files>> /\ th[t].pc = "running"
    BY <1>4 DEF EnterClose, TypeOK, Running
  <2>2. \A u \in Threads, fd \in FDs :
           pfid_type_map'[<<u, fd>>] \in {pfid_type_map[<<u, fd>>], "unknown"}
    <3>1. PICK fd \in FDs : \/ pfid_type_map' = [pfid_type_map EXCEPT ![<<t, fd>>] = "unknown"]
                            \/ pfid_type_map' = pfid_type_map
      BY <1>4 DEF EnterClose
    <3>2. pfid_type_map \in [Keys -> Types]
      BY DEF TypeOK
    <3> QED
      BY <1>0, <3>1, <3>2
  <2> QED
    BY <2>1, <2>2 DEF TypesAreFresh
<1>5. ASSUME NEW t \in Threads, Close(t) PROVE TypesAreFresh'
  <2>1. /\ th'[t].pc = "running" /\ \A u \in Threads \ {t} : th'[u] = th[u]
        /\ UNCHANGED <<attached, pfid_type_map>> /\ th[t].pc = "closing"
    BY <1>5 DEF Close, TypeOK, Running, maps
  <2>2. /\ \A g \in FDs : files'[ProcOf[t]][g] \in {files[ProcOf[t]][g], "closed"}
        /\ \A u \in Threads \ {t} : files'[ProcOf[u]] = files[ProcOf[u]]
    BY <1>0, <1>5 DEF Close, TypeOK
  <2> QED
    BY <2>1, <2>2 DEF TypesAreFresh
<1>6. ASSUME NEW t \in Threads, ExitThread(t) PROVE TypesAreFresh'
  <2>1. /\ th'[t].pc = "gone" /\ \A u \in Threads \ {t} : th'[u] = th[u]
        /\ UNCHANGED <<attached, pfid_type_map>>
    BY <1>6 DEF ExitThread, TypeOK, Gone, Running, maps
  <2>2. files' = [files EXCEPT ![ProcOf[t]] = NewProcess]
    BY <1>0, <1>6 DEF ExitThread
  <2>3. /\ \A g \in FDs : files'[ProcOf[t]][g] # "socket"
        /\ \A u \in Threads \ {t} : files'[ProcOf[u]] = files[ProcOf[u]]
    BY <1>0, <2>2 DEF TypeOK, NewProcess
  <2> QED
    BY <2>1, <2>3 DEF TypesAreFresh
<1>7. ASSUME NEW t \in Threads, StartThread(t) PROVE TypesAreFresh'
  <2>1. /\ th[t].pc = "gone" /\ th'[t].pc = "running" /\ \A u \in Threads \ {t} : th'[u] = th[u]
        /\ UNCHANGED <<attached, files, pfid_type_map>>
    BY <1>7 DEF StartThread, TypeOK, Running, maps
  <2> QED
    BY <2>1 DEF TypesAreFresh
<1>8. CASE Attach \/ (\E p \in Procs : ChangeUntraced(p)) \/ UNCHANGED vars
  BY <1>8 DEF Attach, ChangeUntraced, TracedFromTheStart, TypesAreFresh, vars, maps
<1> QED
  BY <1>1, <1>2, <1>3, <1>4, <1>5, <1>6, <1>7, <1>8 DEF Next

LEMMA NextDrops ==
    ASSUME TypeOK, OwnDescriptor, TypesAreFresh, DropsOnlyFiles, [Next]_vars
    PROVE  DropsOnlyFiles'
<1>1. CASE out'.what # "dropped"
  BY <1>1 DEF DropsOnlyFiles
<1>2. ASSUME NEW t \in Threads, ExitRW(t), out'.what = "dropped" PROVE DropsOnlyFiles'
  <2> DEFINE fd == pid_fid_map[t]
  <2>1. /\ fd # NoFD /\ pfid_type_map[<<t, fd>>] = "file" /\ out'.of = th[t]
    BY <1>2 DEF ExitRW, gen_rw_event, Outcome, Nothing
  <2>2. th[t].pc = "rw" /\ fd = th[t].fd /\ th[t].fd \in FDs
        /\ th[t].kind = files[ProcOf[t]][th[t].fd]
    BY <1>2, <2>1 DEF ExitRW, TypesAreFresh, OwnDescriptor
  <2>3. th[t].kind # "socket"
    BY <2>1, <2>2 DEF TypesAreFresh
  <2> QED
    BY <2>1, <2>3 DEF DropsOnlyFiles
<1>3. CASE \A t \in Threads : ~ExitRW(t)
  <2>1. CASE UNCHANGED vars
    BY <2>1 DEF vars, DropsOnlyFiles
  <2>2. CASE Next
    <3>1. Nothing.what = "none"
      BY DEF Nothing
    <3>2. ASSUME NEW t \in Threads,
                 EnterRW(t) \/ Open(t) \/ ExitOpen(t) \/ Close(t) \/ StartThread(t)
          PROVE  out'.what # "dropped"
      BY <3>1, <3>2 DEF EnterRW, Open, ExitOpen, Close, StartThread
    <3>3. ASSUME NEW t \in Threads, EnterClose(t) \/ ExitThread(t) PROVE out'.what # "dropped"
      <4>1. \A f : /\ Outcome("close", t, f, "unknown").what = "close"
                   /\ Outcome("exit", t, f, "unknown").what = "exit"
        BY DEF Outcome
      <4>2. CASE EnterClose(t)
        <5>1. \E f : out' = Outcome("close", t, f, "unknown") \/ out' = Nothing
          BY <4>2 DEF EnterClose
        <5> QED
          BY <3>1, <4>1, <5>1
      <4>3. CASE ExitThread(t)
        <5>1. out' = Outcome("exit", t, NoFD, "unknown") \/ out' = Nothing
          BY <4>3 DEF ExitThread
        <5> QED
          BY <3>1, <4>1, <5>1
      <4> QED
        BY <3>3, <4>2, <4>3
    <3>4. CASE Attach \/ \E p \in Procs : ChangeUntraced(p)
      BY <1>1, <3>1, <3>4 DEF Attach, ChangeUntraced
    <3> QED
      BY <1>1, <1>3, <2>2, <3>2, <3>3, <3>4 DEF Next
  <2> QED
    BY <2>1, <2>2
<1> QED
  BY <1>1, <1>2, <1>3

(* The comment in gen_rw_event (tracepoint.c:146), that only "file related *)
(* fd" are dropped, holds of processes with one thread all of whose calls  *)
(* were traced, also when a thread is killed in a call and its id is used  *)
(* again, and when the maps are full.                                      *)
THEOREM TracedProcessesDropOnlyFiles ==
    ASSUME TracedFromTheStart
    PROVE  Spec => []DropsOnlyFiles
<1>1. Init => TypesAreFresh /\ DropsOnlyFiles
  BY InitFresh DEF Init, DropsOnlyFiles, Nothing
<1>2. ProbeInv /\ TypesAreFresh /\ DropsOnlyFiles /\ [Next]_vars => (TypesAreFresh /\ DropsOnlyFiles)'
  BY NextFresh, NextDrops DEF ProbeInv
<1> QED
  BY <1>1, <1>2, ProbeInvariant, PTL DEF Spec
=============================================================================
