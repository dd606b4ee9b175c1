-------------------------------- MODULE Probe --------------------------------
(***************************************************************************)
(* The probe (src/tracepoint/tracepoint.c): programs that the kernel runs  *)
(* when a thread enters or leaves a system call.  A read or write is       *)
(* reported when it returns, with the descriptor remembered when it was    *)
(* entered, and with the type that the thread recorded for the descriptor. *)
(*                                                                         *)
(* The kernel (descriptor tables, threads) is external.  Programs are      *)
(* attached one after the other while threads run.                         *)
(***************************************************************************)
EXTENDS Integers, Sequences, FiniteSets

CONSTANTS
    Threads,
    Procs,
    ProcOf,       \* thread -> its process, whose descriptors it shares
    FDs,          \* descriptor numbers
    MaxEntries,   \* max_entries of each of the two maps (65536)
    Before,       \* how many programs may be attached when a run begins
    Untraced,     \* whether descriptors change without a traced call
    Exits,        \* whether threads exit, and their ids are used again
    MaxCalls      \* bound: how many calls the threads make

(* TracePointProbe attaches them in this order (tracepoint.go); accept and *)
(* accept4 are like socket, open and creat like openat, and every other    *)
(* way to send or to receive like write or read.                           *)
tracepoints == << <<"exit", "socket">>, <<"exit", "openat">>, <<"enter", "write">>, <<"exit", "write">>,
                  <<"enter", "read">>, <<"exit", "read">>, <<"enter", "close">>, <<"process", "exit">> >>

ASSUME ProbeAssumption ==
    /\ FDs \subseteq Nat
    /\ ProcOf \in [Threads -> Procs]
    /\ MaxEntries \in Nat /\ MaxCalls \in Nat
    /\ Before \subseteq 0 .. Len(tracepoints)
    /\ Untraced \in BOOLEAN /\ Exits \in BOOLEAN

NoFD  == -1
Types == {"unknown", "socket", "file"}   \* FD_TYPE_SOCKET, FD_TYPE_FILE
Kinds == {"socket", "file", "pipe"}
Keys  == Threads \X FDs                  \* pfid_t

VARIABLES
    attached,        \* how many programs are attached
    files,           \* process -> descriptor -> what it refers to, or "closed"
    th,              \* what each thread is doing
    pid_fid_map,     \* thread -> descriptor it reads or writes
    pfid_type_map,   \* thread and descriptor -> type
    calls,           \* how many calls were made
    out              \* history: what the last step reported, and of what

vars == <<attached, files, th, pid_fid_map, pfid_type_map, calls, out>>
maps == <<pid_fid_map, pfid_type_map>>

Running == [pc |-> "running", call |-> "none", fd |-> NoFD, kind |-> "pipe", whole |-> FALSE]
Gone    == [Running EXCEPT !.pc = "gone"]

(* An outcome: an event of the probe or "none" or, for a transfer that the *)
(* type of its descriptor keeps from being reported, "dropped"; with the   *)
(* call that led to it.                                                    *)
Outcome(what, t, fd, type) ==
    [what |-> what, fd |-> fd, type |-> type, of |-> th[t]]
Nothing == [what |-> "none"]

StdFDs == {fd \in FDs : fd <= 2}
NewProcess == [fd \in FDs |-> IF fd \in StdFDs THEN "pipe" ELSE "closed"]

Init == /\ attached \in Before
        /\ files = [p \in Procs |-> NewProcess]
        /\ th = [t \in Threads |-> Running]
        /\ pid_fid_map = [t \in Threads |-> NoFD]
        /\ pfid_type_map = [k \in Keys |-> "unknown"]
        /\ calls = 0
        /\ out = Nothing

IsAttached(when, call) == \E i \in 1 .. attached : tracepoints[i] = <<when, call>>
AllAttached == attached = Len(tracepoints)

(* Mutant: one program too many.                                           *)
AttachTooMany ==
    /\ attached <= Len(tracepoints)
    /\ attached' = attached + 1
    /\ out' = Nothing
    /\ UNCHANGED <<files, th, maps, calls>>

Attach ==
    /\ ~AllAttached
    /\ attached' = attached + 1
    /\ out' = Nothing
    /\ UNCHANGED <<files, th, maps, calls>>

-----------------------------------------------------------------------------
(* Mutant of save_fd_with_pid: the descriptor of a call in progress is     *)
(* not overwritten.                                                        *)
save_first_fd_with_pid(t, fd) ==
    pid_fid_map' = IF pid_fid_map[t] # NoFD THEN pid_fid_map ELSE [pid_fid_map EXCEPT ![t] = fd]

(* save_fd_with_pid.  A full map takes no new key.                         *)
save_fd_with_pid(t, fd) ==
    pid_fid_map' =
        IF \/ pid_fid_map[t] # NoFD
           \/ Cardinality({u \in Threads : pid_fid_map[u] # NoFD}) < MaxEntries
        THEN [pid_fid_map EXCEPT ![t] = fd]
        ELSE pid_fid_map

save_fdtype_with_pfid(t, fd, type) ==
    pfid_type_map' =
        IF \/ pfid_type_map[<<t, fd>>] # "unknown"
           \/ Cardinality({k \in Keys : pfid_type_map[k] # "unknown"}) < MaxEntries
        THEN [pfid_type_map EXCEPT ![<<t, fd>>] = type]
        ELSE pfid_type_map

(* gen_rw_event, for a call that returns ret.                              *)
gen_rw_event(t, ret) ==
    LET fd == pid_fid_map[t]
    IN  /\ pid_fid_map' = [pid_fid_map EXCEPT ![t] = NoFD]
        /\ out' = IF fd = NoFD \/ fd \in StdFDs \/ ret <= 0
                  THEN Nothing
                  ELSE Outcome(IF pfid_type_map[<<t, fd>>] = "file" THEN "dropped" ELSE "rw",
                               t, fd, pfid_type_map[<<t, fd>>])

-----------------------------------------------------------------------------
(* A thread enters a call that reads or writes, ...                        *)
EnterRW(t) ==
    /\ th[t].pc = "running" /\ calls < MaxCalls
    /\ calls' = calls + 1
    /\ \E call \in {"read", "write"}, fd \in FDs :
         /\ files[ProcOf[t]][fd] # "closed"
         /\ th' = [th EXCEPT ![t] = [pc |-> "rw", call |-> call, fd |-> fd,
                                     kind |-> files[ProcOf[t]][fd], whole |-> AllAttached]]
         /\ IF IsAttached("enter", call) THEN save_fd_with_pid(t, fd) ELSE UNCHANGED pid_fid_map
    /\ out' = Nothing
    /\ UNCHANGED <<attached, files, pfid_type_map>>

(* ... and leaves it.                                                      *)
ExitRW(t) ==
    /\ th[t].pc = "rw"
    /\ th' = [th EXCEPT ![t] = Running]
    /\ IF IsAttached("exit", th[t].call)
       THEN \E ret \in {-1, 0, 1} : gen_rw_event(t, ret)
       ELSE UNCHANGED pid_fid_map /\ out' = Nothing
    /\ UNCHANGED <<attached, files, pfid_type_map, calls>>

(* A thread gets a new descriptor, the smallest that is free, ...          *)
Open(t) ==
    LET free == {fd \in FDs : files[ProcOf[t]][fd] = "closed"}
    IN  /\ th[t].pc = "running" /\ calls < MaxCalls
        /\ calls' = calls + 1
        /\ \E fd \in free, kind \in {"socket", "file"} :
             /\ \A other \in free : fd <= other
             /\ files' = [files EXCEPT ![ProcOf[t]][fd] = kind]
             /\ th' = [th EXCEPT ![t] = [Running EXCEPT !.pc = "opened", !.fd = fd, !.kind = kind,
                         !.call = IF kind = "socket" THEN "socket" ELSE "openat"]]
        /\ out' = Nothing
        /\ UNCHANGED <<attached, maps>>

(* ... and its type is recorded when the call returns.                     *)
ExitOpen(t) ==
    /\ th[t].pc = "opened"
    /\ th' = [th EXCEPT ![t] = Running]
    /\ IF IsAttached("exit", th[t].call)
       THEN save_fdtype_with_pfid(t, th[t].fd, th[t].kind)
       ELSE UNCHANGED pfid_type_map
    /\ out' = Nothing
    /\ UNCHANGED <<attached, files, pid_fid_map, calls>>

(* tracepoint_sys_enter_close: the descriptor, which need not be open, is  *)
(* closed after its type is forgotten and the event sent.                  *)
EnterClose(t) ==
    /\ th[t].pc = "running" /\ calls < MaxCalls
    /\ calls' = calls + 1
    /\ \E fd \in FDs :
         /\ th' = [th EXCEPT ![t] = [Running EXCEPT !.pc = "closing", !.call = "close", !.fd = fd]]
         /\ IF IsAttached("enter", "close")
            THEN /\ pfid_type_map' = [pfid_type_map EXCEPT ![<<t, fd>>] = "unknown"]
                 /\ out' = Outcome("close", t, fd, "unknown")
            ELSE UNCHANGED pfid_type_map /\ out' = Nothing
    /\ UNCHANGED <<attached, files, pid_fid_map>>

Close(t) ==
    /\ th[t].pc = "closing"
    /\ th' = [th EXCEPT ![t] = Running]
    /\ files' = [files EXCEPT ![ProcOf[t]][th[t].fd] = "closed"]
    /\ out' = Nothing
    /\ UNCHANGED <<attached, maps, calls>>

(* dup2, pipe, exec, a descriptor received over a socket, ...              *)
ChangeUntraced(p) ==
    /\ Untraced /\ calls < MaxCalls
    /\ calls' = calls + 1
    /\ \E fd \in FDs, kind \in Kinds \cup {"closed"} :
         files' = [files EXCEPT ![p][fd] = kind]
    /\ out' = Nothing
    /\ UNCHANGED <<attached, th, maps>>

(* tracepoint_sched_process_exit, of a thread that may have been killed in *)
(* the middle of a call.  The last one closes the descriptors, without a   *)
(* call.                                                                   *)
ExitThread(t) ==
    LET p == ProcOf[t]
    IN  /\ Exits
        /\ th[t].pc # "gone"
        /\ th' = [th EXCEPT ![t] = Gone]
        /\ files' = IF \E u \in Threads \ {t} : ProcOf[u] = p /\ th[u].pc # "gone"
                    THEN files
                    ELSE [files EXCEPT ![p] = NewProcess]
        /\ out' = IF IsAttached("process", "exit") THEN Outcome("exit", t, NoFD, "unknown") ELSE Nothing
        /\ UNCHANGED <<attached, maps, calls>>

(* The kernel uses the id of a thread again.                               *)
StartThread(t) ==
    /\ th[t].pc = "gone" /\ calls < MaxCalls
    /\ calls' = calls + 1
    /\ th' = [th EXCEPT ![t] = Running]
    /\ out' = Nothing
    /\ UNCHANGED <<attached, files, maps>>

Next == \/ Attach
        \/ \E t \in Threads : \/ EnterRW(t) \/ ExitRW(t) \/ Open(t) \/ ExitOpen(t)
                              \/ EnterClose(t) \/ Close(t) \/ ExitThread(t) \/ StartThread(t)
        \/ \E p \in Procs : ChangeUntraced(p)

Spec == Init /\ [][Next]_vars

-----------------------------------------------------------------------------
(* Properties.                                                             *)

Doing == [pc : {"running", "rw", "opened", "closing", "gone"}, fd : FDs \cup {NoFD}, kind : Kinds,
          call : {"none", "read", "write", "socket", "openat", "close"}, whole : BOOLEAN]

(* The type invariant.                                                     *)
TypeOK ==
    /\ attached \in 0 .. Len(tracepoints)
    /\ files \in [Procs -> [FDs -> Kinds \cup {"closed"}]]
    /\ th \in [Threads -> Doing]
    /\ pid_fid_map \in [Threads -> FDs \cup {NoFD}]
    /\ pfid_type_map \in [Keys -> Types]
    /\ calls \in 0 .. MaxCalls
    /\ out \in {Nothing} \cup [what : {"rw", "dropped", "close", "exit"}, fd : FDs \cup {NoFD},
                               type : Types, of : Doing]

(* A transfer that was entered when all programs were attached is reported *)
(* with its own descriptor, whatever the maps hold: of threads that were   *)
(* killed in a call, of calls entered before, or when they are full.       *)
TransfersNameTheirDescriptor ==
    out.what \in {"rw", "dropped"} /\ out.of.whole => out.fd = out.of.fd

(* The comment in gen_rw_event (tracepoint.c:146): what it drops for its   *)
(* type is a "file related fd".  True as long as the threads of a process  *)
(* do not hand descriptors to each other and every call that makes one is  *)
(* traced; false when another thread closes the file, or opens the socket. *)
DropsOnlyFiles == out.what = "dropped" => out.of.kind # "socket"
=============================================================================
