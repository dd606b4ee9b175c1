------------------------------- MODULE Program -------------------------------
(***************************************************************************)
(* The program as a whole: src/commands, and the goroutines that it starts *)
(* (EventPipeline, the profile server in src/debug and the web server in   *)
(* src/web/api).  A goroutine waits for an error or a signal and ends the  *)
(* program, while the main one runs a command.  Nothing is shut down: an   *)
(* exit stops every goroutine where it is.                                 *)
(***************************************************************************)
EXTENDS EventPipeline

CONSTANTS
    Commands,      \* the commands a user may give
    Servers,       \* the servers that may have a port
    MaxFailures    \* bound: how many goroutines give up

(* "process-bandwidth" is the root command, without a sub-command.         *)
ASSUME ProgramAssumption ==
    /\ Commands \subseteq {"process-bandwidth", "top", "run", "version"}
    /\ Servers \subseteq {"web", "profile"}
    /\ MaxFailures \in Nat

VARIABLES
    main,       \* the main goroutine: its command and where it is
    ports,      \* the servers that have a port
    watcher,    \* the goroutine that waits for an error or a signal
    stopper,    \* whether a signal is caught ("on"), and is pending
    server,     \* each server
    starts,     \* history: how many times the goroutines were started
    overview,   \* the handler of /overview
    exit        \* how the program ended, and why

program == <<main, ports, watcher, stopper, server, starts, overview, exit>>
vars    == <<pipeline, program>>

Running == [ok |-> TRUE, why |-> "running"]   \* ok: the exit status is 0

Init ==
    /\ InitPipeline
    /\ main \in [cmd : Commands, pc : {"preRun"}]
    /\ ports \in SUBSET Servers
    /\ watcher = "off" /\ stopper = "off"
    /\ server = [s \in Servers |-> "off"]
    /\ starts = 0
    /\ overview = "idle"
    /\ exit = Running

Alive == exit = Running
End(ok, why) == exit' = [ok |-> ok, why |-> why]

(* The goroutines that gave up.                                            *)
Failed == {g \in Servers \cup {"engine", "reader", "interfaces"} :
             CASE g \in Servers     -> server[g] \in {"error", "failed"}
               [] g = "engine"     -> engine = "failed"
               [] g = "reader"     -> reader.pc = "failed"
               [] g = "interfaces" -> starter = "failed"}
MayFail == Cardinality(Failed) < MaxFailures

-----------------------------------------------------------------------------
(* The main goroutine.                                                     *)

(* PersistentPreRunE.  The root command skips it, since it is going to run *)
(* "top"; version needs nothing.                                           *)
SkipPreRun ==
    /\ main.pc = "preRun" /\ main.cmd \in {"version", "process-bandwidth"}
    /\ main' = [main EXCEPT !.pc = "runE"]
    /\ UNCHANGED <<pipeline, ports, watcher, stopper, server, starts, overview, exit>>

(* The kernel is too old, or its version is not known.                     *)
RejectKernel ==
    /\ main.pc = "preRun" /\ main.cmd \in {"top", "run"}
    /\ End(FALSE, "kernel")
    /\ UNCHANGED <<pipeline, main, ports, watcher, stopper, server, starts, overview>>

Start ==
    /\ stopper' = "on"
    /\ watcher' = "wait"
    /\ server' = [s \in Servers |-> IF s \in ports THEN "serving" ELSE "off"]
    /\ engine' = "starting"
    /\ starts' = starts + 1
    /\ main' = [main EXCEPT !.pc = "runE"]
    /\ UNCHANGED <<kernel, reader, starter, worker, events, errChan, counts, done,
                   ports, overview, exit>>

(* Mutant of PreRun: the root command does not skip it.                    *)
PreRunAlways ==
    /\ main.pc = "preRun" /\ main.cmd \in {"top", "run", "process-bandwidth"}
    /\ Start

PreRun ==
    /\ main.pc = "preRun" /\ main.cmd \in {"top", "run"}
    /\ Start

(* RunE of the root command: SetArgs and Execute, with the command "top".  *)
RunRoot ==
    /\ main.pc = "runE" /\ main.cmd = "process-bandwidth"
    /\ main' = [cmd |-> "top", pc |-> "preRun"]
    /\ UNCHANGED <<pipeline, ports, watcher, stopper, server, starts, overview, exit>>

(* "run" waits for errChan, the variable of the package: PersistentPreRunE *)
(* makes another channel of that name, so nobody sends to this one.        *)
RunLong ==
    /\ main.pc = "runE" /\ main.cmd = "run"
    /\ IF "web" \in ports
       THEN main' = [main EXCEPT !.pc = "waitForever"] /\ UNCHANGED exit
       ELSE End(FALSE, "usage") /\ UNCHANGED main
    /\ UNCHANGED <<pipeline, ports, watcher, stopper, server, starts, overview>>

(* "top" runs until the user leaves it (ESC and Ctrl-C), or it fails;      *)
(* "version" prints.                                                       *)
RunShort ==
    /\ main.pc = "runE"
    /\ \/ main.cmd = "top" /\ End(TRUE, "user")
       \/ main.cmd = "top" /\ End(FALSE, "ui")
       \/ main.cmd = "version" /\ End(TRUE, "version")
    /\ UNCHANGED <<pipeline, main, ports, watcher, stopper, server, starts, overview>>

-----------------------------------------------------------------------------
(* SIGINT or SIGTERM.  Before signal.Notify it kills the program; while    *)
(* one is pending, another is lost.                                        *)
Signal ==
    /\ IF stopper = "off"
       THEN End(FALSE, "killed") /\ UNCHANGED stopper
       ELSE stopper' = "pending" /\ UNCHANGED exit
    /\ UNCHANGED <<pipeline, main, ports, watcher, server, starts, overview>>

(* The goroutine at the end of PersistentPreRunE: whichever comes first,   *)
(* and either of them when there are both.                                 *)
WatchErrors ==
    /\ watcher = "wait"
    /\ errChan # <<>>
    /\ errChan' = Tail(errChan)
    /\ End(FALSE, "error")
    /\ UNCHANGED <<kernel, engine, reader, starter, worker, events, counts, done,
                   main, ports, watcher, stopper, server, starts, overview>>

(* Mutant of WatchSignals: the goroutine waits for an error first.         *)
WatchSignalsLast ==
    /\ watcher = "wait"
    /\ stopper = "pending" /\ errChan # <<>>
    /\ End(TRUE, "user")
    /\ UNCHANGED <<pipeline, main, ports, watcher, stopper, server, starts, overview>>

WatchSignals ==
    /\ watcher = "wait"
    /\ stopper = "pending"
    /\ End(TRUE, "user")
    /\ UNCHANGED <<pipeline, main, ports, watcher, stopper, server, starts, overview>>

(* A server listens until it fails (the port is taken, say), ...           *)
FailServer(s) ==
    /\ server[s] = "serving"
    /\ MayFail
    /\ server' = [server EXCEPT ![s] = "error"]
    /\ UNCHANGED <<pipeline, main, ports, watcher, stopper, starts, overview, exit>>

(* Mutant of ReportServer: it only logs that.                              *)
LogServer(s) ==
    /\ server[s] = "error"
    /\ server' = [server EXCEPT ![s] = "failed"]
    /\ UNCHANGED <<pipeline, main, ports, watcher, stopper, starts, overview, exit>>

(* ... and reports that.                                                   *)
ReportServer(s) ==
    /\ server[s] = "error"
    /\ Report(s)
    /\ server' = [server EXCEPT ![s] = "failed"]
    /\ UNCHANGED <<kernel, engine, reader, starter, worker, events, counts, done,
                   main, ports, watcher, stopper, starts, overview, exit>>

-----------------------------------------------------------------------------
(* The handler of /overview ranges over the map of the workers' profile    *)
(* counters, without a lock.                                               *)
BeginOverview ==
    /\ "web" \in ports /\ server["web"] = "serving"
    /\ overview = "idle"
    /\ overview' = "ranging"
    /\ UNCHANGED <<pipeline, main, ports, watcher, stopper, server, starts, exit>>

EndOverview ==
    /\ overview = "ranging"
    /\ overview' = "idle"
    /\ UNCHANGED <<pipeline, main, ports, watcher, stopper, server, starts, exit>>

(* Writing to the map meanwhile is a data race: the runtime detects most   *)
(* of them and ends the program.                                           *)
LaunchWorker(w) ==
    /\ Launch(w)
    /\ \/ UNCHANGED exit
       \/ overview = "ranging" /\ End(FALSE, "race")
    /\ UNCHANGED <<main, ports, watcher, stopper, server, starts, overview>>

-----------------------------------------------------------------------------
(* Steps of the pipeline.                                                  *)
Pipeline == Alive /\ UNCHANGED program

Kernel      == Pipeline /\ \E c \in CPUs, k \in Kinds : Produce(c, k)
Fail        == Pipeline /\ MayFail /\ (FailProbe \/ FailReader \/ FailInterfaces)
StartEngine == Pipeline /\ (AttachProbe \/ StartGoroutines)
ReadEvents  == /\ Pipeline
               /\ \/ OpenReader \/ Read \/ CountLost \/ CountLostAsRead \/ Send \/ CountSent
                  \/ \E w \in Workers : HandOver(w)
Work(w)     == Pipeline /\ (Receive(w) \/ Process(w))
StartWorkers == \/ Pipeline /\ (ListInterfaces \/ EndLaunch)
                \/ Alive /\ \E w \in Workers : LaunchWorker(w)

(* Steps of the program.                                                   *)
Main  == Alive /\ (SkipPreRun \/ PreRun \/ RunRoot \/ RunLong)
Leave == Alive /\ (RejectKernel \/ RunShort)
Watch == Alive /\ (WatchErrors \/ WatchSignals)
Serve == Alive /\ \E s \in Servers : ReportServer(s)
Outside == Alive /\ (Signal \/ BeginOverview \/ EndOverview \/ \E s \in Servers : FailServer(s))

Next == \/ Kernel \/ Fail \/ StartEngine \/ ReadEvents \/ StartWorkers
        \/ \E w \in Workers : Work(w)
        \/ Main \/ Leave \/ Watch \/ Serve \/ Outside

Spec == Init /\ [][Next]_vars

(* Goroutines that can run do run.  Nothing makes a sample arrive, a       *)
(* goroutine fail or the user leave.                                       *)
Fairness == /\ WF_vars(StartEngine) /\ WF_vars(ReadEvents) /\ WF_vars(StartWorkers)
            /\ \A w \in Workers : WF_vars(Work(w))
            /\ WF_vars(Main) /\ WF_vars(Watch) /\ WF_vars(Serve)

FairSpec == Spec /\ Fairness

-----------------------------------------------------------------------------
(* Properties.                                                             *)

Records   == Samples \cup Losses
ReaderPCs == {"off", "open", "read", "lost", "lostRead", "send", "sent", "failed"}

(* The type invariant.                                                     *)
TypeOK ==
    /\ perf \in [CPUs -> Seq(Records)]
    /\ \A c \in CPUs : Cardinality(Sampled(perf[c])) <= PerfSize
    /\ dropped \in [CPUs -> 0 .. MaxSamples]
    /\ engine \in {"off", "starting", "attached", "started", "failed"}
    /\ reader \in [pc : ReaderPCs, rec : Records \cup {NoSample}]
    /\ reader.pc = "send" => reader.rec \in Samples
    /\ reader.pc \in {"lost", "lostRead"} => reader.rec \in Losses
    /\ starter \in {"off", "interfaces", "launch", "started", "failed"}
    /\ worker \in [Workers -> [pc : {"off", "receive", "process"}, rec : Samples \cup {NoSample}]]
    /\ \A w \in Workers : worker[w].pc = "process" => worker[w].rec \in Samples
    /\ events \in Seq(Samples) /\ Len(events) <= ChannelSize
    /\ Len(errChan) <= ErrChanSize
    /\ lostCount \in Nat /\ readCount \in Nat
    /\ produced \in 0 .. MaxSamples
    /\ done \subseteq Samples /\ gone \subseteq Samples

(* No sample is handled twice and none vanishes between the probe and the  *)
(* workers: each is in one place, or was dropped by a full perf buffer.    *)
Held     == IF reader.pc = "send" THEN <<reader.rec>> ELSE <<>>
Busy     == {w \in Workers : worker[w].pc = "process"}
InHand   == {worker[w].rec : w \in Busy}
Buffered == UNION {Sampled(perf[c]) : c \in CPUs}

SamplesConserved ==
    /\ {s.n : s \in Buffered \cup Range(Held) \cup Range(events) \cup InHand \cup done \cup gone}
         = 1 .. produced
    /\ Cardinality(Buffered) + Len(Held) + Len(events) + Cardinality(Busy) + Cardinality(done)
         + Cardinality(gone) = produced

(* The samples of one CPU reach the workers in the order in which they     *)
(* were produced: a single worker handles the traffic of a descriptor, its *)
(* close and its next use in order, as long as the thread stays on its CPU.*)
OrderKept ==
    \A c \in CPUs :
        LET onWay == events \o Held \o perf[c]
            ours  == {i \in DOMAIN onWay : onWay[i].cpu = c /\ onWay[i].kind # "lost"}
        IN  /\ \A i, j \in ours : i < j => onWay[i].n < onWay[j].n
            /\ \A s \in done \cup InHand, i \in ours : s.cpu = c => s.n < onWay[i].n

(* /overview: a dropped sample is counted as lost when a later one of its  *)
(* CPU has been read or is the next to be read, and not before; the        *)
(* samples read are those and what went on to the channel.  The counters   *)
(* are behind by the record that the reader has in hand, and by no more:   *)
(* also while it waits for room in the channel.                            *)
WentOn(c) == {s \in Range(Held) \cup Range(events) \cup InHand \cup done : s.cpu = c}

NextRead(c) == IF perf[c] # <<>> /\ Head(perf[c]).kind # "lost" THEN {Head(perf[c])} ELSE {}

Told == {g \in gone : \E s \in WentOn(g.cpu) \cup NextRead(g.cpu) : g.n < s.n}

LostInHand == IF reader.pc = "lost" THEN reader.rec.n ELSE 0
ReadInHand == IF reader.pc = "lostRead" THEN reader.rec.n
              ELSE IF reader.pc = "sent" THEN 1 ELSE 0

CountersAgree ==
    /\ lostCount + LostInHand = Cardinality(Told)
    /\ readCount + ReadInHand = lostCount + Len(events) + Cardinality(Busy) + Cardinality(done)

(* The goroutines are started once, although the root command executes     *)
(* itself again, and with it the hook that starts them.                    *)
StartedOnce == starts <= 1

(* A goroutine that gives up ends the program: no error is left in a       *)
(* channel that nobody reads.                                              *)
FailuresEndTheProgram == (Failed # {}) ~> ~Alive

(* So does a signal.                                                       *)
SignalsEndTheProgram == (stopper = "pending") ~> ~Alive

(* A sample in a perf buffer is handled, unless the program ends before:   *)
(* the reader, the channel and the workers never wait for each other in a  *)
(* circle, and no sample makes one of them stop.                           *)
SamplesAreHandled ==
    \A n \in 1 .. MaxSamples :
        (\E s \in Buffered : s.n = n) ~> (\E s \in done : s.n = n) \/ ~Alive
=============================================================================
