---------------------------- MODULE EventPipeline ----------------------------
(***************************************************************************)
(* From the perf buffer to the workers: src/engine/engine.go, tracepoint.go*)
(* (startPerfEventReader) and worker.go (startWorkers, processPerfEvents). *)
(* StartEngine attaches the probe, then starts a reader that forwards      *)
(* samples to a bounded channel, and the workers that receive from it.     *)
(* What goes wrong is reported through errChan, which Program reads.       *)
(*                                                                         *)
(* The probe and the kernel's buffers are external: a buffer per CPU that  *)
(* drops samples when it is full, and says how many once it has room.      *)
(***************************************************************************)
EXTENDS Integers, Sequences, FiniteSets, Functions

CONSTANTS
    CPUs,
    PerfSize,      \* samples a perf buffer holds
    ChannelSize,   \* config.GlobalConfig.ChannelSize
    Workers,       \* goroutines running processPerfEvents (WorkersCount)
    Kinds,         \* kinds of samples
    MaxSamples     \* bound: how many samples the probe produces

ASSUME PipelineAssumption ==
    /\ PerfSize \in Nat \ {0}
    /\ ChannelSize \in Nat     \* make panics with a negative size
    /\ Kinds \subseteq {"event", "malformed"}
    /\ MaxSamples \in Nat
    /\ IsFiniteSet(CPUs) /\ IsFiniteSet(Workers)

ErrChanSize == 20

(* A malformed sample is too short, or has a type that no event has.  A    *)
(* "lost" record carries a number of dropped samples instead.              *)
Samples  == [kind : Kinds, cpu : CPUs, n : 1 .. MaxSamples]
Losses   == [kind : {"lost"}, cpu : CPUs, n : 1 .. MaxSamples]
NoSample == [kind |-> "none"]

VARIABLES
    perf,       \* cpu -> its perf buffer, the oldest record first
    dropped,    \* cpu -> samples dropped since its last "lost" record
    engine,     \* what StartEngine is doing
    reader,     \* what startPerfEventReader is doing
    starter,    \* what startWorkers is doing
    worker,     \* what each worker is doing
    events,     \* eventsChan
    errChan,    \* who reported an error
    lostCount,  \* PerfReaderLostProfileCounter
    readCount,  \* PerfReaderReadProfileCounter
    produced,   \* how many samples the probe produced
    done,       \* history: the samples the workers are done with
    gone        \* history: the samples that were dropped

kernel   == <<perf, dropped, produced, gone>>
counts   == <<lostCount, readCount>>
pipeline == <<perf, dropped, engine, reader, starter, worker, events, errChan,
              lostCount, readCount, produced, done, gone>>

InitPipeline ==
    /\ perf = [c \in CPUs |-> <<>>]
    /\ dropped = [c \in CPUs |-> 0]
    /\ engine = "off"
    /\ reader = [pc |-> "off", rec |-> NoSample]
    /\ starter = "off"
    /\ worker = [w \in Workers |-> [pc |-> "off", rec |-> NoSample]]
    /\ events = <<>>
    /\ errChan = <<>>
    /\ lostCount = 0 /\ readCount = 0
    /\ produced = 0
    /\ done = {} /\ gone = {}

(* errChan <- err: waits when the channel is full.                         *)
Report(who) == Len(errChan) < ErrChanSize /\ errChan' = Append(errChan, who)

-----------------------------------------------------------------------------
(* The kernel.                                                             *)

Sampled(seq) == {r \in Range(seq) : r.kind # "lost"}

(* A sample of the probe, once the programs are attached.                  *)
Produce(c, kind) ==
    LET s    == [kind |-> kind, cpu |-> c, n |-> produced + 1]
        loss == IF dropped[c] = 0 THEN <<>>
                ELSE << [kind |-> "lost", cpu |-> c, n |-> dropped[c]] >>
    IN  /\ engine \in {"attached", "started"}
        /\ produced < MaxSamples
        /\ produced' = produced + 1
        /\ IF Cardinality(Sampled(perf[c])) < PerfSize
           THEN /\ perf' = [perf EXCEPT ![c] = @ \o loss \o <<s>>]
                /\ dropped' = [dropped EXCEPT ![c] = 0]
                /\ UNCHANGED gone
           ELSE /\ dropped' = [dropped EXCEPT ![c] = @ + 1]
                /\ gone' = gone \cup {s}
                /\ UNCHANGED perf
        /\ UNCHANGED <<engine, reader, starter, worker, events, errChan, counts, done>>

-----------------------------------------------------------------------------
(* StartEngine.                                                            *)

(* tp.start: load and attach the programs, find the map of events.         *)
AttachProbe ==
    /\ engine = "starting"
    /\ engine' = "attached"
    /\ UNCHANGED <<kernel, reader, starter, worker, events, errChan, counts, done>>

FailProbe ==
    /\ engine = "starting"
    /\ Report("engine")
    /\ engine' = "failed"
    /\ UNCHANGED <<kernel, reader, starter, worker, events, counts, done>>

StartGoroutines ==
    /\ engine = "attached"
    /\ engine' = "started"
    /\ reader' = [reader EXCEPT !.pc = "open"]
    /\ starter' = "interfaces"
    /\ UNCHANGED <<kernel, worker, events, errChan, counts, done>>

-----------------------------------------------------------------------------
(* startPerfEventReader.                                                   *)

OpenReader ==
    /\ reader.pc = "open"
    /\ reader' = [reader EXCEPT !.pc = "read"]
    /\ UNCHANGED <<kernel, engine, starter, worker, events, errChan, counts, done>>

(* perf.NewReader or rd.Read fails: the goroutine reports it and ends.     *)
FailReader ==
    /\ reader.pc \in {"open", "read"}
    /\ Report("reader")
    /\ reader' = [reader EXCEPT !.pc = "failed"]
    /\ UNCHANGED <<kernel, engine, starter, worker, events, counts, done>>

(* Mutant of Read: LostSamples is not looked at, so that a "lost" record   *)
(* is forwarded like a sample.                                             *)
ReadOn ==
    /\ reader.pc = "read"
    /\ \E c \in CPUs :
         /\ perf[c] # <<>>
         /\ perf' = [perf EXCEPT ![c] = Tail(@)]
         /\ reader' = [pc |-> "send", rec |-> Head(perf[c])]
    /\ UNCHANGED <<dropped, produced, gone, engine, starter, worker, events, errChan, counts, done>>

(* rd.Read: the oldest record of a buffer that has one.                    *)
Read ==
    /\ reader.pc = "read"
    /\ \E c \in CPUs :
         /\ perf[c] # <<>>
         /\ perf' = [perf EXCEPT ![c] = Tail(@)]
         /\ reader' = [pc |-> IF Head(perf[c]).kind = "lost" THEN "lost" ELSE "send",
                       rec |-> Head(perf[c])]
    /\ UNCHANGED <<dropped, produced, gone, engine, starter, worker, events, errChan, counts, done>>

(* Mutant of CountLost: dropped samples do not count as read ones.         *)
CountOnlyLost ==
    /\ reader.pc = "lost"
    /\ lostCount' = lostCount + reader.rec.n
    /\ reader' = [pc |-> "read", rec |-> NoSample]
    /\ UNCHANGED <<kernel, engine, starter, worker, events, errChan, readCount, done>>

CountLost ==
    /\ reader.pc = "lost"
    /\ lostCount' = lostCount + reader.rec.n
    /\ reader' = [pc |-> "lostRead", rec |-> reader.rec]
    /\ UNCHANGED <<kernel, engine, starter, worker, events, errChan, readCount, done>>

(* Dropped samples count as read ones, too, after that.                    *)
CountLostAsRead ==
    /\ reader.pc = "lostRead"
    /\ readCount' = readCount + reader.rec.n
    /\ reader' = [pc |-> "read", rec |-> NoSample]
    /\ UNCHANGED <<kernel, engine, starter, worker, events, errChan, lostCount, done>>

Sent == reader.pc = "send" /\ reader' = [pc |-> "sent", rec |-> NoSample]

(* Mutant of Send: a sample is dropped when there is no room.              *)
SendOrDrop ==
    /\ Sent
    /\ events' = IF Len(events) < ChannelSize THEN Append(events, reader.rec) ELSE events
    /\ UNCHANGED <<kernel, engine, starter, worker, errChan, counts, done>>

(* c <- record.RawSample, with room in the channel ...                     *)
Send ==
    /\ Sent
    /\ Len(events) < ChannelSize
    /\ events' = Append(events, reader.rec)
    /\ UNCHANGED <<kernel, engine, starter, worker, errChan, counts, done>>

(* The sample is counted when it is gone: a worker may have it already.    *)
CountSent ==
    /\ reader.pc = "sent"
    /\ readCount' = readCount + 1
    /\ reader' = [pc |-> "read", rec |-> NoSample]
    /\ UNCHANGED <<kernel, engine, starter, worker, events, errChan, lostCount, done>>

-----------------------------------------------------------------------------
(* Mutant of Take: the worker returns when it gets a malformed sample.     *)
TakeOrStop(w, s) ==
    IF s.kind = "event"
    THEN /\ worker' = [worker EXCEPT ![w] = [pc |-> "process", rec |-> s]]
         /\ UNCHANGED done
    ELSE /\ done' = done \cup {s}
         /\ worker' = [worker EXCEPT ![w].pc = "off"]

(* processPerfEvents: a malformed sample is passed over.                   *)
Take(w, s) ==
    IF s.kind = "event"
    THEN /\ worker' = [worker EXCEPT ![w] = [pc |-> "process", rec |-> s]]
         /\ UNCHANGED done
    ELSE /\ done' = done \cup {s}
         /\ UNCHANGED worker

(* Mutant of HandOver: past the samples in the channel.                    *)
HandOverFirst(w) ==
    /\ Sent
    /\ worker[w].pc = "receive"
    /\ Take(w, reader.rec)
    /\ UNCHANGED <<kernel, engine, starter, events, errChan, counts>>

(* ... or straight to a worker that waits.                                 *)
HandOver(w) ==
    /\ Sent
    /\ events = <<>>
    /\ worker[w].pc = "receive"
    /\ Take(w, reader.rec)
    /\ UNCHANGED <<kernel, engine, starter, events, errChan, counts>>

Receive(w) ==
    /\ worker[w].pc = "receive"
    /\ events # <<>>
    /\ events' = Tail(events)
    /\ Take(w, Head(events))
    /\ UNCHANGED <<kernel, engine, reader, starter, errChan, counts>>

(* event.Process(): the module Engine.                                     *)
Process(w) ==
    /\ worker[w].pc = "process"
    /\ worker' = [worker EXCEPT ![w] = [pc |-> "receive", rec |-> NoSample]]
    /\ done' = done \cup {worker[w].rec}
    /\ UNCHANGED <<kernel, engine, reader, starter, events, errChan, counts>>

-----------------------------------------------------------------------------
(* startWorkers.                                                           *)

ListInterfaces ==
    /\ starter = "interfaces"
    /\ starter' = "launch"
    /\ UNCHANGED <<kernel, engine, reader, worker, events, errChan, counts, done>>

FailInterfaces ==
    /\ starter = "interfaces"
    /\ Report("interfaces")
    /\ starter' = "failed"
    /\ UNCHANGED <<kernel, engine, reader, worker, events, counts, done>>

(* The next worker gets its profile counter, and starts.                   *)
Launch(w) ==
    /\ starter = "launch"
    /\ worker[w].pc = "off"
    /\ worker' = [worker EXCEPT ![w].pc = "receive"]
    /\ UNCHANGED <<kernel, engine, reader, starter, events, errChan, counts, done>>

(* All workers run; startSnapShotWorker is started (the module Engine).    *)
EndLaunch ==
    /\ starter = "launch"
    /\ \A w \in Workers : worker[w].pc # "off"
    /\ starter' = "started"
    /\ UNCHANGED <<kernel, engine, reader, worker, events, errChan, counts, done>>
=============================================================================
