---------------------------- MODULE ProgramProofs ----------------------------
(***************************************************************************)
(* Theorems about Program, for any number of CPUs, workers and samples and *)
(* any sizes of the buffers: the goroutines start once, what becomes of    *)
(* the samples between the probe and the workers, and that nobody on that  *)
(* way waits for ever.                                                     *)
(***************************************************************************)
EXTENDS Program, SequenceTheorems, FiniteSetTheorems, TLAPS

-----------------------------------------------------------------------------
(* Starting.                                                               *)

(* The hook has not started anything while it is still to run, nor while   *)
(* the root command is.                                                    *)
StartInv ==
    /\ main \in [cmd : Commands \cup {"top"}, pc : {"preRun", "runE", "waitForever"}]
    /\ starts \in {0, 1}
    /\ main.pc = "preRun" => starts = 0
    /\ main.cmd = "process-bandwidth" => starts = 0

LEMMA StartInvInit == Init => StartInv
  BY DEF Init, StartInv

(* The commands that start the goroutines are not the root command, and    *)
(* the steps of anybody else leave the command alone.                      *)
LEMMA StartInvStep == StartInv /\ [Next]_vars => StartInv'
<1> SUFFICES ASSUME StartInv, [Next]_vars PROVE StartInv'
  OBVIOUS
<1>1. CASE Main
  <2>1. CASE SkipPreRun
    BY <2>1 DEF SkipPreRun, StartInv
  <2>2. CASE PreRun
    BY <2>2 DEF PreRun, Start, StartInv
  <2>3. CASE RunRoot
    BY <2>3 DEF RunRoot, StartInv
  <2>4. CASE RunLong
    BY <2>4 DEF RunLong, StartInv
  <2> QED
    BY <1>1, <2>1, <2>2, <2>3, <2>4 DEF Main
<1>2. UNCHANGED <<main, starts>> => StartInv'
  BY DEF StartInv
<1>3. CASE Leave \/ Watch \/ Serve \/ Outside
  <2>1. UNCHANGED <<main, starts>>
    BY <1>3 DEF Leave, Watch, Serve, Outside, RejectKernel, RunShort, WatchErrors, WatchSignals,
                ReportServer, Signal, BeginOverview, EndOverview, FailServer
  <2> QED
    BY <2>1, <1>2
<1>4. CASE Kernel \/ Fail \/ StartEngine \/ ReadEvents \/ StartWorkers \/ \E w \in Workers : Work(w)
  <2>1. UNCHANGED <<main, starts>>
    BY <1>4 DEF Kernel, Fail, StartEngine, ReadEvents, StartWorkers, Work, Pipeline, program, LaunchWorker
  <2> QED
    BY <2>1, <1>2
<1>5. CASE UNCHANGED vars
  BY <1>5, <1>2 DEF vars, program
<1> QED
  BY <1>1, <1>3, <1>4, <1>5 DEF Next

(* The goroutines are started at most once, also by the root command,      *)
(* whose second execution runs the hook of src/commands/main.go again.     *)
THEOREM GoroutinesStartOnce == Spec => []StartedOnce
<1>1. StartInv => StartedOnce
  BY DEF StartInv, StartedOnce
<1> QED
  BY <1>1, StartInvInit, StartInvStep, PTL DEF Spec

-----------------------------------------------------------------------------
(* Sequences.                                                              *)

LEMMA TailFacts ==
    ASSUME NEW S, NEW q \in Seq(S), q # <<>>
    PROVE  /\ Len(q) \in Nat \ {0} /\ DOMAIN q = 1 .. Len(q)
           /\ 1 \in DOMAIN q /\ Head(q) = q[1] /\ q[1] \in S
           /\ Tail(q) \in Seq(S) /\ Len(Tail(q)) = Len(q) - 1
           /\ DOMAIN Tail(q) = 1 .. Len(q) - 1
           /\ \A i \in 1 .. Len(q) - 1 : Tail(q)[i] = q[i + 1]
<1>1. Len(q) \in Nat \ {0} /\ DOMAIN q = 1 .. Len(q) /\ 1 \in 1 .. Len(q)
  BY EmptySeq, LenProperties
<1>2. q[1] \in S /\ Head(q) = q[1]
  BY <1>1, ElementOfSeq
<1>3. /\ Tail(q) \in Seq(S) /\ Len(Tail(q)) = Len(q) - 1
      /\ \A i \in 1 .. Len(Tail(q)) : Tail(q)[i] = q[i + 1]
  BY HeadTailProperties
<1>4. DOMAIN Tail(q) = 1 .. Len(q) - 1
  BY <1>3, LenProperties
<1>. QED
  BY <1>1, <1>2, <1>3, <1>4

LEMMA AppendFacts ==
    ASSUME NEW S, NEW q \in Seq(S), NEW s \in S
    PROVE  /\ Len(q) \in Nat /\ DOMAIN q = 1 .. Len(q)
           /\ Append(q, s) \in Seq(S) /\ Len(Append(q, s)) = Len(q) + 1
           /\ DOMAIN Append(q, s) = 1 .. Len(q) + 1
           /\ \A i \in 1 .. Len(q) : Append(q, s)[i] = q[i]
           /\ Append(q, s)[Len(q) + 1] = s
<1>1. Append(q, s) \in Seq(S) /\ Len(Append(q, s)) = Len(q) + 1
  BY AppendProperties
<1>2. DOMAIN Append(q, s) = 1 .. Len(q) + 1
  BY <1>1, LenProperties
<1>. QED
  BY <1>1, <1>2, AppendProperties, LenProperties

LEMMA TailRange ==
    ASSUME NEW S, NEW q \in Seq(S), q # <<>>
    PROVE  Range(q) = {Head(q)} \cup Range(Tail(q))
<1>1. ASSUME NEW i \in DOMAIN q PROVE q[i] = Head(q) \/ \E j \in DOMAIN Tail(q) : q[i] = Tail(q)[j]
  <2>1. CASE i = 1
    BY <2>1, TailFacts
  <2>2. CASE i # 1
    <3>1. i - 1 \in 1 .. Len(q) - 1 /\ (i - 1) + 1 = i
      BY <2>2, TailFacts
    <3>. QED
      BY <3>1, TailFacts
  <2>. QED
    BY <2>1, <2>2
<1>2. ASSUME NEW j \in DOMAIN Tail(q) PROVE \E i \in DOMAIN q : q[i] = Tail(q)[j]
  <2>1. j + 1 \in DOMAIN q /\ Tail(q)[j] = q[j + 1]
    BY TailFacts
  <2>. QED
    BY <2>1
<1>3. \E i \in DOMAIN q : q[i] = Head(q)
  BY TailFacts
<1>. QED
  BY <1>1, <1>2, <1>3 DEF Range

LEMMA AppendRange ==
    ASSUME NEW S, NEW q \in Seq(S), NEW s \in S
    PROVE  Range(Append(q, s)) = Range(q) \cup {s}
<1>1. ASSUME NEW i \in DOMAIN Append(q, s)
      PROVE  Append(q, s)[i] = s \/ \E j \in DOMAIN q : q[j] = Append(q, s)[i]
  BY AppendFacts
<1>2. ASSUME NEW j \in DOMAIN q PROVE \E i \in DOMAIN Append(q, s) : Append(q, s)[i] = q[j]
  <2>1. j \in DOMAIN Append(q, s) /\ Append(q, s)[j] = q[j]
    BY AppendFacts
  <2>. QED
    BY <2>1
<1>3. \E i \in DOMAIN Append(q, s) : Append(q, s)[i] = s
  <2>1. Len(q) + 1 \in DOMAIN Append(q, s)
    BY AppendFacts
  <2>. QED
    BY <2>1, AppendFacts
<1>. QED
  BY <1>1, <1>2, <1>3 DEF Range

(* A buffer that gets a sample, with or without the number of those that   *)
(* were dropped before it.                                                 *)
LEMMA PushIsAppend ==
    ASSUME NEW S, NEW q \in Seq(S), NEW l \in S, NEW s \in S
    PROVE  /\ q \o <<>> \o <<s>> = Append(q, s)
           /\ q \o <<l>> \o <<s>> = Append(Append(q, l), s)
<1>1. q \o <<>> = q
  BY ConcatEmptySeq
<1>2. q \o <<l>> = Append(q, l) /\ q \o <<s>> = Append(q, s)
  BY AppendIsConcat
<1>3. Append(q, l) \o <<s>> = Append(Append(q, l), s)
  BY AppendProperties, AppendIsConcat
<1>. QED
  BY <1>1, <1>2, <1>3

-----------------------------------------------------------------------------
(* The inductive invariant of the pipeline.                                *)

IsSample(r) == r.kind # "lost"
Reporters   == Servers \cup {"engine", "reader", "interfaces"}
OnWay       == Buffered \cup Range(Held) \cup Range(events) \cup InHand \cup done \cup gone

(* Whatever is running was started by the hook, once.                      *)
EngineInv ==
    /\ starts = 0 => engine = "off"
    /\ engine # "started" => reader.pc = "off"
    /\ errChan \in Seq(Reporters)

FiniteInv ==
    /\ IsFiniteSet(Buffered) /\ IsFiniteSet(done) /\ IsFiniteSet(gone)

(* A buffer has the samples of its CPU in order, and how many were dropped *)
(* before one of them right in front of that.                              *)
PerfInv ==
    \A c \in CPUs :
      /\ \A i \in DOMAIN perf[c] : perf[c][i].cpu = c
      /\ \A i \in DOMAIN perf[c] :
           ~IsSample(perf[c][i]) => i + 1 \in DOMAIN perf[c] /\ IsSample(perf[c][i + 1])
      /\ \A i, j \in DOMAIN perf[c] :
           i < j /\ IsSample(perf[c][i]) /\ IsSample(perf[c][j]) => perf[c][i].n < perf[c][j].n

(* What is further on its way was produced earlier on its CPU.             *)
Earlier(s, t) == s.cpu = t.cpu => s.n < t.n

ReadInv == \A c \in CPUs : \A s \in WentOn(c), i \in DOMAIN perf[c] :
               IsSample(perf[c][i]) => s.n < perf[c][i].n

PassInv ==
    /\ \A i, j \in DOMAIN events : i < j => Earlier(events[i], events[j])
    /\ reader.pc = "send" => \A i \in DOMAIN events : Earlier(events[i], reader.rec)
    /\ \A s \in InHand \cup done :
         /\ reader.pc = "send" => Earlier(s, reader.rec)
         /\ \A i \in DOMAIN events : Earlier(s, events[i])

OrderInv == ReadInv /\ PassInv

(* Workers have different samples, that are not done yet.                  *)
HandInv ==
    \A w \in Busy :
      /\ worker[w].rec \notin done
      /\ \A v \in Busy : v # w => worker[v].rec # worker[w].rec

PipelineInv == TypeOK /\ StartInv /\ EngineInv /\ FiniteInv /\ PerfInv /\ OrderInv /\ HandInv
                      /\ SamplesConserved

(* The dropped samples of a CPU that came after those that the reader has  *)
(* read, and after the first i - 1 records of the buffer.                  *)
Unread(c, i) ==
    {g \in gone : /\ g.cpu = c
                  /\ \A s \in WentOn(c) : ~(g.n < s.n)
                  /\ \A j \in 1 .. i - 1 : IsSample(perf[c][j]) => ~(g.n < perf[c][j].n)}

UnreadBefore(c, i) == {g \in Unread(c, i) : g.n < perf[c][i].n}

(* The record in front of a sample says how many were dropped between it   *)
(* and the sample before it.                                               *)
LossInv ==
    \A c \in CPUs :
      /\ \A i \in DOMAIN perf[c] :
           i > 1 /\ IsSample(perf[c][i]) =>
             Cardinality(UnreadBefore(c, i)) =
               IF IsSample(perf[c][i - 1]) THEN 0 ELSE perf[c][i - 1].n
      /\ Cardinality(Unread(c, Len(perf[c]) + 1)) = dropped[c]

-----------------------------------------------------------------------------
(* The steps that move no sample.                                          *)

(* Where the reader has a record, or has yet to count one.                 *)
Counting == {"lost", "lostRead", "send", "sent"}

Quiet == /\ UNCHANGED <<perf, dropped, events, lostCount, readCount, produced, done, gone>>
         /\ Busy' = Busy /\ \A w \in Busy : worker'[w].rec = worker[w].rec
         /\ \/ reader' = reader
            \/ reader.pc \notin Counting /\ reader'.pc \notin Counting

LEMMA HeldFacts ==
    /\ Range(Held) = IF reader.pc = "send" THEN {reader.rec} ELSE {}
    /\ Len(Held) = IF reader.pc = "send" THEN 1 ELSE 0
  BY DEF Held, Range

LEMMA HeldFactsNext ==
    /\ Range(Held)' = IF reader'.pc = "send" THEN {reader'.rec} ELSE {}
    /\ Len(Held)' = IF reader'.pc = "send" THEN 1 ELSE 0
  BY DEF Held, Range

LEMMA InitPipelineInv == Init => PipelineInv /\ LossInv /\ CountersAgree
<1>. SUFFICES ASSUME Init PROVE PipelineInv /\ LossInv /\ CountersAgree
  OBVIOUS
<1>. USE DEF Init, InitPipeline
<1>1. /\ Buffered = {} /\ Range(Held) = {} /\ Range(events) = {} /\ Busy = {} /\ InHand = {}
      /\ Len(Held) = 0 /\ Len(events) = 0
  <2>1. \A c \in CPUs : Sampled(perf[c]) = {}
    BY DEF Sampled, Range
  <2>2. Busy = {}
    BY DEF Busy
  <2>3. Range(events) = {} /\ Len(events) = 0
    BY DEF Range
  <2>. QED
    BY <2>1, <2>2, <2>3, HeldFacts DEF Buffered, InHand
<1>2. Cardinality({}) = 0 /\ IsFiniteSet({})
  BY FS_EmptySet
<1>3. TypeOK
  <2>1. perf \in [CPUs -> Seq(Records)]
    BY EmptySeq
  <2>2. \A c \in CPUs : Cardinality(Sampled(perf[c])) <= PerfSize
    <3>1. \A c \in CPUs : Sampled(perf[c]) = {}
      BY DEF Sampled, Range
    <3>2. \A c \in CPUs : Cardinality(Sampled(perf[c])) = 0
      BY <1>2, <3>1 DEF Sampled
    <3>. QED
      BY ONLY <3>2, PipelineAssumption
  <2>3. events \in Seq(Samples) /\ Len(events) <= ChannelSize /\ Len(errChan) <= ErrChanSize
    BY EmptySeq, PipelineAssumption DEF ErrChanSize
  <2>4. dropped \in [CPUs -> 0 .. MaxSamples] /\ produced \in 0 .. MaxSamples
    BY PipelineAssumption
  <2>5. worker \in [Workers -> [pc : {"off", "receive", "process"}, rec : Samples \cup {NoSample}]]
    OBVIOUS
  <2>. QED
    BY <2>1, <2>2, <2>3, <2>4, <2>5 DEF TypeOK, ReaderPCs
<1>4. EngineInv
  BY EmptySeq DEF EngineInv
<1>5. FiniteInv /\ HandInv
  BY <1>1, <1>2 DEF FiniteInv, HandInv
<1>6. PerfInv /\ OrderInv
  BY <1>1 DEF PerfInv, OrderInv, ReadInv, PassInv
<1>7. SamplesConserved
  <2>1. Cardinality(Buffered) = 0 /\ Cardinality(Busy) = 0 /\ Cardinality(done) = 0
        /\ Cardinality(gone) = 0
    BY <1>1, <1>2
  <2>2. {s.n : s \in Buffered \cup Range(Held) \cup Range(events) \cup InHand \cup done \cup gone}
          = 1 .. produced
    BY <1>1
  <2>. QED
    BY <1>1, <2>1, <2>2 DEF SamplesConserved
<1>8. LossInv
  <2>1. \A c \in CPUs : Cardinality(Unread(c, Len(perf[c]) + 1)) = 0
    BY <1>2 DEF Unread
  <2>2. \A c \in CPUs : DOMAIN perf[c] = {} /\ dropped[c] = 0
    OBVIOUS
  <2>. QED
    BY ONLY <2>1, <2>2 DEF LossInv
<1>9. CountersAgree
  <2>1. Told = {} /\ Cardinality(Busy) = 0 /\ Cardinality(done) = 0
    BY <1>1, <1>2 DEF Told
  <2>. QED
    BY <1>1, <1>2, <2>1 DEF CountersAgree, LostInHand, ReadInHand
<1>. QED
  BY <1>3, <1>4, <1>5, <1>6, <1>7, <1>8, <1>9, StartInvInit DEF PipelineInv

LEMMA QuietPlaces ==
    ASSUME Quiet
    PROVE  /\ Buffered' = Buffered /\ InHand' = InHand
           /\ Range(Held)' = Range(Held) /\ Len(Held)' = Len(Held)
           /\ \A c : WentOn(c)' = WentOn(c) /\ NextRead(c)' = NextRead(c)
<1>1. Buffered' = Buffered /\ \A c : NextRead(c)' = NextRead(c)
  BY DEF Quiet, Buffered, NextRead
<1>2. InHand' = InHand
  BY DEF Quiet, InHand
<1>3. Range(Held)' = Range(Held) /\ Len(Held)' = Len(Held)
  BY HeldFacts, HeldFactsNext DEF Quiet, Counting
<1>4. \A c : WentOn(c)' = WentOn(c)
  BY <1>2, <1>3 DEF Quiet, WentOn
<1>. QED
  BY <1>1, <1>2, <1>3, <1>4

LEMMA QuietStep ==
    ASSUME PipelineInv, LossInv, CountersAgree, Quiet
    PROVE  /\ FiniteInv' /\ PerfInv' /\ OrderInv' /\ HandInv' /\ SamplesConserved'
           /\ LossInv' /\ CountersAgree'
<1>0. /\ UNCHANGED <<perf, dropped, events, lostCount, readCount, produced, done, gone, Busy>>
      /\ \/ reader' = reader
         \/ reader.pc \notin Counting /\ reader'.pc \notin Counting
      /\ \A w \in Busy : worker'[w].rec = worker[w].rec
  BY DEF Quiet
<1>1. /\ Buffered' = Buffered /\ InHand' = InHand
      /\ Range(Held)' = Range(Held) /\ Len(Held)' = Len(Held)
      /\ \A c : WentOn(c)' = WentOn(c) /\ NextRead(c)' = NextRead(c)
  BY QuietPlaces
<1>2. FiniteInv' /\ PerfInv'
  BY <1>0, <1>1 DEF PipelineInv, FiniteInv, PerfInv
<1>3. OrderInv'
  BY <1>0, <1>1 DEF PipelineInv, OrderInv, ReadInv, PassInv, Counting
<1>4. HandInv'
  BY <1>0 DEF PipelineInv, HandInv
<1>5. SamplesConserved'
  BY <1>0, <1>1 DEF PipelineInv, SamplesConserved
<1>6. LossInv'
  <2>1. \A c, i : Unread(c, i)' = Unread(c, i) /\ UnreadBefore(c, i)' = UnreadBefore(c, i)
    BY <1>0, <1>1 DEF Unread, UnreadBefore
  <2>2. \A c : Unread(c, Len(perf[c]) + 1)' = Unread(c, Len(perf[c]) + 1)
    BY <1>0, <1>1 DEF Unread
  <2>. QED
    BY <1>0, <2>1, <2>2 DEF LossInv
<1>7. CountersAgree'
  <2>1. Told' = Told
    BY <1>0, <1>1 DEF Told
  <2>2. LostInHand' = LostInHand /\ ReadInHand' = ReadInHand
    BY <1>0 DEF LostInHand, ReadInHand, Counting
  <2>. QED
    BY <1>0, <2>1, <2>2 DEF CountersAgree
<1>. QED
  BY <1>2, <1>3, <1>4, <1>5, <1>6, <1>7

Moves == \/ \E c \in CPUs, k \in Kinds : Produce(c, k)
         \/ Read \/ CountLost \/ CountLostAsRead \/ Send \/ CountSent
         \/ \E w \in Workers : HandOver(w) \/ Receive(w) \/ Process(w)

LEMMA MovesOrQuiet ==
    ASSUME PipelineInv, [Next]_vars
    PROVE  Moves \/ Quiet
<1>0. /\ engine # "started" => reader.pc = "off"
      /\ worker \in [Workers -> [pc : {"off", "receive", "process"}, rec : Samples \cup {NoSample}]]
      /\ reader \in [pc : ReaderPCs, rec : Records \cup {NoSample}]
  BY DEF PipelineInv, EngineInv, TypeOK
<1>1. ASSUME UNCHANGED <<kernel, reader, worker, events, counts, done>> PROVE Quiet
  BY <1>1 DEF Quiet, kernel, counts, Busy
<1>2. CASE UNCHANGED vars
  BY <1>1, <1>2 DEF vars, pipeline, kernel, counts
<1>3. CASE Kernel
  BY <1>3 DEF Kernel, Moves
<1>4. CASE Fail
  <2>1. CASE FailProbe \/ FailInterfaces
    BY <1>1, <2>1 DEF FailProbe, FailInterfaces
  <2>2. CASE FailReader
    <3>1. /\ UNCHANGED <<perf, dropped, events, lostCount, readCount, produced, done, gone, worker>>
          /\ reader.pc \in {"open", "read"} /\ reader'.pc = "failed"
      BY <1>0, <2>2 DEF FailReader, kernel, counts
    <3>. QED
      BY <3>1 DEF Quiet, Busy, Counting
  <2>. QED
    BY <1>4, <2>1, <2>2 DEF Fail
<1>5. CASE StartEngine
  <2>1. CASE AttachProbe
    BY <1>1, <2>1 DEF AttachProbe
  <2>2. CASE StartGoroutines
    <3>1. /\ UNCHANGED <<perf, dropped, events, lostCount, readCount, produced, done, gone, worker>>
          /\ reader.pc = "off" /\ reader'.pc = "open"
      BY <1>0, <2>2 DEF StartGoroutines, kernel, counts
    <3>. QED
      BY <3>1 DEF Quiet, Busy, Counting
  <2>. QED
    BY <1>5, <2>1, <2>2 DEF StartEngine
<1>6. CASE ReadEvents
  <2>1. CASE OpenReader
    <3>1. /\ UNCHANGED <<perf, dropped, events, lostCount, readCount, produced, done, gone, worker>>
          /\ reader.pc = "open" /\ reader'.pc = "read"
      BY <1>0, <2>1 DEF OpenReader, kernel, counts
    <3>. QED
      BY <3>1 DEF Quiet, Busy, Counting
  <2>. QED
    BY <1>6, <2>1 DEF ReadEvents, Moves
<1>7. CASE StartWorkers
  <2>1. CASE ListInterfaces \/ EndLaunch
    BY <1>1, <2>1 DEF ListInterfaces, EndLaunch
  <2>2. ASSUME NEW w \in Workers, LaunchWorker(w) PROVE Quiet
    <3>1. /\ worker[w].pc = "off" /\ worker' = [worker EXCEPT ![w].pc = "receive"]
          /\ UNCHANGED <<perf, dropped, events, lostCount, readCount, produced, done, gone, reader>>
      BY <2>2 DEF LaunchWorker, Launch, kernel, counts
    <3>2. /\ worker'[w].pc = "receive"
          /\ \A v \in Workers : v # w => worker'[v] = worker[v]
      BY <1>0, <3>1
    <3>3. Busy' = Busy /\ w \notin Busy
      BY <3>1, <3>2 DEF Busy
    <3>. QED
      BY <3>1, <3>2, <3>3 DEF Quiet, Busy
  <2>. QED
    BY <1>7, <2>1, <2>2 DEF StartWorkers
<1>8. CASE \E w \in Workers : Work(w)
  BY <1>8 DEF Work, Moves
<1>9. CASE Main \/ Leave \/ Watch \/ Serve \/ Outside
  <2>1. UNCHANGED <<kernel, reader, worker, events, counts, done>>
    BY <1>9 DEF Main, Leave, Watch, Serve, Outside, SkipPreRun, PreRun, Start, RunRoot, RunLong,
       RejectKernel, RunShort, WatchErrors, WatchSignals, ReportServer, Signal, BeginOverview,
       EndOverview, FailServer, pipeline, kernel, counts
  <2>. QED
    BY <1>1, <2>1
<1>. QED
  BY <1>2, <1>3, <1>4, <1>5, <1>6, <1>7, <1>8, <1>9 DEF Next

LEMMA ReportType ==
    ASSUME PipelineInv, NEW who \in Reporters, Report(who)
    PROVE  errChan' \in Seq(Reporters) /\ Len(errChan') <= ErrChanSize
<1>1. errChan \in Seq(Reporters) /\ Len(errChan) < ErrChanSize /\ errChan' = Append(errChan, who)
  BY DEF PipelineInv, EngineInv, Report
<1>2. Len(errChan) \in Nat /\ Len(errChan') = Len(errChan) + 1 /\ errChan' \in Seq(Reporters)
  BY <1>1, AppendFacts
<1>. QED
  BY <1>1, <1>2 DEF ErrChanSize

(* The control state of the goroutines.                                    *)
Control ==
    /\ engine \in {"off", "starting", "attached", "started", "failed"}
    /\ starter \in {"off", "interfaces", "launch", "started", "failed"}
    /\ reader \in [pc : ReaderPCs, rec : Records \cup {NoSample}]
    /\ reader.pc = "send" => reader.rec \in Samples
    /\ reader.pc \in {"lost", "lostRead"} => reader.rec \in Losses
    /\ worker \in [Workers -> [pc : {"off", "receive", "process"}, rec : Samples \cup {NoSample}]]
    /\ \A w \in Workers : worker[w].pc = "process" => worker[w].rec \in Samples

Reports == errChan \in Seq(Reporters) /\ Len(errChan) <= ErrChanSize

LEMMA ControlStep ==
    ASSUME PipelineInv, [Next]_vars, ~Moves
    PROVE  Control' /\ Reports' /\ EngineInv'
<1>0. /\ starts = 0 => engine = "off"
      /\ engine # "started" => reader.pc = "off"
      /\ Reports
      /\ Control
      /\ main.pc = "preRun" => starts = 0
      /\ starts \in {0, 1}
  BY DEF PipelineInv, EngineInv, TypeOK, Reports, StartInv, Control
<1>1. ASSUME UNCHANGED <<engine, starter, reader, worker, starts>>, Reports'
      PROVE  Control' /\ Reports' /\ EngineInv'
  BY <1>0, <1>1 DEF Control, EngineInv, Reports
<1>2. CASE UNCHANGED vars
  BY <1>0, <1>1, <1>2 DEF vars, pipeline, program, Reports
<1>3. CASE Kernel
  BY <1>3 DEF Kernel, Moves
<1>4. CASE Fail
  <2>1. starts' = starts
    BY <1>4 DEF Fail, Pipeline, program
  <2>2. CASE FailProbe
    <3>1. Reports' /\ UNCHANGED <<reader, starter, worker>> /\ engine = "starting" /\ engine' = "failed"
      BY <2>2, ReportType DEF FailProbe, Reports, Reporters
    <3>. QED
      BY <1>0, <2>1, <3>1 DEF Control, EngineInv, Reports
  <2>3. CASE FailInterfaces
    <3>1. Reports' /\ UNCHANGED <<reader, engine, worker>> /\ starter' = "failed"
      BY <2>3, ReportType DEF FailInterfaces, Reports, Reporters
    <3>. QED
      BY <1>0, <2>1, <3>1 DEF Control, EngineInv, Reports
  <2>4. CASE FailReader
    <3>1. /\ Reports' /\ UNCHANGED <<starter, engine, worker>> /\ reader.pc # "off"
          /\ reader' = [reader EXCEPT !.pc = "failed"]
      BY <2>4, ReportType DEF FailReader, Reports, Reporters
    <3>2. reader'.pc = "failed" /\ reader' \in [pc : ReaderPCs, rec : Records \cup {NoSample}]
      BY <1>0, <3>1 DEF Control, ReaderPCs
    <3>. QED
      BY <1>0, <2>1, <3>1, <3>2 DEF Control, EngineInv, Reports
  <2>. QED
    BY <1>4, <2>2, <2>3, <2>4 DEF Fail
<1>5. CASE StartEngine
  <2>1. starts' = starts
    BY <1>5 DEF StartEngine, Pipeline, program
  <2>2. CASE AttachProbe
    <3>1. /\ UNCHANGED <<reader, starter, worker, errChan>>
          /\ engine = "starting" /\ engine' = "attached"
      BY <2>2 DEF AttachProbe
    <3>. QED
      BY <1>0, <2>1, <3>1 DEF Control, EngineInv, Reports
  <2>3. CASE StartGoroutines
    <3>1. /\ UNCHANGED <<worker, errChan>> /\ starter' = "interfaces"
          /\ engine = "attached" /\ engine' = "started" /\ reader' = [reader EXCEPT !.pc = "open"]
      BY <2>3 DEF StartGoroutines
    <3>2. reader'.pc = "open" /\ reader' \in [pc : ReaderPCs, rec : Records \cup {NoSample}]
      BY <1>0, <3>1 DEF Control, ReaderPCs
    <3>. QED
      BY <1>0, <2>1, <3>1, <3>2 DEF Control, EngineInv, Reports
  <2>. QED
    BY <1>5, <2>2, <2>3 DEF StartEngine
<1>6. CASE ReadEvents
  <2>1. OpenReader /\ starts' = starts
    BY <1>6 DEF ReadEvents, Moves, Pipeline, program
  <2>2. /\ UNCHANGED <<worker, errChan, engine, starter>> /\ reader.pc = "open"
        /\ reader' = [reader EXCEPT !.pc = "read"]
    BY <2>1 DEF OpenReader
  <2>3. reader'.pc = "read" /\ reader' \in [pc : ReaderPCs, rec : Records \cup {NoSample}]
    BY <1>0, <2>2 DEF Control, ReaderPCs
  <2>. QED
    BY <1>0, <2>1, <2>2, <2>3 DEF Control, EngineInv, Reports
<1>7. CASE StartWorkers
  <2>1. starts' = starts
    BY <1>7 DEF StartWorkers, Pipeline, program, LaunchWorker
  <2>2. CASE ListInterfaces \/ EndLaunch
    <3>1. UNCHANGED <<reader, engine, worker, errChan>> /\ starter' \in {"launch", "started"}
      BY <2>2 DEF ListInterfaces, EndLaunch
    <3>. QED
      BY <1>0, <2>1, <3>1 DEF Control, EngineInv, Reports
  <2>3. ASSUME NEW w \in Workers, LaunchWorker(w) PROVE Control' /\ Reports' /\ EngineInv'
    <3>1. /\ UNCHANGED <<reader, engine, starter, errChan>>
          /\ worker' = [worker EXCEPT ![w].pc = "receive"]
      BY <2>3 DEF LaunchWorker, Launch
    <3>2. /\ worker' \in [Workers -> [pc : {"off", "receive", "process"}, rec : Samples \cup {NoSample}]]
          /\ worker'[w].pc = "receive"
          /\ \A v \in Workers : v # w => worker'[v] = worker[v]
      BY <1>0, <3>1 DEF Control
    <3>. QED
      BY <1>0, <2>1, <3>1, <3>2 DEF Control, EngineInv, Reports
  <2>. QED
    BY <1>7, <2>2, <2>3 DEF StartWorkers
<1>8. CASE \E w \in Workers : Work(w)
  BY <1>8 DEF Work, Moves
<1>9. CASE Main
  <2>1. CASE SkipPreRun \/ RunRoot \/ RunLong
    BY <1>0, <1>1, <2>1 DEF SkipPreRun, RunRoot, RunLong, pipeline, Reports
  <2>2. CASE PreRun
    <3>1. /\ UNCHANGED <<reader, starter, worker, errChan>> /\ engine' = "starting"
          /\ starts = 0 /\ starts' = 1
      BY <1>0, <2>2 DEF PreRun, Start
    <3>2. reader.pc = "off"
      BY <1>0, <3>1
    <3>. QED
      BY <1>0, <3>1, <3>2 DEF Control, EngineInv, Reports
  <2>. QED
    BY <1>9, <2>1, <2>2 DEF Main
<1>10. CASE Leave \/ Outside
  BY <1>0, <1>1, <1>10 DEF Leave, Outside, RejectKernel, RunShort, Signal, BeginOverview, EndOverview,
     FailServer, pipeline, Reports
<1>11. CASE Watch
  <2>1. CASE WatchSignals
    BY <1>0, <1>1, <2>1 DEF WatchSignals, pipeline, Reports
  <2>2. CASE WatchErrors
    <3>1. /\ errChan \in Seq(Reporters) /\ errChan # <<>> /\ errChan' = Tail(errChan)
          /\ UNCHANGED <<engine, starter, reader, worker, starts>>
      BY <1>0, <2>2 DEF WatchErrors, Reports
    <3>2. Len(errChan) \in Nat /\ errChan' \in Seq(Reporters) /\ Len(errChan') = Len(errChan) - 1
      BY <3>1, TailFacts
    <3>3. Reports'
      BY <1>0, <3>2 DEF Reports, ErrChanSize
    <3>. QED
      BY <1>1, <3>1, <3>3
  <2>. QED
    BY <1>11, <2>1, <2>2 DEF Watch
<1>12. CASE Serve
  <2>1. PICK s \in Servers : ReportServer(s)
    BY <1>12 DEF Serve
  <2>2. Reports' /\ UNCHANGED <<engine, starter, reader, worker, starts>>
    BY <2>1, ReportType DEF ReportServer, Reports, Reporters
  <2>. QED
    BY <1>1, <2>2
<1>. QED
  BY <1>2, <1>3, <1>4, <1>5, <1>6, <1>7, <1>8, <1>9, <1>10, <1>11, <1>12 DEF Next

LEMMA QuietType ==
    ASSUME PipelineInv, Quiet, Control', Reports'
    PROVE  TypeOK'
  BY DEF PipelineInv, Quiet, Control, Reports, TypeOK

-----------------------------------------------------------------------------
(* The workers: what they have in hand and what they are done with.        *)

WorkerStates == [pc : {"off", "receive", "process"}, rec : Samples \cup {NoSample}]

WorkersOK ==
    /\ worker \in [Workers -> WorkerStates]
    /\ \A w \in Workers : worker[w].pc = "process" => worker[w].rec \in Samples
    /\ done \subseteq Samples

LEMMA HandCounts ==
    ASSUME PipelineInv
    PROVE  /\ IsFiniteSet(Busy) /\ Cardinality(Busy) \in Nat
           /\ IsFiniteSet(done) /\ Cardinality(done) \in Nat
           /\ WorkersOK
<1>1. IsFiniteSet(Busy) /\ Cardinality(Busy) \in Nat
  BY PipelineAssumption, FS_Subset, FS_CardinalityType DEF Busy
<1>2. IsFiniteSet(done) /\ Cardinality(done) \in Nat
  BY FS_CardinalityType DEF PipelineInv, FiniteInv
<1>. QED
  BY <1>1, <1>2 DEF PipelineInv, TypeOK, WorkersOK, WorkerStates

LEMMA TakeEffect ==
    ASSUME PipelineInv, NEW w \in Workers, worker[w].pc = "receive",
           NEW s \in Samples, s \notin InHand \cup done, Take(w, s)
    PROVE  /\ InHand' \cup done' = InHand \cup done \cup {s}
           /\ Cardinality(Busy') + Cardinality(done') = Cardinality(Busy) + Cardinality(done) + 1
           /\ IsFiniteSet(done') /\ HandInv' /\ WorkersOK'
<1>0. /\ IsFiniteSet(Busy) /\ Cardinality(Busy) \in Nat
      /\ IsFiniteSet(done) /\ Cardinality(done) \in Nat
      /\ WorkersOK /\ HandInv /\ w \notin Busy
  BY HandCounts DEF PipelineInv, Busy
<1>1. CASE s.kind = "event"
  <2>1. worker' = [worker EXCEPT ![w] = [pc |-> "process", rec |-> s]] /\ done' = done
    BY <1>1 DEF Take
  <2>2. /\ worker'[w] = [pc |-> "process", rec |-> s]
        /\ \A v \in Workers : v # w => worker'[v] = worker[v]
        /\ worker' \in [Workers -> WorkerStates]
    BY <1>0, <2>1 DEF WorkersOK, WorkerStates
  <2>3. Busy' = Busy \cup {w}
    BY <2>2 DEF Busy
  <2>4. \A v \in Busy : v # w /\ worker'[v] = worker[v]
    BY <1>0, <2>2 DEF Busy
  <2>5. InHand' = InHand \cup {s}
    <3>1. \A v \in Busy' : worker'[v].rec \in InHand \cup {s}
      BY <2>2, <2>3, <2>4 DEF InHand
    <3>2. \A x \in InHand \cup {s} : \E v \in Busy' : x = worker'[v].rec
      BY <2>2, <2>3, <2>4 DEF InHand
    <3>3. InHand' = {worker'[v].rec : v \in Busy'}
      BY DEF InHand
    <3>. QED
      BY <3>1, <3>2, <3>3
  <2>6. Cardinality(Busy') = Cardinality(Busy) + 1
    BY <1>0, <2>3, FS_AddElement
  <2>7. HandInv'
    <3>1. \A v \in Busy : worker[v].rec # s
      BY DEF InHand
    <3>. QED
      BY <1>0, <2>1, <2>2, <2>3, <2>4, <3>1 DEF HandInv
  <2>8. WorkersOK'
    BY <1>0, <2>1, <2>2 DEF WorkersOK
  <2>. QED
    BY <1>0, <2>1, <2>5, <2>6, <2>7, <2>8
<1>2. CASE s.kind # "event"
  <2>1. worker' = worker /\ done' = done \cup {s}
    BY <1>2 DEF Take
  <2>2. Busy' = Busy /\ InHand' = InHand
    BY <2>1 DEF Busy, InHand
  <2>3. Cardinality(done') = Cardinality(done) + 1 /\ IsFiniteSet(done')
    BY <1>0, <2>1, FS_AddElement
  <2>4. HandInv'
    <3>1. \A v \in Busy : worker[v].rec # s
      BY DEF InHand
    <3>. QED
      BY <1>0, <2>1, <2>2, <3>1 DEF HandInv
  <2>5. WorkersOK'
    BY <1>0, <2>1 DEF WorkersOK
  <2>. QED
    BY <1>0, <2>1, <2>2, <2>3, <2>4, <2>5
<1>. QED
  BY <1>1, <1>2

LEMMA ProcessEffect ==
    ASSUME PipelineInv, NEW w \in Workers, Process(w)
    PROVE  /\ InHand' \cup done' = InHand \cup done
           /\ Cardinality(Busy') + Cardinality(done') = Cardinality(Busy) + Cardinality(done)
           /\ IsFiniteSet(done') /\ HandInv' /\ WorkersOK'
<1>0. /\ IsFiniteSet(Busy) /\ Cardinality(Busy) \in Nat
      /\ IsFiniteSet(done) /\ Cardinality(done) \in Nat
      /\ WorkersOK /\ HandInv
  BY HandCounts DEF PipelineInv
<1>1. /\ w \in Busy /\ worker' = [worker EXCEPT ![w] = [pc |-> "receive", rec |-> NoSample]]
      /\ done' = done \cup {worker[w].rec}
  BY DEF Process, Busy
<1>2. /\ worker'[w] = [pc |-> "receive", rec |-> NoSample]
      /\ \A v \in Workers : v # w => worker'[v] = worker[v]
      /\ worker' \in [Workers -> WorkerStates]
  BY <1>0, <1>1 DEF WorkersOK, WorkerStates
<1>3. Busy' = Busy \ {w}
  BY <1>2 DEF Busy
<1>4. \A v \in Busy' : v \in Busy /\ v # w /\ worker'[v] = worker[v]
  BY <1>2, <1>3 DEF Busy
<1>5. InHand' \cup done' = InHand \cup done
  <2>1. \A v \in Busy' : worker'[v].rec \in InHand
    BY <1>4 DEF InHand
  <2>2. InHand' = {worker'[v].rec : v \in Busy'} /\ worker[w].rec \in InHand
    BY <1>1 DEF InHand
  <2>3. \A x \in InHand : x = worker[w].rec \/ x \in InHand'
    <3>1. \A v \in Busy : v = w \/ (v \in Busy' /\ worker'[v].rec = worker[v].rec)
      BY <1>3, <1>4
    <3>. QED
      BY <2>2, <3>1 DEF InHand
  <2>. QED
    BY <1>1, <2>1, <2>2, <2>3
<1>6. Cardinality(Busy') = Cardinality(Busy) - 1
  BY <1>0, <1>1, <1>3, FS_RemoveElement
<1>7. worker[w].rec \notin done
  BY <1>0, <1>1 DEF HandInv
<1>8. Cardinality(done') = Cardinality(done) + 1 /\ IsFiniteSet(done')
  BY <1>0, <1>1, <1>7, FS_AddElement
<1>9. HandInv'
  BY <1>0, <1>1, <1>3, <1>4 DEF HandInv
<1>10. WorkersOK'
  <2>1. done' \subseteq Samples
    BY <1>0, <1>1 DEF WorkersOK, Busy
  <2>. QED
    BY <1>0, <1>2, <2>1 DEF WorkersOK
<1>. QED
  BY <1>0, <1>5, <1>6, <1>8, <1>9, <1>10

-----------------------------------------------------------------------------
(* The steps behind the reader: samples move on, in order.                 *)

Forwarded == Range(Held) \cup Range(events) \cup InHand \cup done

OnlyForwards ==
    /\ UNCHANGED <<perf, dropped, produced, gone>>
    /\ Forwarded' = Forwarded

LEMMA ForwardStep ==
    ASSUME PipelineInv, LossInv, CountersAgree, OnlyForwards
    PROVE  /\ PerfInv' /\ LossInv' /\ Buffered' = Buffered
           /\ Told' = Told
           /\ ReadInv'
           /\ {s.n : s \in Buffered' \cup Range(Held)' \cup Range(events)' \cup InHand' \cup done'
                           \cup gone'} = 1 .. produced'
<1>1. /\ UNCHANGED <<perf, dropped, produced, gone>>
      /\ Range(Held)' \cup Range(events)' \cup InHand' \cup done'
           = Range(Held) \cup Range(events) \cup InHand \cup done
  BY DEF OnlyForwards, Forwarded
<1>2. /\ Buffered' = Buffered
      /\ \A c : WentOn(c)' = WentOn(c) /\ NextRead(c)' = NextRead(c)
  BY <1>1 DEF Buffered, WentOn, NextRead
<1>3. PerfInv'
  BY <1>1 DEF PipelineInv, PerfInv
<1>4. LossInv'
  <2>1. \A c, i : Unread(c, i)' = Unread(c, i) /\ UnreadBefore(c, i)' = UnreadBefore(c, i)
    BY <1>1, <1>2 DEF Unread, UnreadBefore
  <2>2. \A c : Unread(c, Len(perf[c]) + 1)' = Unread(c, Len(perf[c]) + 1)
    BY <1>1, <1>2 DEF Unread
  <2>. QED
    BY <1>1, <2>1, <2>2 DEF LossInv
<1>5. Told' = Told
  BY <1>1, <1>2 DEF Told
<1>6. ReadInv'
  BY <1>1, <1>2 DEF PipelineInv, OrderInv, ReadInv
<1>7. {s.n : s \in Buffered' \cup Range(Held)' \cup Range(events)' \cup InHand' \cup done'
                   \cup gone'} = 1 .. produced'
  <2>1. Buffered' \cup Range(Held)' \cup Range(events)' \cup InHand' \cup done' \cup gone'
          = Buffered \cup Range(Held) \cup Range(events) \cup InHand \cup done \cup gone
    BY <1>1, <1>2
  <2>. QED
    BY <1>1, <2>1 DEF PipelineInv, SamplesConserved
<1>. QED
  BY <1>1, <1>2, <1>3, <1>4, <1>5, <1>6, <1>7

(* How many samples are behind the reader.                                 *)
Behind == Len(events) + Cardinality(Busy) + Cardinality(done)

LEMMA Queue ==
    ASSUME PipelineInv
    PROVE  /\ events \in Seq(Samples) /\ Len(events) \in Nat /\ Len(events) <= ChannelSize
           /\ DOMAIN events = 1 .. Len(events)
           /\ readCount \in Nat /\ lostCount \in Nat
           /\ reader.pc = "send" => reader.rec \in Samples
           /\ reader.pc \in {"lost", "lostRead"} => reader.rec \in Losses /\ reader.rec.n \in Nat
           /\ LostInHand \in Nat /\ ReadInHand \in Nat
           /\ Behind \in Nat
<1>1. /\ events \in Seq(Samples) /\ Len(events) <= ChannelSize
      /\ readCount \in Nat /\ lostCount \in Nat
      /\ reader.pc = "send" => reader.rec \in Samples
      /\ reader.pc \in {"lost", "lostRead"} => reader.rec \in Losses
  BY DEF PipelineInv, TypeOK
<1>2. Len(events) \in Nat /\ DOMAIN events = 1 .. Len(events)
  BY <1>1, LenProperties
<1>3. reader.pc \in {"lost", "lostRead"} => reader.rec.n \in Nat
  BY <1>1, PipelineAssumption DEF Losses
<1>4. Behind \in Nat
  BY <1>2, HandCounts DEF Behind
<1>5. LostInHand \in Nat /\ ReadInHand \in Nat
  BY <1>3 DEF LostInHand, ReadInHand
<1>. QED
  BY <1>1, <1>2, <1>3, <1>4, <1>5

LEMMA ConservedCounts ==
    ASSUME PipelineInv
    PROVE  /\ Cardinality(Buffered) \in Nat /\ Cardinality(gone) \in Nat
           /\ Len(Held) \in Nat /\ Behind \in Nat
           /\ Cardinality(Buffered) + Len(Held) + Behind + Cardinality(gone) = produced
<1>1. Cardinality(Buffered) \in Nat /\ Cardinality(gone) \in Nat
  BY FS_CardinalityType DEF PipelineInv, FiniteInv
<1>2. Len(Held) \in Nat /\ Len(events) \in Nat /\ Cardinality(Busy) \in Nat /\ Cardinality(done) \in Nat
  BY HeldFacts, HandCounts, Queue
<1>3. Cardinality(Buffered) + Len(Held) + Len(events) + Cardinality(Busy) + Cardinality(done)
        + Cardinality(gone) = produced
  BY DEF PipelineInv, SamplesConserved
<1>4. Behind \in Nat
  BY Queue
<1>5. Cardinality(Buffered) + Len(Held) + Behind + Cardinality(gone) = produced
  BY ONLY <1>1, <1>2, <1>3 DEF Behind
<1>. QED
  BY <1>1, <1>2, <1>4, <1>5

(* A step moves samples on, and what the reader counts it no longer has in *)
(* hand, or is behind the reader.                                          *)
SameNumber == Len(Held)' + Behind' = Len(Held) + Behind

SameLost == lostCount' + LostInHand' = lostCount + LostInHand

SameCount == readCount' + ReadInHand' + lostCount + Behind
               = readCount + ReadInHand + lostCount' + Behind'

LEMMA ForwardMove ==
    ASSUME PipelineInv, LossInv, CountersAgree, OnlyForwards,
           UNCHANGED <<engine, starter, errChan, starts>>,
           reader.pc # "off" \/ reader' = reader,
           \/ reader' = reader
           \/ \E pc \in {"read", "sent"} : reader' = [pc |-> pc, rec |-> NoSample]
           \/ reader.pc = "lost" /\ reader' = [pc |-> "lostRead", rec |-> reader.rec],
           events' \in Seq(Samples), Len(events') <= ChannelSize,
           WorkersOK', HandInv', IsFiniteSet(done'), PassInv', readCount' \in Nat, lostCount' \in Nat,
           SameNumber, SameLost, SameCount
    PROVE  /\ TypeOK' /\ EngineInv' /\ FiniteInv' /\ PerfInv' /\ OrderInv' /\ HandInv'
           /\ SamplesConserved' /\ LossInv' /\ CountersAgree'
<1>1. /\ PerfInv' /\ LossInv' /\ Buffered' = Buffered
      /\ Told' = Told
      /\ ReadInv'
      /\ {s.n : s \in Buffered' \cup Range(Held)' \cup Range(events)' \cup InHand' \cup done'
                      \cup gone'} = 1 .. produced'
  BY ForwardStep
<1>2. UNCHANGED <<perf, dropped, produced, gone>>
  BY DEF OnlyForwards
<1>3. TypeOK'
  <2>1. /\ reader' \in [pc : ReaderPCs, rec : Records \cup {NoSample}]
        /\ reader'.pc = "send" => reader'.rec \in Samples
        /\ reader'.pc \in {"lost", "lostRead"} => reader'.rec \in Losses
    BY DEF PipelineInv, TypeOK, ReaderPCs
  <2>. QED
    BY <1>2, <2>1 DEF PipelineInv, TypeOK, WorkersOK, WorkerStates
<1>4. EngineInv'
  BY DEF PipelineInv, EngineInv
<1>5. FiniteInv'
  BY <1>1, <1>2 DEF PipelineInv, FiniteInv
<1>6. /\ Len(events) \in Nat /\ Len(events') \in Nat /\ Len(Held) \in Nat /\ Len(Held)' \in Nat
      /\ readCount \in Nat /\ lostCount \in Nat /\ produced \in Nat
      /\ LostInHand \in Nat /\ LostInHand' \in Nat
      /\ ReadInHand \in Nat /\ ReadInHand' \in Nat
      /\ Cardinality(Buffered) \in Nat /\ Cardinality(gone) \in Nat
      /\ Cardinality(Busy) \in Nat /\ Cardinality(done) \in Nat
      /\ Cardinality(Busy') \in Nat /\ Cardinality(done') \in Nat
  <2>1. Len(events) \in Nat /\ Len(events') \in Nat
    BY LenProperties DEF PipelineInv, TypeOK
  <2>2. Len(Held) \in Nat /\ Len(Held)' \in Nat
    BY HeldFacts, HeldFactsNext
  <2>3. LostInHand \in Nat /\ LostInHand' \in Nat /\ ReadInHand \in Nat /\ ReadInHand' \in Nat
    <3>1. reader'.pc \in {"lost", "lostRead"} => reader'.rec.n \in Nat
      BY <1>3, PipelineAssumption DEF TypeOK, Losses
    <3>2. LostInHand' \in Nat /\ ReadInHand' \in Nat
      BY <3>1 DEF LostInHand, ReadInHand
    <3>. QED
      BY <3>2, Queue
  <2>4. readCount \in Nat /\ lostCount \in Nat /\ produced \in Nat
    BY PipelineAssumption DEF PipelineInv, TypeOK
  <2>5. /\ Cardinality(Buffered) \in Nat /\ Cardinality(gone) \in Nat
        /\ Cardinality(done) \in Nat /\ Cardinality(done') \in Nat
    BY <1>5, FS_CardinalityType DEF PipelineInv, FiniteInv
  <2>6. Cardinality(Busy) \in Nat /\ Cardinality(Busy') \in Nat
    <3>1. Busy \subseteq Workers /\ Busy' \subseteq Workers
      BY DEF Busy
    <3>. QED
      BY <3>1, PipelineAssumption, FS_Subset, FS_CardinalityType
  <2>. QED
    BY <2>1, <2>2, <2>3, <2>4, <2>5, <2>6
<1>7. Behind \in Nat /\ Behind' \in Nat
  <2>1. /\ Len(events) \in Nat /\ Cardinality(Busy) \in Nat /\ Cardinality(done) \in Nat
        /\ Len(events') \in Nat /\ Cardinality(Busy') \in Nat /\ Cardinality(done') \in Nat
    BY <1>6
  <2>. QED
    BY ONLY <2>1 DEF Behind
<1>8. SamplesConserved'
  <2>1. Cardinality(Buffered) + Len(Held) + Behind + Cardinality(gone) = produced
    BY ConservedCounts
  <2>2. Cardinality(Buffered') = Cardinality(Buffered) /\ gone' = gone /\ produced' = produced
    BY <1>1, <1>2
  <2>3. SameNumber
    OBVIOUS
  <2>4. Cardinality(Buffered') + Len(Held)' + Behind' + Cardinality(gone') = produced'
    <3>1. /\ Cardinality(Buffered) \in Nat /\ Cardinality(gone) \in Nat
          /\ Len(Held) \in Nat /\ Len(Held)' \in Nat
          /\ Behind \in Nat /\ Behind' \in Nat
      BY ONLY <1>6, <1>7
    <3>. QED
      BY ONLY <3>1, <2>1, <2>2, <2>3 DEF SameNumber
  <2>5. Cardinality(Buffered') + Len(Held)' + Len(events') + Cardinality(Busy')
          + Cardinality(done') + Cardinality(gone') = produced'
    <3>1. /\ Cardinality(Buffered') \in Nat /\ Cardinality(gone') \in Nat
          /\ Len(Held)' \in Nat /\ Len(events') \in Nat
          /\ Cardinality(Busy') \in Nat /\ Cardinality(done') \in Nat
      BY <1>6, <2>2
    <3>. QED
      BY ONLY <2>4, <3>1 DEF Behind
  <2>. QED
    BY <1>1, <2>5 DEF SamplesConserved
<1>9. CountersAgree'
  <2>1. readCount + ReadInHand = lostCount + Behind
    <3>1. readCount + ReadInHand = lostCount + Len(events) + Cardinality(Busy) + Cardinality(done)
      BY DEF CountersAgree
    <3>2. /\ lostCount \in Nat /\ Len(events) \in Nat
          /\ Cardinality(Busy) \in Nat /\ Cardinality(done) \in Nat
      BY <1>6
    <3>. QED
      BY ONLY <3>1, <3>2 DEF Behind
  <2>2. lostCount' + LostInHand' = Cardinality(Told')
    BY <1>1 DEF SameLost, CountersAgree
  <2>3. SameCount
    OBVIOUS
  <2>4. readCount' + ReadInHand' = lostCount' + Behind'
    <3>1. /\ readCount \in Nat /\ readCount' \in Nat /\ lostCount \in Nat /\ lostCount' \in Nat
          /\ ReadInHand \in Nat /\ ReadInHand' \in Nat
          /\ Behind \in Nat /\ Behind' \in Nat
      BY <1>6, <1>7
    <3>. QED
      BY ONLY <3>1, <2>1, <2>3 DEF SameCount
  <2>5. readCount' + ReadInHand'
          = lostCount' + Len(events') + Cardinality(Busy') + Cardinality(done')
    <3>1. /\ lostCount' \in Nat /\ Len(events') \in Nat
          /\ Cardinality(Busy') \in Nat /\ Cardinality(done') \in Nat
      BY <1>6
    <3>. QED
      BY ONLY <2>4, <3>1 DEF Behind
  <2>. QED
    BY <2>2, <2>5 DEF CountersAgree
<1>. QED
  BY <1>1, <1>3, <1>4, <1>5, <1>8, <1>9 DEF OrderInv

(* What holds after each step, next to StartInv.                           *)
Settled == /\ TypeOK /\ EngineInv /\ FiniteInv /\ PerfInv /\ OrderInv /\ HandInv
           /\ SamplesConserved /\ LossInv /\ CountersAgree

(* The steps with which the reader counts: no sample moves.                *)
Counts ==
    /\ UNCHANGED <<perf, dropped, produced, gone, engine, starter, worker, events, errChan, done>>
    /\ reader.pc \in {"lost", "lostRead", "sent"}

LEMMA CountStep ==
    ASSUME PipelineInv, LossInv, CountersAgree, Counts, starts' = starts,
           \/ reader' = [pc |-> "read", rec |-> NoSample]
           \/ reader.pc = "lost" /\ reader' = [pc |-> "lostRead", rec |-> reader.rec],
           readCount' \in Nat, lostCount' \in Nat, SameLost,
           readCount' + ReadInHand' + lostCount = readCount + ReadInHand + lostCount'
    PROVE  Settled'
<1>1. /\ UNCHANGED <<perf, dropped, produced, gone, engine, starter, worker, events, errChan, done>>
      /\ reader.pc \in {"lost", "lostRead", "sent"}
      /\ reader'.pc \in {"read", "lostRead"}
  BY DEF Counts
<1>2. Busy' = Busy /\ InHand' = InHand
  BY <1>1 DEF Busy, InHand
<1>3. Range(Held)' = {} /\ Range(Held) = {} /\ Len(Held)' = 0 /\ Len(Held) = 0
  BY <1>1, HeldFacts, HeldFactsNext
<1>4. OnlyForwards
  BY <1>1, <1>2, <1>3 DEF OnlyForwards, Forwarded
<1>5. WorkersOK' /\ HandInv' /\ IsFiniteSet(done')
  BY <1>1, <1>2, HandCounts DEF PipelineInv, HandInv, WorkersOK
<1>6. PassInv'
  BY <1>1, <1>2 DEF PipelineInv, OrderInv, PassInv
<1>7. Behind' = Behind
  BY <1>1, <1>2 DEF Behind
<1>8. SameNumber
  BY <1>3, <1>7 DEF SameNumber
<1>9. SameCount
  BY <1>7 DEF SameCount
<1>10. events' \in Seq(Samples) /\ Len(events') <= ChannelSize
  BY <1>1, Queue
<1>11. /\ UNCHANGED <<engine, starter, errChan, starts>> /\ reader.pc # "off"
       /\ \/ reader' = [pc |-> "read", rec |-> NoSample]
          \/ reader.pc = "lost" /\ reader' = [pc |-> "lostRead", rec |-> reader.rec]
  BY <1>1
<1>. QED
  BY <1>4, <1>5, <1>6, <1>8, <1>9, <1>10, <1>11, ForwardMove DEF Settled

LEMMA CountLostStep ==
    ASSUME PipelineInv, LossInv, CountersAgree, CountLost, starts' = starts
    PROVE  Settled'
<1>1. /\ Counts /\ reader.pc = "lost" /\ reader' = [pc |-> "lostRead", rec |-> reader.rec]
      /\ lostCount' = lostCount + reader.rec.n /\ readCount' = readCount
  BY DEF CountLost, Counts, kernel
<1>2. /\ reader.rec.n \in Nat /\ readCount \in Nat /\ lostCount \in Nat
      /\ LostInHand = reader.rec.n /\ LostInHand' = 0
      /\ ReadInHand = 0 /\ ReadInHand' = reader.rec.n
  BY <1>1, Queue DEF LostInHand, ReadInHand
<1>3. SameLost /\ lostCount' \in Nat /\ readCount' \in Nat
  BY <1>1, <1>2 DEF SameLost
<1>4. readCount' + ReadInHand' + lostCount = readCount + ReadInHand + lostCount'
  BY <1>1, <1>2
<1>. QED
  BY <1>1, <1>3, <1>4, CountStep

LEMMA CountLostAsReadStep ==
    ASSUME PipelineInv, LossInv, CountersAgree, CountLostAsRead, starts' = starts
    PROVE  Settled'
<1>1. /\ Counts /\ reader.pc = "lostRead" /\ reader' = [pc |-> "read", rec |-> NoSample]
      /\ lostCount' = lostCount /\ readCount' = readCount + reader.rec.n
  BY DEF CountLostAsRead, Counts, kernel
<1>2. /\ reader.rec.n \in Nat /\ readCount \in Nat /\ lostCount \in Nat
      /\ LostInHand = 0 /\ LostInHand' = 0
      /\ ReadInHand = reader.rec.n /\ ReadInHand' = 0
  BY <1>1, Queue DEF LostInHand, ReadInHand
<1>3. SameLost /\ lostCount' \in Nat /\ readCount' \in Nat
  BY <1>1, <1>2 DEF SameLost
<1>4. readCount' + ReadInHand' + lostCount = readCount + ReadInHand + lostCount'
  BY <1>1, <1>2
<1>. QED
  BY <1>1, <1>3, <1>4, CountStep

LEMMA CountSentStep ==
    ASSUME PipelineInv, LossInv, CountersAgree, CountSent, starts' = starts
    PROVE  Settled'
<1>1. /\ Counts /\ reader.pc = "sent" /\ reader' = [pc |-> "read", rec |-> NoSample]
      /\ lostCount' = lostCount /\ readCount' = readCount + 1
  BY DEF CountSent, Counts, kernel
<1>2. /\ readCount \in Nat /\ lostCount \in Nat
      /\ LostInHand = 0 /\ LostInHand' = 0
      /\ ReadInHand = 1 /\ ReadInHand' = 0
  BY <1>1, Queue DEF LostInHand, ReadInHand
<1>3. SameLost /\ lostCount' \in Nat /\ readCount' \in Nat
  BY <1>1, <1>2 DEF SameLost
<1>4. readCount' + ReadInHand' + lostCount = readCount + ReadInHand + lostCount'
  BY <1>1, <1>2
<1>. QED
  BY <1>1, <1>3, <1>4, CountStep

LEMMA SendStep ==
    ASSUME PipelineInv, LossInv, CountersAgree, Send, starts' = starts
    PROVE  Settled'
<1>1. /\ UNCHANGED <<perf, dropped, produced, gone, engine, starter, worker, errChan, lostCount, readCount, done>>
      /\ reader.pc = "send" /\ reader' = [pc |-> "sent", rec |-> NoSample]
      /\ Len(events) < ChannelSize /\ events' = Append(events, reader.rec)
  BY DEF Send, Sent, kernel, counts
<1>2. Busy' = Busy /\ InHand' = InHand
  BY <1>1 DEF Busy, InHand
<1>3. /\ Range(Held)' = {} /\ Range(Held) = {reader.rec} /\ Len(Held)' = 0 /\ Len(Held) = 1
      /\ LostInHand = 0 /\ LostInHand' = 0 /\ ReadInHand = 0 /\ ReadInHand' = 1
  BY <1>1, HeldFacts, HeldFactsNext DEF LostInHand, ReadInHand
<1>4. /\ events \in Seq(Samples) /\ reader.rec \in Samples
      /\ Range(events') = Range(events) \cup {reader.rec}
      /\ events' \in Seq(Samples) /\ Len(events) \in Nat /\ Len(events') = Len(events) + 1
      /\ DOMAIN events = 1 .. Len(events) /\ DOMAIN events' = 1 .. Len(events) + 1
      /\ \A i \in 1 .. Len(events) : events'[i] = events[i]
      /\ events'[Len(events) + 1] = reader.rec
  BY <1>1, Queue, AppendFacts, AppendRange
<1>5. OnlyForwards
  BY <1>1, <1>2, <1>3, <1>4 DEF OnlyForwards, Forwarded
<1>6. WorkersOK' /\ HandInv' /\ IsFiniteSet(done')
  BY <1>1, <1>2, HandCounts DEF PipelineInv, HandInv, WorkersOK
<1>7. PassInv'
  <2>1. /\ \A i, j \in DOMAIN events : i < j => Earlier(events[i], events[j])
        /\ \A i \in DOMAIN events : Earlier(events[i], reader.rec)
        /\ \A s \in InHand \cup done : /\ Earlier(s, reader.rec)
                                       /\ \A i \in DOMAIN events : Earlier(s, events[i])
    BY <1>1 DEF PipelineInv, OrderInv, PassInv
  <2>2. \A i, j \in DOMAIN events' : i < j => Earlier(events'[i], events'[j])
    <3> SUFFICES ASSUME NEW i \in DOMAIN events', NEW j \in DOMAIN events', i < j
                 PROVE  Earlier(events'[i], events'[j])
      OBVIOUS
    <3>1. i \in 1 .. Len(events) /\ (j \in 1 .. Len(events) \/ j = Len(events) + 1)
      BY <1>4
    <3>. QED
      BY <1>4, <2>1, <3>1
  <2>3. \A s \in InHand \cup done, i \in DOMAIN events' : Earlier(s, events'[i])
    <3> SUFFICES ASSUME NEW s \in InHand \cup done, NEW i \in DOMAIN events' PROVE Earlier(s, events'[i])
      OBVIOUS
    <3>1. i \in 1 .. Len(events) \/ i = Len(events) + 1
      BY <1>4
    <3>. QED
      BY <1>4, <2>1, <3>1
  <2>. QED
    BY <1>1, <1>2, <2>2, <2>3 DEF PassInv, Earlier
<1>8. Behind' = Behind + 1
  <2>1. Cardinality(Busy) \in Nat /\ Cardinality(done) \in Nat
    BY HandCounts
  <2>. QED
    BY <1>1, <1>2, <1>4, <2>1 DEF Behind
<1>9. SameNumber /\ SameLost /\ SameCount /\ readCount' \in Nat /\ lostCount' \in Nat
  <2>1. Behind \in Nat /\ readCount \in Nat /\ lostCount \in Nat
    BY Queue
  <2>. QED
    BY <1>1, <1>3, <1>8, <2>1 DEF SameNumber, SameLost, SameCount
<1>10. events' \in Seq(Samples) /\ Len(events') <= ChannelSize
  BY <1>1, <1>4, PipelineAssumption
<1>11. UNCHANGED <<engine, starter, errChan, starts>>
       /\ reader.pc # "off" /\ reader' = [pc |-> "sent", rec |-> NoSample]
  BY <1>1
<1>. QED
  BY <1>5, <1>6, <1>7, <1>9, <1>10, <1>11, ForwardMove DEF Settled

(* Nothing that a worker has, or had, is still to come.                    *)
LEMMA NotHandled ==
    ASSUME PipelineInv
    PROVE  /\ reader.pc = "send" => reader.rec \notin InHand \cup done
           /\ \A i \in DOMAIN events : events[i] \notin InHand \cup done
<1>1. \A s \in Samples : ~Earlier(s, s)
  BY DEF Earlier, Samples
<1>2. /\ reader.pc = "send" => reader.rec \in Samples
      /\ \A i \in DOMAIN events : events[i] \in Samples
  BY Queue, ElementOfSeq
<1>. QED
  BY <1>1, <1>2 DEF PipelineInv, OrderInv, PassInv

LEMMA HandOverStep ==
    ASSUME PipelineInv, LossInv, CountersAgree, NEW w \in Workers, HandOver(w), starts' = starts
    PROVE  Settled'
<1>1. /\ UNCHANGED <<perf, dropped, produced, gone, engine, starter, events, errChan, lostCount, readCount>>
      /\ reader.pc = "send" /\ reader' = [pc |-> "sent", rec |-> NoSample]
      /\ events = <<>>
      /\ worker[w].pc = "receive" /\ Take(w, reader.rec)
  BY DEF HandOver, Sent, kernel, counts
<1>2. reader.rec \in Samples /\ reader.rec \notin InHand \cup done
  BY <1>1, Queue, NotHandled
<1>3. /\ InHand' \cup done' = InHand \cup done \cup {reader.rec}
      /\ Cardinality(Busy') + Cardinality(done') = Cardinality(Busy) + Cardinality(done) + 1
      /\ IsFiniteSet(done') /\ HandInv' /\ WorkersOK'
  BY <1>1, <1>2, TakeEffect
<1>4. /\ Range(Held)' = {} /\ Range(Held) = {reader.rec} /\ Len(Held)' = 0 /\ Len(Held) = 1
      /\ LostInHand = 0 /\ LostInHand' = 0 /\ ReadInHand = 0 /\ ReadInHand' = 1
  BY <1>1, HeldFacts, HeldFactsNext DEF LostInHand, ReadInHand
<1>5. OnlyForwards
  BY <1>1, <1>3, <1>4 DEF OnlyForwards, Forwarded
<1>6. PassInv'
  <2>1. DOMAIN events' = {} /\ reader'.pc # "send"
    BY <1>1
  <2>. QED
    BY <2>1 DEF PassInv
<1>7. Behind' = Behind + 1
  <2>1. Cardinality(Busy) \in Nat /\ Cardinality(done) \in Nat
    BY HandCounts
  <2>2. Cardinality(Busy') \in Nat /\ Cardinality(done') \in Nat
    <3>1. Busy' \subseteq Workers
      BY DEF Busy
    <3>. QED
      BY <1>3, <3>1, PipelineAssumption, FS_Subset, FS_CardinalityType
  <2>3. Len(events') = 0 /\ Len(events) = 0
    BY <1>1
  <2>. QED
    BY <1>3, <2>1, <2>2, <2>3 DEF Behind
<1>8. SameNumber /\ SameLost /\ SameCount /\ readCount' \in Nat /\ lostCount' \in Nat
  <2>1. Behind \in Nat /\ readCount \in Nat /\ lostCount \in Nat
    BY Queue
  <2>. QED
    BY <1>1, <1>4, <1>7, <2>1 DEF SameNumber, SameLost, SameCount
<1>9. events' \in Seq(Samples) /\ Len(events') <= ChannelSize
  BY <1>1, Queue
<1>10. UNCHANGED <<engine, starter, errChan, starts>>
       /\ reader.pc # "off" /\ reader' = [pc |-> "sent", rec |-> NoSample]
  BY <1>1
<1>. QED
  BY <1>3, <1>5, <1>6, <1>8, <1>9, <1>10, ForwardMove DEF Settled

LEMMA ReceiveStep ==
    ASSUME PipelineInv, LossInv, CountersAgree, NEW w \in Workers, Receive(w), starts' = starts
    PROVE  Settled'
<1>1. /\ UNCHANGED <<perf, dropped, produced, gone, engine, starter, reader, errChan, lostCount, readCount>>
      /\ events # <<>> /\ events' = Tail(events)
      /\ worker[w].pc = "receive" /\ Take(w, Head(events))
  BY DEF Receive, kernel, counts
<1>2. /\ events \in Seq(Samples) /\ Len(events) \in Nat \ {0} /\ DOMAIN events = 1 .. Len(events)
      /\ 1 \in DOMAIN events /\ Head(events) = events[1] /\ events[1] \in Samples
      /\ events' \in Seq(Samples) /\ Len(events') = Len(events) - 1
      /\ DOMAIN events' = 1 .. Len(events) - 1
      /\ \A i \in 1 .. Len(events) - 1 : events'[i] = events[i + 1]
      /\ Range(events) = {events[1]} \cup Range(events')
  BY <1>1, Queue, TailFacts, TailRange
<1>3. events[1] \notin InHand \cup done
  BY <1>2, NotHandled
<1>4. /\ InHand' \cup done' = InHand \cup done \cup {events[1]}
      /\ Cardinality(Busy') + Cardinality(done') = Cardinality(Busy) + Cardinality(done) + 1
      /\ IsFiniteSet(done') /\ HandInv' /\ WorkersOK'
  BY <1>1, <1>2, <1>3, TakeEffect
<1>5. /\ Range(Held)' = Range(Held) /\ Len(Held)' = Len(Held) /\ Len(Held) \in Nat
      /\ LostInHand' = LostInHand /\ LostInHand \in Nat
      /\ ReadInHand' = ReadInHand /\ ReadInHand \in Nat
  BY <1>1, HeldFacts, HeldFactsNext, Queue DEF LostInHand, ReadInHand
<1>6. OnlyForwards
  BY <1>1, <1>2, <1>4, <1>5 DEF OnlyForwards, Forwarded
<1>7. PassInv'
  <2>1. /\ \A i, j \in DOMAIN events : i < j => Earlier(events[i], events[j])
        /\ reader.pc = "send" => \A i \in DOMAIN events : Earlier(events[i], reader.rec)
        /\ \A s \in InHand \cup done : /\ reader.pc = "send" => Earlier(s, reader.rec)
                                       /\ \A i \in DOMAIN events : Earlier(s, events[i])
    BY DEF PipelineInv, OrderInv, PassInv
  <2>2. \A i \in DOMAIN events' : /\ i + 1 \in DOMAIN events /\ 1 < i + 1
                                  /\ events'[i] = events[i + 1]
    BY <1>2
  <2>3. \A i, j \in DOMAIN events' : i < j => Earlier(events'[i], events'[j])
    <3> SUFFICES ASSUME NEW i \in DOMAIN events', NEW j \in DOMAIN events', i < j
                 PROVE  Earlier(events'[i], events'[j])
      OBVIOUS
    <3>1. i + 1 < j + 1
      BY <1>2
    <3>. QED
      BY <2>1, <2>2, <3>1
  <2>4. reader.pc = "send" => \A i \in DOMAIN events' : Earlier(events'[i], reader.rec)
    BY <2>1, <2>2
  <2>5. \A s \in InHand \cup done \cup {events[1]} :
          /\ reader.pc = "send" => Earlier(s, reader.rec)
          /\ \A i \in DOMAIN events' : Earlier(s, events'[i])
    BY <1>2, <2>1, <2>2
  <2>6. \A s \in InHand' \cup done' :
          /\ reader.pc = "send" => Earlier(s, reader.rec)
          /\ \A i \in DOMAIN events' : Earlier(s, events'[i])
    BY <1>4, <2>5
  <2>. QED
    BY <1>1, <2>3, <2>4, <2>6 DEF PassInv, Earlier
<1>8. Behind' = Behind
  <2>1. Cardinality(Busy) \in Nat /\ Cardinality(done) \in Nat
    BY HandCounts
  <2>2. Cardinality(Busy') \in Nat /\ Cardinality(done') \in Nat
    <3>1. Busy' \subseteq Workers
      BY DEF Busy
    <3>. QED
      BY <1>4, <3>1, PipelineAssumption, FS_Subset, FS_CardinalityType
  <2>3. /\ Behind = Len(events) + (Cardinality(Busy) + Cardinality(done))
        /\ Behind' = Len(events') + (Cardinality(Busy') + Cardinality(done'))
    BY <1>2, <2>1, <2>2 DEF Behind
  <2>. QED
    BY <1>2, <1>4, <2>1, <2>2, <2>3
<1>9. SameNumber /\ SameLost /\ SameCount /\ readCount' \in Nat /\ lostCount' \in Nat
  <2>1. Behind \in Nat /\ readCount \in Nat /\ lostCount \in Nat
    BY Queue
  <2>. QED
    BY <1>1, <1>5, <1>8, <2>1 DEF SameNumber, SameLost, SameCount
<1>10. events' \in Seq(Samples) /\ Len(events') <= ChannelSize
  BY <1>2, Queue, PipelineAssumption
<1>11. UNCHANGED <<engine, starter, errChan, starts, reader>>
  BY <1>1
<1>. QED
  BY <1>4, <1>6, <1>7, <1>9, <1>10, <1>11, ForwardMove DEF Settled

LEMMA ProcessStep ==
    ASSUME PipelineInv, LossInv, CountersAgree, NEW w \in Workers, Process(w), starts' = starts
    PROVE  Settled'
<1>1. UNCHANGED <<perf, dropped, produced, gone, engine, starter, reader, events, errChan, lostCount, readCount>>
  BY DEF Process, kernel, counts
<1>2. /\ InHand' \cup done' = InHand \cup done
      /\ Cardinality(Busy') + Cardinality(done') = Cardinality(Busy) + Cardinality(done)
      /\ IsFiniteSet(done') /\ HandInv' /\ WorkersOK'
  BY ProcessEffect
<1>3. /\ Range(Held)' = Range(Held) /\ Len(Held)' = Len(Held) /\ Len(Held) \in Nat
      /\ LostInHand' = LostInHand /\ LostInHand \in Nat
      /\ ReadInHand' = ReadInHand /\ ReadInHand \in Nat
  BY <1>1, HeldFacts, HeldFactsNext, Queue DEF LostInHand, ReadInHand
<1>4. OnlyForwards
  BY <1>1, <1>2, <1>3 DEF OnlyForwards, Forwarded
<1>5. PassInv'
  BY <1>1, <1>2 DEF PipelineInv, OrderInv, PassInv
<1>6. Behind' = Behind
  <2>1. Cardinality(Busy) \in Nat /\ Cardinality(done) \in Nat /\ Len(events) \in Nat
    BY HandCounts, Queue
  <2>2. Cardinality(Busy') \in Nat /\ Cardinality(done') \in Nat
    <3>1. Busy' \subseteq Workers
      BY DEF Busy
    <3>. QED
      BY <1>2, <3>1, PipelineAssumption, FS_Subset, FS_CardinalityType
  <2>. QED
    BY <1>1, <1>2, <2>1, <2>2 DEF Behind
<1>7. SameNumber /\ SameLost /\ SameCount /\ readCount' \in Nat /\ lostCount' \in Nat
  <2>1. Behind \in Nat /\ readCount \in Nat /\ lostCount \in Nat
    BY Queue
  <2>. QED
    BY <1>1, <1>3, <1>6, <2>1 DEF SameNumber, SameLost, SameCount
<1>8. events' \in Seq(Samples) /\ Len(events') <= ChannelSize
  BY <1>1, Queue
<1>9. UNCHANGED <<engine, starter, errChan, starts, reader>>
  BY <1>1
<1>. QED
  BY <1>2, <1>4, <1>5, <1>7, <1>8, <1>9, ForwardMove DEF Settled

-----------------------------------------------------------------------------
(* The reader takes the oldest record of a buffer.                         *)

(* It has taken the first record of the buffer of c.                       *)
Taken(c) ==
    /\ perf[c] # <<>>
    /\ perf' = [perf EXCEPT ![c] = Tail(@)]
    /\ UNCHANGED <<dropped, gone>>
    /\ \A d \in CPUs :
         WentOn(d)' = IF d = c /\ IsSample(Head(perf[c])) THEN WentOn(d) \cup {Head(perf[c])}
                      ELSE WentOn(d)

LEMMA TakenFacts ==
    ASSUME PipelineInv, NEW c \in CPUs, Taken(c)
    PROVE  /\ perf[c] \in Seq(Records) /\ Len(perf[c]) \in Nat \ {0}
           /\ DOMAIN perf[c] = 1 .. Len(perf[c]) /\ 1 \in DOMAIN perf[c]
           /\ Head(perf[c]) = perf[c][1] /\ perf[c][1] \in Records
           /\ perf'[c] = Tail(perf[c])
           /\ perf'[c] \in Seq(Records) /\ Len(perf'[c]) = Len(perf[c]) - 1
           /\ DOMAIN perf'[c] = 1 .. Len(perf[c]) - 1
           /\ \A i \in 1 .. Len(perf[c]) - 1 : perf'[c][i] = perf[c][i + 1]
           /\ \A d \in CPUs : d # c => perf'[d] = perf[d]
           /\ perf' \in [CPUs -> Seq(Records)]
<1>1. perf \in [CPUs -> Seq(Records)]
  BY DEF PipelineInv, TypeOK
<1>2. perf[c] \in Seq(Records) /\ perf[c] # <<>> /\ perf' = [perf EXCEPT ![c] = Tail(perf[c])]
  BY <1>1 DEF Taken
<1>3. perf'[c] = Tail(perf[c]) /\ \A d \in CPUs : d # c => perf'[d] = perf[d]
  BY <1>1, <1>2
<1>4. Tail(perf[c]) \in Seq(Records)
  BY <1>2, TailFacts
<1>5. perf' \in [CPUs -> Seq(Records)]
  BY <1>1, <1>2, <1>4
<1>. QED
  BY <1>2, <1>3, <1>5, TailFacts

(* What is not read before a record stays so, at the record's new place.   *)
LEMMA TakenUnread ==
    ASSUME PipelineInv, NEW c \in CPUs, Taken(c), NEW i \in 1 .. Len(perf[c])
    PROVE  Unread(c, i)' = Unread(c, i + 1)
<1>1. /\ Len(perf[c]) \in Nat \ {0} /\ Head(perf[c]) = perf[c][1]
      /\ \A j \in 1 .. Len(perf[c]) - 1 : perf'[c][j] = perf[c][j + 1]
  BY TakenFacts
<1>2. gone' = gone
  BY DEF Taken
<1>3. WentOn(c)' = IF IsSample(perf[c][1]) THEN WentOn(c) \cup {perf[c][1]} ELSE WentOn(c)
  BY <1>1 DEF Taken
<1> SUFFICES ASSUME NEW g \in gone, g.cpu = c
             PROVE  (/\ \A s \in WentOn(c)' : ~(g.n < s.n)
                     /\ \A j \in 1 .. i - 1 : IsSample(perf'[c][j]) => ~(g.n < perf'[c][j].n))
                    <=> (/\ \A s \in WentOn(c) : ~(g.n < s.n)
                         /\ \A j \in 1 .. (i + 1) - 1 : IsSample(perf[c][j]) => ~(g.n < perf[c][j].n))
  BY <1>2 DEF Unread, IsSample
<1> DEFINE After(j) == IsSample(perf[c][j]) => ~(g.n < perf[c][j].n)
<1>4. (\A s \in WentOn(c)' : ~(g.n < s.n)) <=> (\A s \in WentOn(c) : ~(g.n < s.n)) /\ After(1)
  BY <1>3
<1>5. (\A j \in 1 .. i - 1 : IsSample(perf'[c][j]) => ~(g.n < perf'[c][j].n))
        <=> (\A j \in 1 .. i - 1 : After(j + 1))
  <2>1. \A j \in 1 .. i - 1 : perf'[c][j] = perf[c][j + 1]
    BY <1>1
  <2>. QED
    BY <2>1
<1>6. (\A j \in 1 .. (i + 1) - 1 : After(j)) <=> After(1) /\ (\A j \in 1 .. i - 1 : After(j + 1))
  <2> HIDE DEF After
  <2>1. \A j \in 1 .. i - 1 : j + 1 \in 1 .. (i + 1) - 1
    BY <1>1
  <2>2. 1 \in 1 .. (i + 1) - 1
    BY <1>1
  <2>3. ASSUME NEW j \in 1 .. (i + 1) - 1 PROVE j = 1 \/ (j - 1 \in 1 .. i - 1 /\ (j - 1) + 1 = j)
    BY <1>1
  <2>4. ASSUME After(1), \A j \in 1 .. i - 1 : After(j + 1), NEW j \in 1 .. (i + 1) - 1 PROVE After(j)
    BY <2>3, <2>4
  <2>. QED
    BY <2>1, <2>2, <2>4
<1>. QED
  BY <1>4, <1>5, <1>6

LEMMA TakenOrder ==
    ASSUME PipelineInv, LossInv, NEW c \in CPUs, Taken(c)
    PROVE  PerfInv' /\ ReadInv' /\ LossInv'
<1>1. /\ Len(perf[c]) \in Nat \ {0} /\ DOMAIN perf[c] = 1 .. Len(perf[c]) /\ 1 \in DOMAIN perf[c]
      /\ Head(perf[c]) = perf[c][1]
      /\ Len(perf'[c]) = Len(perf[c]) - 1 /\ DOMAIN perf'[c] = 1 .. Len(perf[c]) - 1
      /\ \A i \in 1 .. Len(perf[c]) - 1 : perf'[c][i] = perf[c][i + 1]
      /\ \A d \in CPUs : d # c => perf'[d] = perf[d]
  BY TakenFacts
<1>2. /\ gone' = gone /\ dropped' = dropped
      /\ \A d \in CPUs :
           WentOn(d)' = IF d = c /\ IsSample(perf[c][1]) THEN WentOn(d) \cup {perf[c][1]} ELSE WentOn(d)
  BY <1>1 DEF Taken
<1>3. \A i \in DOMAIN perf'[c] :
        i + 1 \in DOMAIN perf[c] /\ i + 1 # 1 /\ 1 < i + 1 /\ perf'[c][i] = perf[c][i + 1]
  BY <1>1
<1>4. PerfInv'
  <2> SUFFICES ASSUME NEW d \in CPUs
               PROVE  /\ \A i \in DOMAIN perf'[d] : perf'[d][i].cpu = d
                      /\ \A i \in DOMAIN perf'[d] :
                           ~IsSample(perf'[d][i]) => i + 1 \in DOMAIN perf'[d] /\ IsSample(perf'[d][i + 1])
                      /\ \A i, j \in DOMAIN perf'[d] :
                           i < j /\ IsSample(perf'[d][i]) /\ IsSample(perf'[d][j])
                             => perf'[d][i].n < perf'[d][j].n
    BY DEF PerfInv, IsSample
  <2>1. PerfInv
    BY DEF PipelineInv
  <2>2. CASE d # c
    BY <1>1, <2>1, <2>2 DEF PerfInv
  <2>3. CASE d = c
    <3>1. \A i \in DOMAIN perf'[c] : perf'[c][i].cpu = c
      BY <1>3, <2>1 DEF PerfInv
    <3>2. ASSUME NEW i \in DOMAIN perf'[c], ~IsSample(perf'[c][i])
          PROVE  i + 1 \in DOMAIN perf'[c] /\ IsSample(perf'[c][i + 1])
      <4>1. (i + 1) + 1 \in DOMAIN perf[c] /\ IsSample(perf[c][(i + 1) + 1])
        BY <1>3, <2>1, <3>2 DEF PerfInv
      <4>2. i + 1 \in DOMAIN perf'[c]
        BY <1>1, <4>1
      <4>. QED
        BY <1>3, <4>1, <4>2
    <3>3. ASSUME NEW i \in DOMAIN perf'[c], NEW j \in DOMAIN perf'[c], i < j,
                 IsSample(perf'[c][i]), IsSample(perf'[c][j])
          PROVE  perf'[c][i].n < perf'[c][j].n
      <4>1. i + 1 < j + 1
        BY <1>1, <3>3
      <4>. QED
        BY <1>3, <2>1, <3>3, <4>1 DEF PerfInv
    <3>. QED
      BY <2>3, <3>1, <3>2, <3>3
  <2>. QED
    BY <2>2, <2>3
<1>5. ReadInv'
  <2> SUFFICES ASSUME NEW d \in CPUs, NEW s \in WentOn(d)', NEW i \in DOMAIN perf'[d],
                      IsSample(perf'[d][i])
               PROVE  s.n < perf'[d][i].n
    BY DEF ReadInv, IsSample
  <2>1. ReadInv /\ PerfInv
    BY DEF PipelineInv, OrderInv
  <2>2. CASE d # c
    BY <1>1, <1>2, <2>1, <2>2 DEF ReadInv
  <2>3. CASE d = c
    <3>1. s \in WentOn(c) \/ (IsSample(perf[c][1]) /\ s = perf[c][1])
      BY <1>2, <2>3
    <3>2. i + 1 \in DOMAIN perf[c] /\ 1 < i + 1 /\ perf'[d][i] = perf[c][i + 1]
      BY <1>3, <2>3
    <3>3. CASE s \in WentOn(c)
      BY <2>1, <3>2, <3>3 DEF ReadInv
    <3>4. CASE IsSample(perf[c][1]) /\ s = perf[c][1]
      BY <1>1, <2>1, <3>2, <3>4 DEF PerfInv
    <3>. QED
      BY <3>1, <3>3, <3>4
  <2>. QED
    BY <2>2, <2>3
<1>6. LossInv'
  <2> SUFFICES ASSUME NEW d \in CPUs
               PROVE  /\ \A i \in DOMAIN perf'[d] :
                           i > 1 /\ IsSample(perf'[d][i]) =>
                             Cardinality(UnreadBefore(d, i)') =
                               IF IsSample(perf'[d][i - 1]) THEN 0 ELSE perf'[d][i - 1].n
                      /\ Cardinality(Unread(d, Len(perf[d]) + 1))' = dropped'[d]
    BY DEF LossInv, IsSample
  <2>1. CASE d # c
    <3>1. WentOn(d)' = WentOn(d) /\ perf'[d] = perf[d]
      BY <1>1, <1>2, <2>1
    <3>2. \A i : Unread(d, i)' = Unread(d, i) /\ UnreadBefore(d, i)' = UnreadBefore(d, i)
      BY <1>2, <3>1 DEF Unread, UnreadBefore
    <3>3. Unread(d, Len(perf[d]) + 1)' = Unread(d, Len(perf[d]) + 1)
      BY <1>2, <3>1 DEF Unread
    <3>. QED
      BY <1>2, <3>1, <3>2, <3>3 DEF LossInv
  <2>2. CASE d = c
    <3>1. \A i \in 1 .. Len(perf[c]) : Unread(c, i)' = Unread(c, i + 1)
      BY TakenUnread
    <3>2. Cardinality(Unread(c, Len(perf[c]) + 1))' = dropped'[c]
      <4>1. PICK n \in 1 .. Len(perf[c]) : n = Len(perf[c]) /\ n = Len(perf'[c]) + 1
        BY <1>1
      <4>2. Unread(c, n)' = Unread(c, n + 1)
        BY <3>1
      <4>3. Unread(c, Len(perf[c]) + 1) = Unread(c, n + 1)
        BY <4>1
      <4>4. Unread(c, Len(perf[c]) + 1)' = Unread(c, n)'
        BY <4>1 DEF Unread
      <4>5. Cardinality(Unread(c, Len(perf[c]) + 1)) = dropped[c]
        BY DEF LossInv
      <4>. QED
        BY <1>2, <4>2, <4>3, <4>4, <4>5
    <3>3. ASSUME NEW i \in DOMAIN perf'[c], i > 1, IsSample(perf'[c][i])
          PROVE  Cardinality(UnreadBefore(c, i)') =
                   IF IsSample(perf'[c][i - 1]) THEN 0 ELSE perf'[c][i - 1].n
      <4>1. /\ i \in 1 .. Len(perf[c]) /\ i + 1 \in DOMAIN perf[c] /\ i + 1 > 1
            /\ perf'[c][i] = perf[c][i + 1]
            /\ i - 1 \in DOMAIN perf'[c] /\ perf'[c][i - 1] = perf[c][(i + 1) - 1]
        <5>1. i \in 1 .. Len(perf[c]) /\ i - 1 \in DOMAIN perf'[c] /\ (i - 1) + 1 = (i + 1) - 1
          BY <1>1, <3>3
        <5>. QED
          BY <1>1, <1>3, <3>3, <5>1
      <4>2. UnreadBefore(c, i)' = UnreadBefore(c, i + 1)
        BY <3>1, <4>1 DEF UnreadBefore
      <4>. QED
        BY <3>3, <4>1, <4>2 DEF LossInv
    <3>. QED
      BY <2>2, <3>2, <3>3
  <2>. QED
    BY <2>1, <2>2
<1>. QED
  BY <1>4, <1>5, <1>6

LEMMA TakenBuffered ==
    ASSUME PipelineInv, NEW c \in CPUs, Taken(c)
    PROVE  /\ Buffered' = IF IsSample(perf[c][1]) THEN Buffered \ {perf[c][1]} ELSE Buffered
           /\ IsSample(perf[c][1]) => perf[c][1] \in Buffered
           /\ \A d \in CPUs : Cardinality(Sampled(perf'[d])) <= PerfSize
<1>1. /\ perf[c] \in Seq(Records) /\ perf[c] # <<>>
      /\ Len(perf[c]) \in Nat \ {0} /\ DOMAIN perf[c] = 1 .. Len(perf[c]) /\ 1 \in DOMAIN perf[c]
      /\ Head(perf[c]) = perf[c][1] /\ perf[c][1] \in Records
      /\ perf'[c] = Tail(perf[c]) /\ DOMAIN perf'[c] = 1 .. Len(perf[c]) - 1
      /\ \A i \in 1 .. Len(perf[c]) - 1 : perf'[c][i] = perf[c][i + 1]
      /\ \A d \in CPUs : d # c => perf'[d] = perf[d]
  BY TakenFacts DEF Taken
<1>2. Range(perf[c]) = {perf[c][1]} \cup Range(perf'[c])
  <2>1. Range(perf[c]) = {Head(perf[c])} \cup Range(Tail(perf[c]))
    BY <1>1, TailRange
  <2>. QED
    BY <1>1, <2>1
<1>3. Sampled(perf[c]) = IF IsSample(perf[c][1]) THEN Sampled(perf'[c]) \cup {perf[c][1]}
                         ELSE Sampled(perf'[c])
  BY <1>2 DEF Sampled, IsSample
<1>4. IsSample(perf[c][1]) => perf[c][1] \notin Sampled(perf'[c])
  <2> SUFFICES ASSUME IsSample(perf[c][1]), perf[c][1] \in Sampled(perf'[c]) PROVE FALSE
    OBVIOUS
  <2>1. PICK i \in DOMAIN perf'[c] : perf'[c][i] = perf[c][1]
    BY DEF Sampled, Range
  <2>2. i + 1 \in DOMAIN perf[c] /\ 1 < i + 1 /\ perf[c][i + 1] = perf[c][1]
    BY <1>1, <2>1
  <2>3. perf[c][1].n < perf[c][1].n
    BY <1>1, <2>2 DEF PipelineInv, PerfInv
  <2>4. perf[c][1].n \in Nat
    BY <1>1 DEF Records, Samples, Losses
  <2>. QED
    BY <2>3, <2>4
<1>5. \A d \in CPUs : \A r \in Sampled(perf[d]) : r.cpu = d
  BY DEF PipelineInv, PerfInv, Sampled, Range
<1>6. IsSample(perf[c][1]) => perf[c][1] \in Buffered /\ perf[c][1].cpu = c
  BY <1>3, <1>5 DEF Buffered
<1>7. Buffered' = IF IsSample(perf[c][1]) THEN Buffered \ {perf[c][1]} ELSE Buffered
  <2>1. Buffered' = UNION {Sampled(perf'[d]) : d \in CPUs}
    BY DEF Buffered, Sampled
  <2>2. \A x : x \in Buffered' <=> \E d \in CPUs : x \in Sampled(perf'[d])
    BY <2>1
  <2>3. \A x : x \in Buffered <=> \E d \in CPUs : x \in Sampled(perf[d])
    BY DEF Buffered
  <2>4. \A d \in CPUs : d # c => Sampled(perf'[d]) = Sampled(perf[d])
    BY <1>1
  <2>5. ASSUME IsSample(perf[c][1]) PROVE Buffered' = Buffered \ {perf[c][1]}
    <3>1. ASSUME NEW x \in Buffered' PROVE x \in Buffered /\ x # perf[c][1]
      <4>1. PICK d \in CPUs : x \in Sampled(perf'[d])
        BY <2>2
      <4>2. CASE d = c
        BY <1>3, <1>4, <2>3, <2>5, <4>1, <4>2
      <4>3. CASE d # c
        BY <1>5, <1>6, <2>3, <2>4, <2>5, <4>1, <4>3
      <4>. QED
        BY <4>2, <4>3
    <3>2. ASSUME NEW x \in Buffered, x # perf[c][1] PROVE x \in Buffered'
      <4>1. PICK d \in CPUs : x \in Sampled(perf[d])
        BY <2>3
      <4>2. CASE d = c
        BY <1>3, <2>2, <3>2, <4>1, <4>2
      <4>3. CASE d # c
        BY <2>2, <2>4, <4>1, <4>3
      <4>. QED
        BY <4>2, <4>3
    <3>. QED
      BY <3>1, <3>2
  <2>6. ASSUME ~IsSample(perf[c][1]) PROVE Buffered' = Buffered
    <3>1. \A d \in CPUs : Sampled(perf'[d]) = Sampled(perf[d])
      BY <1>3, <2>4, <2>6
    <3>. QED
      BY <2>2, <2>3, <3>1
  <2>. QED
    BY <2>5, <2>6
<1>8. ASSUME NEW d \in CPUs PROVE Cardinality(Sampled(perf'[d])) <= PerfSize
  <2>1. Cardinality(Sampled(perf[d])) <= PerfSize
    BY DEF PipelineInv, TypeOK
  <2>2. IsFiniteSet(Sampled(perf[d]))
    <3>1. Sampled(perf[d]) \subseteq Buffered
      BY DEF Buffered
    <3>. QED
      BY <3>1, FS_Subset DEF PipelineInv, FiniteInv
  <2>3. Sampled(perf'[d]) \subseteq Sampled(perf[d])
    BY <1>1, <1>3
  <2>4. /\ Cardinality(Sampled(perf[d])) \in Nat /\ Cardinality(Sampled(perf'[d])) \in Nat
        /\ Cardinality(Sampled(perf'[d])) <= Cardinality(Sampled(perf[d]))
    BY <2>2, <2>3, FS_Subset, FS_CardinalityType
  <2>. QED
    BY <2>1, <2>4, PipelineAssumption
<1>. QED
  BY <1>6, <1>7, <1>8

(* The counters before the step, when the reader waits for a record.       *)
LEMMA WaitingCounts ==
    ASSUME PipelineInv, CountersAgree, reader.pc = "read"
    PROVE  /\ Range(Held) = {} /\ Len(Held) = 0
           /\ Len(events) \in Nat /\ Cardinality(Busy) \in Nat /\ Cardinality(done) \in Nat
           /\ lostCount = Cardinality(Told) /\ lostCount \in Nat /\ readCount \in Nat
           /\ readCount = lostCount + Len(events) + Cardinality(Busy) + Cardinality(done)
           /\ IsFiniteSet(gone) /\ IsFiniteSet(Told)
<1>1. /\ Range(Held) = {} /\ Len(Held) = 0
      /\ Len(events) \in Nat /\ Cardinality(Busy) \in Nat /\ Cardinality(done) \in Nat
  BY HeldFacts, HandCounts, Queue
<1>2. lostCount \in Nat /\ readCount \in Nat /\ IsFiniteSet(gone)
  BY DEF PipelineInv, TypeOK, FiniteInv
<1>3. readCount + 0 = lostCount + Len(events) + Cardinality(Busy) + Cardinality(done)
      /\ lostCount + 0 = Cardinality(Told)
  BY DEF CountersAgree, LostInHand, ReadInHand
<1>4. IsFiniteSet(Told)
  <2>1. Told \subseteq gone
    BY DEF Told
  <2>. QED
    BY <1>2, <2>1, FS_Subset
<1>. QED
  BY <1>1, <1>2, <1>3, <1>4

(* A number of dropped samples is read: these are now known.               *)
ReadsLoss(c) ==
    /\ reader.pc = "read" /\ perf[c] # <<>> /\ perf' = [perf EXCEPT ![c] = Tail(@)]
    /\ Head(perf[c]).kind = "lost"
    /\ reader' = [pc |-> "lost", rec |-> Head(perf[c])]
    /\ UNCHANGED <<dropped, produced, gone, engine, starter, worker, events, errChan, lostCount, readCount,
                   done, starts>>

LEMMA ReadLossStep ==
    ASSUME PipelineInv, LossInv, CountersAgree, NEW c \in CPUs, ReadsLoss(c)
    PROVE  Settled'
<1>0. /\ reader.pc = "read" /\ perf[c] # <<>> /\ ~IsSample(Head(perf[c]))
      /\ reader' = [pc |-> "lost", rec |-> Head(perf[c])]
      /\ UNCHANGED <<dropped, produced, gone, engine, starter, worker, events, errChan, lostCount, readCount,
                     done, starts>>
  BY DEF ReadsLoss, IsSample
<1>1. Busy' = Busy /\ InHand' = InHand
  BY <1>0 DEF Busy, InHand
<1>2. /\ Range(Held)' = {} /\ Len(Held)' = 0
      /\ Range(Held) = {} /\ Len(Held) = 0
      /\ Len(events) \in Nat /\ Cardinality(Busy) \in Nat /\ Cardinality(done) \in Nat
      /\ lostCount = Cardinality(Told) /\ lostCount \in Nat /\ readCount \in Nat
      /\ readCount = lostCount + Len(events) + Cardinality(Busy) + Cardinality(done)
      /\ IsFiniteSet(gone) /\ IsFiniteSet(Told)
  BY <1>0, WaitingCounts, HeldFactsNext
<1>3. \A d \in CPUs : WentOn(d)' = WentOn(d)
  BY <1>0, <1>1, <1>2 DEF WentOn
<1>4. Taken(c)
  BY <1>0, <1>3 DEF Taken, ReadsLoss
<1>5. /\ perf[c] \in Seq(Records) /\ Len(perf[c]) \in Nat \ {0}
      /\ DOMAIN perf[c] = 1 .. Len(perf[c]) /\ 1 \in DOMAIN perf[c]
      /\ Head(perf[c]) = perf[c][1] /\ perf[c][1] \in Records
      /\ perf'[c] = Tail(perf[c]) /\ Len(perf'[c]) = Len(perf[c]) - 1
      /\ perf'[c] \in Seq(Records)
      /\ \A i \in 1 .. Len(perf[c]) - 1 : perf'[c][i] = perf[c][i + 1]
      /\ \A d \in CPUs : d # c => perf'[d] = perf[d]
      /\ perf' \in [CPUs -> Seq(Records)]
  BY <1>4, TakenFacts
<1>6. /\ ~IsSample(perf[c][1]) /\ perf[c][1] \in Losses /\ perf[c][1].n \in Nat
      /\ reader' = [pc |-> "lost", rec |-> perf[c][1]]
  BY <1>0, <1>5, PipelineAssumption DEF IsSample, Records, Samples, Losses
<1>7. PerfInv' /\ ReadInv' /\ LossInv'
  BY <1>4, TakenOrder
<1>8. Buffered' = Buffered /\ \A d \in CPUs : Cardinality(Sampled(perf'[d])) <= PerfSize
  BY <1>4, <1>6, TakenBuffered
<1>9. TypeOK'
  <2>1. /\ reader' \in [pc : ReaderPCs, rec : Records \cup {NoSample}]
        /\ reader'.pc = "lost" /\ reader'.rec \in Losses
    BY <1>5, <1>6 DEF ReaderPCs
  <2>. QED
    BY <1>0, <1>5, <1>8, <2>1 DEF PipelineInv, TypeOK, Sampled
<1>10. EngineInv'
  BY <1>0 DEF PipelineInv, EngineInv
<1>11. FiniteInv' /\ HandInv'
  BY <1>0, <1>1, <1>8 DEF PipelineInv, FiniteInv, HandInv
<1>12. PassInv'
  BY <1>0, <1>1, <1>6 DEF PipelineInv, OrderInv, PassInv
<1>13. SamplesConserved'
  BY <1>0, <1>1, <1>2, <1>8 DEF PipelineInv, SamplesConserved
<1>14. Told' = Told \cup UnreadBefore(c, 2) /\ Told \cap UnreadBefore(c, 2) = {}
  <2>1. 2 \in DOMAIN perf[c] /\ IsSample(perf[c][2])
    <3>1. 1 + 1 \in DOMAIN perf[c] /\ IsSample(perf[c][1 + 1])
      BY <1>5, <1>6 DEF PipelineInv, PerfInv
    <3>. QED
      BY <3>1
  <2>2. perf'[c] # <<>> /\ Head(perf'[c]) = perf[c][2]
    <3>1. Len(perf'[c]) # 0 /\ perf'[c][1] = perf[c][2]
      <4>1. 1 \in 1 .. Len(perf[c]) - 1
        BY <1>5, <2>1
      <4>2. perf'[c][1] = perf[c][1 + 1] /\ Len(perf'[c]) # 0
        BY <1>5, <4>1
      <4>. QED
        BY <4>2
    <3>2. perf'[c] # <<>>
      BY <3>1
    <3>. QED
      BY <1>5, <3>1, <3>2, TailFacts
  <2>3. /\ NextRead(c) = {} /\ NextRead(c)' = {perf[c][2]}
        /\ \A d \in CPUs : d # c => NextRead(d)' = NextRead(d)
    BY <1>5, <1>6, <2>1, <2>2 DEF NextRead, IsSample
  <2>4. \A g \in gone : g.cpu \in CPUs
    BY DEF PipelineInv, TypeOK, Samples
  <2>5. UnreadBefore(c, 2) = {g \in gone : /\ g.cpu = c /\ \A s \in WentOn(c) : ~(g.n < s.n)
                                           /\ g.n < perf[c][2].n}
    <3>1. \A j \in 1 .. 2 - 1 : j = 1
      OBVIOUS
    <3>. QED
      BY <1>6, <3>1 DEF UnreadBefore, Unread
  <2>6. \A g \in gone : g \in Told' <=> (g \in Told \/ (g.cpu = c /\ g.n < perf[c][2].n))
    <3>0. gone' = gone
      BY <1>0
    <3> SUFFICES ASSUME NEW g \in gone
                 PROVE  (\E s \in WentOn(g.cpu)' \cup NextRead(g.cpu)' : g.n < s.n)
                          <=> (\/ \E s \in WentOn(g.cpu) \cup NextRead(g.cpu) : g.n < s.n
                               \/ g.cpu = c /\ g.n < perf[c][2].n)
      BY <3>0 DEF Told
    <3>1. CASE g.cpu = c
      BY <1>3, <2>3, <3>1
    <3>2. CASE g.cpu # c
      BY <1>3, <2>3, <2>4, <3>2
    <3>. QED
      BY <3>1, <3>2
  <2>7. \A g \in gone : g.cpu = c => (g \in Told <=> \E s \in WentOn(c) : g.n < s.n)
    BY <2>3 DEF Told
  <2>8. Told \subseteq gone /\ Told' \subseteq gone /\ UnreadBefore(c, 2) \subseteq gone
    BY <1>0, <2>5 DEF Told
  <2>9. \A g \in gone : g \in UnreadBefore(c, 2) <=> g.cpu = c /\ g.n < perf[c][2].n /\ g \notin Told
    BY <2>5, <2>7
  <2>. QED
    BY <2>6, <2>8, <2>9
<1>15. Cardinality(UnreadBefore(c, 2)) = perf[c][1].n
  <2>1. 1 + 1 \in DOMAIN perf[c] /\ IsSample(perf[c][1 + 1])
    BY <1>5, <1>6 DEF PipelineInv, PerfInv
  <2>2. 2 \in DOMAIN perf[c] /\ IsSample(perf[c][2]) /\ 2 > 1 /\ perf[c][2 - 1] = perf[c][1]
    BY <2>1
  <2>3. Cardinality(UnreadBefore(c, 2)) = IF IsSample(perf[c][2 - 1]) THEN 0 ELSE perf[c][2 - 1].n
    BY <2>2 DEF LossInv
  <2>. QED
    BY <1>6, <2>2, <2>3
<1>16. Cardinality(Told') = lostCount + perf[c][1].n
  <2>1. IsFiniteSet(UnreadBefore(c, 2))
    <3>1. UnreadBefore(c, 2) \subseteq gone
      BY DEF UnreadBefore, Unread
    <3>. QED
      BY <1>2, <3>1, FS_Subset
  <2>2. Cardinality(Told \cup UnreadBefore(c, 2))
          = Cardinality(Told) + Cardinality(UnreadBefore(c, 2)) - Cardinality(Told \cap UnreadBefore(c, 2))
    BY <1>2, <2>1, FS_Union
  <2>3. Cardinality({}) = 0
    BY FS_EmptySet
  <2>4. Cardinality(Told \cup UnreadBefore(c, 2)) = lostCount + perf[c][1].n - 0
    BY <1>2, <1>14, <1>15, <2>2, <2>3
  <2>5. Cardinality(Told') = lostCount + perf[c][1].n - 0
    BY <1>14, <2>4
  <2>. QED
    BY ONLY <1>2, <1>6, <2>5
<1>17. CountersAgree'
  <2>1. LostInHand' = perf[c][1].n /\ ReadInHand' = 0
    BY <1>6 DEF LostInHand, ReadInHand
  <2>2. readCount' + 0 = lostCount' + Len(events') + Cardinality(Busy') + Cardinality(done')
    BY <1>0, <1>1, <1>2
  <2>3. lostCount' + perf[c][1].n = Cardinality(Told')
    BY <1>0, <1>16
  <2>. QED
    BY <2>1, <2>2, <2>3 DEF CountersAgree
<1>. QED
  BY <1>7, <1>9, <1>10, <1>11, <1>12, <1>13, <1>17 DEF Settled, OrderInv

(* A sample is read: none was dropped between it and the record behind it, *)
(* unless that one says so.                                                *)
ReadsSample(c) ==
    /\ reader.pc = "read" /\ perf[c] # <<>> /\ perf' = [perf EXCEPT ![c] = Tail(@)]
    /\ Head(perf[c]).kind # "lost"
    /\ reader' = [pc |-> "send", rec |-> Head(perf[c])]
    /\ UNCHANGED <<dropped, produced, gone, engine, starter, worker, events, errChan, lostCount, readCount,
                   done, starts>>

LEMMA ReadSampleStep ==
    ASSUME PipelineInv, LossInv, CountersAgree, NEW c \in CPUs, ReadsSample(c)
    PROVE  Settled'
<1>0. /\ reader.pc = "read" /\ perf[c] # <<>> /\ IsSample(Head(perf[c]))
      /\ reader' = [pc |-> "send", rec |-> Head(perf[c])]
      /\ UNCHANGED <<dropped, produced, gone, engine, starter, worker, events, errChan, lostCount, readCount,
                     done, starts>>
  BY DEF ReadsSample, IsSample
<1>1. Busy' = Busy /\ InHand' = InHand
  BY <1>0 DEF Busy, InHand
<1>2. /\ Range(Held)' = {Head(perf[c])} /\ Len(Held)' = 1
      /\ Range(Held) = {} /\ Len(Held) = 0
      /\ Len(events) \in Nat /\ Cardinality(Busy) \in Nat /\ Cardinality(done) \in Nat
      /\ lostCount = Cardinality(Told) /\ lostCount \in Nat /\ readCount \in Nat
      /\ readCount = lostCount + Len(events) + Cardinality(Busy) + Cardinality(done)
      /\ IsFiniteSet(gone) /\ IsFiniteSet(Told)
  BY <1>0, WaitingCounts, HeldFactsNext
<1>3. PerfInv /\ ReadInv /\ PassInv /\ FiniteInv /\ SamplesConserved
  BY DEF PipelineInv, OrderInv
<1>4. perf[c] \in Seq(Records) /\ 1 \in DOMAIN perf[c] /\ Head(perf[c]) = perf[c][1] /\ perf[c][1] \in Records
  <2>1. perf[c] \in Seq(Records)
    BY DEF PipelineInv, TypeOK
  <2>. QED
    BY <1>0, <2>1, TailFacts
<1>5. IsSample(perf[c][1]) /\ perf[c][1] \in Samples /\ perf[c][1].cpu = c /\ perf[c][1].n \in Nat
  BY <1>0, <1>3, <1>4, PipelineAssumption DEF IsSample, Records, Samples, Losses, PerfInv
<1>6. \A d \in CPUs : WentOn(d)' = IF d = c THEN WentOn(d) \cup {perf[c][1]} ELSE WentOn(d)
  BY <1>0, <1>1, <1>2, <1>4, <1>5 DEF WentOn
<1>7. Taken(c)
  BY <1>0, <1>4, <1>5, <1>6 DEF Taken, ReadsSample
<1>8. /\ Len(perf[c]) \in Nat \ {0} /\ DOMAIN perf[c] = 1 .. Len(perf[c])
      /\ perf'[c] = Tail(perf[c]) /\ Len(perf'[c]) = Len(perf[c]) - 1
      /\ perf'[c] \in Seq(Records)
      /\ \A i \in 1 .. Len(perf[c]) - 1 : perf'[c][i] = perf[c][i + 1]
      /\ \A d \in CPUs : d # c => perf'[d] = perf[d]
      /\ perf' \in [CPUs -> Seq(Records)]
  BY <1>7, TakenFacts
<1>9. PerfInv' /\ ReadInv' /\ LossInv'
  BY <1>7, TakenOrder
<1>10. /\ Buffered' = Buffered \ {perf[c][1]} /\ perf[c][1] \in Buffered
       /\ \A d \in CPUs : Cardinality(Sampled(perf'[d])) <= PerfSize
  BY <1>5, <1>7, TakenBuffered
<1>11. reader' = [pc |-> "send", rec |-> perf[c][1]]
  BY <1>0, <1>4
<1>12. TypeOK'
  <2>1. /\ reader' \in [pc : ReaderPCs, rec : Records \cup {NoSample}]
        /\ reader'.pc = "send" /\ reader'.rec \in Samples
    BY <1>4, <1>5, <1>11 DEF ReaderPCs
  <2>. QED
    BY <1>0, <1>8, <1>10, <2>1 DEF PipelineInv, TypeOK, Sampled
<1>13. EngineInv'
  BY <1>0 DEF PipelineInv, EngineInv
<1>14. FiniteInv' /\ HandInv' /\ Cardinality(Buffered') = Cardinality(Buffered) - 1
       /\ Cardinality(Buffered) \in Nat
  <2>1. IsFiniteSet(Buffered)
    BY <1>3 DEF FiniteInv
  <2>2. IsFiniteSet(Buffered') /\ Cardinality(Buffered') = Cardinality(Buffered) - 1
        /\ Cardinality(Buffered) \in Nat
    BY <1>10, <2>1, FS_RemoveElement, FS_CardinalityType
  <2>3. FiniteInv'
    BY <1>0, <1>3, <2>2 DEF FiniteInv
  <2>4. HandInv'
    BY <1>0, <1>1 DEF PipelineInv, HandInv
  <2>. QED
    BY <2>2, <2>3, <2>4
<1>15. PassInv'
  <2>1. \A s \in Range(events) \cup InHand \cup done : Earlier(s, perf[c][1])
    <3> SUFFICES ASSUME NEW s \in Range(events) \cup InHand \cup done, s.cpu = c
                 PROVE  s.n < perf[c][1].n
      BY <1>5 DEF Earlier
    <3>1. s \in WentOn(c)
      BY DEF WentOn
    <3>. QED
      BY <1>3, <1>4, <1>5, <3>1 DEF ReadInv
  <2>2. \A i \in DOMAIN events : Earlier(events[i], perf[c][1])
    BY <2>1 DEF Range
  <2>. QED
    BY <1>0, <1>1, <1>3, <1>11, <2>1, <2>2 DEF PassInv, Earlier
<1>16. SamplesConserved'
  <2>1. Buffered' \cup Range(Held)' \cup Range(events)' \cup InHand' \cup done' \cup gone'
          = Buffered \cup Range(Held) \cup Range(events) \cup InHand \cup done \cup gone
    BY <1>0, <1>1, <1>2, <1>4, <1>10
  <2>2. {s.n : s \in Buffered' \cup Range(Held)' \cup Range(events)' \cup InHand' \cup done' \cup gone'}
          = 1 .. produced'
    BY <1>0, <1>3, <2>1 DEF SamplesConserved
  <2>3. Cardinality(Buffered) + Len(events) + Cardinality(Busy) + Cardinality(done)
          + Cardinality(gone) = produced
    BY <1>2, <1>3, <1>14 DEF SamplesConserved
  <2>4. Cardinality(gone) \in Nat
    BY <1>2, FS_CardinalityType
  <2>5. Cardinality(Buffered') + 1 + Len(events) + Cardinality(Busy) + Cardinality(done)
          + Cardinality(gone) = produced
    BY <1>2, <1>14, <2>3, <2>4
  <2>6. Cardinality(Buffered') + Len(Held)' + Len(events') + Cardinality(Busy') + Cardinality(done')
          + Cardinality(gone') = produced'
    BY <1>0, <1>1, <1>2, <2>5
  <2>. QED
    BY <2>2, <2>6 DEF SamplesConserved
<1>17. Told' = Told
  <2>1. gone' = gone /\ \A g \in gone : g.cpu \in CPUs
    BY <1>0 DEF PipelineInv, TypeOK, Samples
  <2>2. /\ NextRead(c) = {perf[c][1]}
        /\ \A d \in CPUs : d # c => NextRead(d)' = NextRead(d)
    BY <1>0, <1>4, <1>5, <1>8 DEF NextRead, IsSample
  <2>3. ASSUME NEW t \in NextRead(c)', NEW g \in gone, g.cpu = c, g.n < t.n
        PROVE  \E s \in WentOn(c) \cup {perf[c][1]} : g.n < s.n
    <3>1. perf'[c] # <<>> /\ t = Head(perf'[c]) /\ IsSample(t)
      BY <2>3 DEF NextRead, IsSample
    <3>2. 1 \in 1 .. Len(perf'[c]) /\ t = perf'[c][1]
      BY <1>8, <3>1, TailFacts
    <3>3. 2 \in DOMAIN perf[c] /\ t = perf[c][1 + 1]
      BY <1>8, <3>2
    <3>4. IsSample(perf[c][2]) /\ t = perf[c][2] /\ perf[c][2 - 1] = perf[c][1] /\ 2 > 1
      BY <3>1, <3>3
    <3>5. Cardinality(UnreadBefore(c, 2)) = 0
      BY <1>5, <3>3, <3>4 DEF LossInv
    <3>6. UnreadBefore(c, 2) = {}
      <4>1. IsFiniteSet(UnreadBefore(c, 2))
        <5>1. UnreadBefore(c, 2) \subseteq gone
          BY DEF UnreadBefore, Unread
        <5>. QED
          BY <1>2, <5>1, FS_Subset
      <4>. QED
        BY <3>5, <4>1, FS_EmptySet
    <3>7. g \notin UnreadBefore(c, 2)
      BY <3>6
    <3>8. \A j \in 1 .. 2 - 1 : j = 1
      OBVIOUS
    <3>. QED
      BY <2>3, <3>4, <3>7, <3>8 DEF UnreadBefore, Unread
  <2>4. \A g \in gone : (\E s \in WentOn(g.cpu)' \cup NextRead(g.cpu)' : g.n < s.n)
                          <=> (\E s \in WentOn(g.cpu) \cup NextRead(g.cpu) : g.n < s.n)
    <3> SUFFICES ASSUME NEW g \in gone
                 PROVE  (\E s \in WentOn(g.cpu)' \cup NextRead(g.cpu)' : g.n < s.n)
                          <=> (\E s \in WentOn(g.cpu) \cup NextRead(g.cpu) : g.n < s.n)
      OBVIOUS
    <3>1. CASE g.cpu = c
      <4>1. \A s \in WentOn(c) \cup {perf[c][1]} : s \in WentOn(c)'
        BY <1>6
      <4>2. \A s \in WentOn(c)' : s \in WentOn(c) \cup {perf[c][1]}
        BY <1>6
      <4>. QED
        BY <2>2, <2>3, <3>1, <4>1, <4>2
    <3>2. CASE g.cpu # c
      BY <1>6, <2>1, <2>2, <3>2
    <3>. QED
      BY <3>1, <3>2
  <2>. QED
    BY <2>1, <2>4 DEF Told
<1>18. CountersAgree'
  <2>1. readCount' + 0 = lostCount' + Len(events') + Cardinality(Busy') + Cardinality(done')
    BY <1>0, <1>1, <1>2
  <2>2. lostCount' + 0 = Cardinality(Told')
    BY <1>0, <1>2, <1>17
  <2>3. LostInHand' = 0 /\ ReadInHand' = 0
    BY <1>11 DEF LostInHand, ReadInHand
  <2>. QED
    BY <2>1, <2>2, <2>3 DEF CountersAgree
<1>. QED
  BY <1>9, <1>12, <1>13, <1>14, <1>15, <1>16, <1>18 DEF Settled, OrderInv

LEMMA ReadStep ==
    ASSUME PipelineInv, LossInv, CountersAgree, Read, starts' = starts
    PROVE  Settled'
<1>1. PICK c \in CPUs : ReadsLoss(c) \/ ReadsSample(c)
  BY DEF Read, ReadsLoss, ReadsSample, counts
<1>. QED
  BY <1>1, ReadLossStep, ReadSampleStep

-----------------------------------------------------------------------------
(* The probe produces a sample.                                            *)

LEMMA OldSamples ==
    ASSUME PipelineInv
    PROVE  /\ produced \in Nat
           /\ \A t \in OnWay : t.n \in 1 .. produced
           /\ \A c \in CPUs : \A i \in DOMAIN perf[c] : IsSample(perf[c][i]) => perf[c][i].n \in 1 .. produced
           /\ \A c \in CPUs : \A t \in WentOn(c) : t.n \in 1 .. produced
<1>1. produced \in Nat
  BY PipelineAssumption DEF PipelineInv, TypeOK
<1>2. \A t \in OnWay : t.n \in 1 .. produced
  <2>1. {t.n : t \in OnWay} = 1 .. produced
    BY DEF PipelineInv, SamplesConserved, OnWay
  <2>. QED
    BY <2>1
<1>3. \A c \in CPUs : \A i \in DOMAIN perf[c] : IsSample(perf[c][i]) => perf[c][i] \in OnWay
  BY DEF OnWay, Buffered, Sampled, Range, IsSample
<1>4. \A c \in CPUs : \A t \in WentOn(c) : t \in OnWay
  BY DEF OnWay, WentOn
<1>. QED
  BY <1>1, <1>2, <1>3, <1>4

(* What a step of the probe leaves alone.                                  *)
LEMMA ProducePlaces ==
    ASSUME PipelineInv, UNCHANGED <<reader, worker, events, done>>
    PROVE  /\ Busy' = Busy /\ InHand' = InHand
           /\ Range(Held)' = Range(Held) /\ Len(Held)' = Len(Held)
           /\ \A d : WentOn(d)' = WentOn(d)
           /\ PassInv' /\ HandInv'
<1>1. Busy' = Busy /\ InHand' = InHand
  BY DEF Busy, InHand
<1>2. Range(Held)' = Range(Held) /\ Len(Held)' = Len(Held)
  BY HeldFacts, HeldFactsNext
<1>3. \A d : WentOn(d)' = WentOn(d)
  BY <1>1, <1>2 DEF WentOn
<1>4. PassInv' /\ HandInv'
  BY <1>1 DEF PipelineInv, OrderInv, PassInv, HandInv
<1>. QED
  BY <1>1, <1>2, <1>3, <1>4

(* The next sample, on the buffer's or on the dropped samples' account.    *)
LEMMA ConservedNext ==
    ASSUME PipelineInv, NEW s, s.n = produced + 1, produced' = produced + 1,
           UNCHANGED <<reader, worker, events, done>>,
           Buffered' \cup gone' = Buffered \cup gone \cup {s},
           Cardinality(Buffered') + Cardinality(gone') = Cardinality(Buffered) + Cardinality(gone) + 1,
           Cardinality(Buffered') \in Nat, Cardinality(gone') \in Nat
    PROVE  SamplesConserved'
<1>1. /\ Busy' = Busy /\ InHand' = InHand
      /\ Range(Held)' = Range(Held) /\ Len(Held)' = Len(Held)
  BY ProducePlaces
<1>2. /\ Cardinality(Buffered) \in Nat /\ Cardinality(gone) \in Nat
      /\ Len(Held) \in Nat /\ Behind \in Nat
      /\ Cardinality(Buffered) + Len(Held) + Behind + Cardinality(gone) = produced
  BY ConservedCounts
<1>3. {t.n : t \in Buffered' \cup Range(Held)' \cup Range(events)' \cup InHand' \cup done' \cup gone'}
        = 1 .. produced'
  <2>1. Buffered' \cup Range(Held)' \cup Range(events)' \cup InHand' \cup done' \cup gone' = OnWay \cup {s}
    BY <1>1 DEF OnWay
  <2>2. {t.n : t \in OnWay} = 1 .. produced /\ produced \in Nat
    BY OldSamples DEF PipelineInv, SamplesConserved, OnWay
  <2>3. {t.n : t \in OnWay \cup {s}} = {t.n : t \in OnWay} \cup {produced + 1}
    OBVIOUS
  <2>4. (1 .. produced) \cup {produced + 1} = 1 .. produced + 1
    BY <2>2
  <2>. QED
    BY <2>1, <2>2, <2>3, <2>4
<1>4. Cardinality(Buffered') + Len(Held)' + Len(events') + Cardinality(Busy') + Cardinality(done')
        + Cardinality(gone') = produced'
  <2>1. Len(events) \in Nat /\ Cardinality(Busy) \in Nat /\ Cardinality(done) \in Nat /\ produced \in Nat
    BY HandCounts, Queue, OldSamples
  <2>2. Cardinality(Buffered') + Len(Held) + Behind + Cardinality(gone') = produced + 1
    <3>1. Cardinality(Buffered') + Cardinality(gone') = Cardinality(Buffered) + Cardinality(gone) + 1
          /\ Cardinality(Buffered') \in Nat /\ Cardinality(gone') \in Nat
      OBVIOUS
    <3>2. (Cardinality(Buffered) + Cardinality(gone)) + (Len(Held) + Behind) = produced
      BY ONLY <1>2
    <3>3. (Cardinality(Buffered') + Cardinality(gone')) + (Len(Held) + Behind) = produced + 1
      BY ONLY <1>2, <3>1, <3>2
    <3>4. /\ Cardinality(Buffered') \in Nat /\ Cardinality(gone') \in Nat
          /\ Len(Held) \in Nat /\ Behind \in Nat
      BY <1>2
    <3>. QED
      BY ONLY <3>3, <3>4
  <2>3. Cardinality(Buffered') + Len(Held) + Len(events) + Cardinality(Busy) + Cardinality(done)
          + Cardinality(gone') = produced + 1
    <3>1. Cardinality(Buffered') \in Nat /\ Cardinality(gone') \in Nat /\ Len(Held) \in Nat
      BY <1>2
    <3>. QED
      BY ONLY <2>1, <2>2, <3>1 DEF Behind
  <2>. QED
    BY <1>1, <2>3
<1>. QED
  BY <1>3, <1>4 DEF SamplesConserved

(* The buffer is full: the sample is dropped.                              *)
Drops(c, s) ==
    /\ produced < MaxSamples /\ produced' = produced + 1
    /\ dropped' = [dropped EXCEPT ![c] = @ + 1]
    /\ gone' = gone \cup {s}
    /\ UNCHANGED <<perf, engine, reader, starter, worker, events, errChan, lostCount, readCount, done, starts>>

LEMMA DropStep ==
    ASSUME PipelineInv, LossInv, CountersAgree, NEW c \in CPUs, NEW s \in Samples,
           s.cpu = c, s.n = produced + 1, Drops(c, s)
    PROVE  Settled'
<1>0. /\ produced < MaxSamples /\ produced' = produced + 1 /\ gone' = gone \cup {s}
      /\ UNCHANGED <<perf, engine, reader, starter, worker, events, errChan, lostCount, readCount, done, starts>>
  BY DEF Drops
<1>1. /\ Busy' = Busy /\ InHand' = InHand
      /\ Range(Held)' = Range(Held) /\ Len(Held)' = Len(Held)
      /\ \A d : WentOn(d)' = WentOn(d)
      /\ PassInv' /\ HandInv'
  BY <1>0, ProducePlaces
<1>2. /\ produced \in Nat
      /\ \A t \in OnWay : t.n \in 1 .. produced
      /\ \A d \in CPUs : \A i \in DOMAIN perf[d] : IsSample(perf[d][i]) => perf[d][i].n \in 1 .. produced
      /\ \A d \in CPUs : \A t \in WentOn(d) : t.n \in 1 .. produced
  BY OldSamples
<1>3. \A m \in 1 .. produced : ~(s.n < m) /\ m # s.n
  BY <1>2
<1>4. s \notin gone
  BY <1>2, <1>3 DEF OnWay
<1>5. /\ IsFiniteSet(gone) /\ IsFiniteSet(gone') /\ Cardinality(gone') = Cardinality(gone) + 1
      /\ Cardinality(gone) \in Nat /\ Cardinality(gone') \in Nat
  BY <1>0, <1>4, FS_AddElement, FS_CardinalityType DEF PipelineInv, FiniteInv
<1>6. Buffered' = Buffered /\ \A d : NextRead(d)' = NextRead(d)
  BY <1>0 DEF Buffered, NextRead
<1>7. PerfInv' /\ ReadInv'
  BY <1>0, <1>1 DEF PipelineInv, PerfInv, OrderInv, ReadInv
<1>8. FiniteInv'
  BY <1>0, <1>5, <1>6 DEF PipelineInv, FiniteInv
<1>9. dropped \in [CPUs -> 0 .. MaxSamples] /\ dropped' = [dropped EXCEPT ![c] = dropped[c] + 1]
  BY DEF PipelineInv, TypeOK, Drops
<1>10. /\ dropped'[c] = dropped[c] + 1 /\ dropped[c] \in Nat
       /\ \A d \in CPUs : d # c => dropped'[d] = dropped[d]
  BY <1>9
<1>11. dropped' \in [CPUs -> 0 .. MaxSamples]
  <2>1. Cardinality(gone) <= produced
    BY <1>2, ConservedCounts
  <2>2. dropped[c] <= Cardinality(gone)
    <3>1. Unread(c, Len(perf[c]) + 1) \subseteq gone
      BY DEF Unread
    <3>2. Cardinality(Unread(c, Len(perf[c]) + 1)) = dropped[c]
      BY DEF LossInv
    <3>. QED
      BY <1>5, <3>1, <3>2, FS_Subset
  <2>3. dropped[c] + 1 \in 0 .. MaxSamples
    BY <1>0, <1>2, <1>5, <1>10, <2>1, <2>2, PipelineAssumption
  <2>. QED
    BY <1>9, <2>3
<1>12. TypeOK'
  <2>1. produced' \in 0 .. MaxSamples
    BY <1>0, <1>2, PipelineAssumption
  <2>2. gone' \subseteq Samples
    BY <1>0 DEF PipelineInv, TypeOK
  <2>. QED
    BY <1>0, <1>11, <2>1, <2>2 DEF PipelineInv, TypeOK
<1>13. EngineInv'
  BY <1>0 DEF PipelineInv, EngineInv
<1>14. SamplesConserved'
  <2>1. Buffered' \cup gone' = Buffered \cup gone \cup {s}
    BY <1>0, <1>6
  <2>2. Cardinality(Buffered) \in Nat
    BY ConservedCounts
  <2>3. Cardinality(Buffered') + Cardinality(gone') = Cardinality(Buffered) + Cardinality(gone) + 1
        /\ Cardinality(Buffered') \in Nat
    BY <1>5, <1>6, <2>2
  <2>. QED
    BY <1>0, <1>5, <2>1, <2>3, ConservedNext
<1>15. LossInv'
  <2>1. ASSUME NEW d \in CPUs, NEW i \in DOMAIN perf[d], IsSample(perf[d][i])
        PROVE  UnreadBefore(d, i)' = UnreadBefore(d, i)
    <3>1. ~(s.n < perf[d][i].n)
      BY <1>2, <1>3, <2>1
    <3>2. \A g : g \in UnreadBefore(d, i)' => g # s
      BY <1>0, <3>1 DEF UnreadBefore
    <3>. QED
      BY <1>0, <1>1, <1>4, <3>2 DEF UnreadBefore, Unread
  <2>2. \A d \in CPUs : d # c => Unread(d, Len(perf[d]) + 1)' = Unread(d, Len(perf[d]) + 1)
    BY <1>0, <1>1 DEF Unread
  <2>3. Unread(c, Len(perf[c]) + 1)' = Unread(c, Len(perf[c]) + 1) \cup {s}
    <3>1. \A t \in WentOn(c) : ~(s.n < t.n)
      BY <1>2, <1>3
    <3>2. \A j \in DOMAIN perf[c] : IsSample(perf[c][j]) => ~(s.n < perf[c][j].n)
      BY <1>2, <1>3
    <3>3. 1 .. (Len(perf[c]) + 1) - 1 = DOMAIN perf[c]
      <4>1. perf[c] \in Seq(Records)
        BY DEF PipelineInv, TypeOK
      <4>2. Len(perf[c]) \in Nat /\ DOMAIN perf[c] = 1 .. Len(perf[c])
        BY <4>1, LenProperties
      <4>. QED
        BY <4>2
    <3>. QED
      BY <1>0, <1>1, <3>1, <3>2, <3>3 DEF Unread
  <2>4. Cardinality(Unread(c, Len(perf[c]) + 1))' = dropped'[c]
    <3>1. Unread(c, Len(perf[c]) + 1) \subseteq gone
      BY DEF Unread
    <3>2. IsFiniteSet(Unread(c, Len(perf[c]) + 1)) /\ s \notin Unread(c, Len(perf[c]) + 1)
      BY <1>4, <1>5, <3>1, FS_Subset
    <3>3. Cardinality(Unread(c, Len(perf[c]) + 1) \cup {s}) = Cardinality(Unread(c, Len(perf[c]) + 1)) + 1
      BY <3>2, FS_AddElement
    <3>4. Cardinality(Unread(c, Len(perf[c]) + 1)) = dropped[c]
      BY DEF LossInv
    <3>. QED
      BY <1>10, <2>3, <3>3, <3>4
  <2>. QED
    BY <1>0, <1>10, <2>1, <2>2, <2>4 DEF LossInv
<1>16. CountersAgree'
  <2>1. \A d \in CPUs : \A t \in WentOn(d) \cup NextRead(d) : ~(s.n < t.n)
    <3> SUFFICES ASSUME NEW d \in CPUs, NEW t \in NextRead(d) PROVE ~(s.n < t.n)
      BY <1>2, <1>3
    <3>1. perf[d] # <<>> /\ t = Head(perf[d]) /\ IsSample(t) /\ perf[d] \in Seq(Records)
      BY DEF NextRead, IsSample, PipelineInv, TypeOK
    <3>2. 1 \in DOMAIN perf[d] /\ t = perf[d][1]
      BY <3>1, TailFacts
    <3>. QED
      BY <1>2, <1>3, <3>1, <3>2
  <2>2. Told' = Told
    BY <1>0, <1>1, <1>6, <2>1 DEF Told
  <2>. QED
    BY <1>0, <1>1, <2>2 DEF CountersAgree, LostInHand, ReadInHand
<1>. QED
  BY <1>1, <1>7, <1>8, <1>12, <1>13, <1>14, <1>15, <1>16 DEF Settled, OrderInv

(* The buffer has room: it gets the sample, behind the number of those     *)
(* that were dropped, if there are any.                                    *)
Pushes(c, s, loss) ==
    /\ produced < MaxSamples /\ produced' = produced + 1
    /\ Cardinality(Sampled(perf[c])) < PerfSize
    /\ perf' = [perf EXCEPT ![c] = @ \o loss \o <<s>>]
    /\ dropped' = [dropped EXCEPT ![c] = 0]
    /\ UNCHANGED <<gone, engine, reader, starter, worker, events, errChan, lostCount, readCount, done, starts>>

LossOf(c) == [kind |-> "lost", cpu |-> c, n |-> dropped[c]]

(* The new sample is at m + 1, and what is in front of it was there, or is *)
(* that number.                                                            *)
LEMMA PushedFacts ==
    ASSUME PipelineInv, NEW c \in CPUs, NEW s \in Samples, s.cpu = c,
           NEW loss, loss = IF dropped[c] = 0 THEN <<>> ELSE <<LossOf(c)>>, Pushes(c, s, loss)
    PROVE  /\ perf[c] \in Seq(Records) /\ Len(perf[c]) \in Nat /\ DOMAIN perf[c] = 1 .. Len(perf[c])
           /\ perf' \in [CPUs -> Seq(Records)] /\ \A d \in CPUs : d # c => perf'[d] = perf[d]
           /\ \A i \in 1 .. Len(perf[c]) : perf'[c][i] = perf[c][i]
           /\ Sampled(perf'[c]) = Sampled(perf[c]) \cup {s}
           /\ \E m \in {Len(perf[c]), Len(perf[c]) + 1} :
                /\ Len(perf'[c]) = m + 1 /\ DOMAIN perf'[c] = 1 .. m + 1
                /\ perf'[c][m + 1] = s
                /\ m = Len(perf[c]) => dropped[c] = 0
                /\ m # Len(perf[c]) => perf'[c][m] = LossOf(c)
<1>1. /\ perf \in [CPUs -> Seq(Records)] /\ perf[c] \in Seq(Records) /\ dropped[c] \in 0 .. MaxSamples
      /\ perf' = [perf EXCEPT ![c] = perf[c] \o loss \o <<s>>]
  BY DEF PipelineInv, TypeOK, Pushes
<1>2. perf'[c] = perf[c] \o loss \o <<s>> /\ \A d \in CPUs : d # c => perf'[d] = perf[d]
  BY <1>1
<1>3. /\ s \in Records /\ IsSample(s) /\ ~IsSample(LossOf(c))
      /\ dropped[c] # 0 => LossOf(c) \in Records
  BY <1>1, PipelineAssumption DEF Records, Samples, Losses, IsSample, LossOf
<1>4. Len(perf[c]) \in Nat /\ DOMAIN perf[c] = 1 .. Len(perf[c])
  BY <1>1, LenProperties
<1>5. CASE dropped[c] = 0
  <2>1. perf'[c] = Append(perf[c], s)
    <3>1. perf[c] \o <<>> \o <<s>> = Append(perf[c], s)
      BY <1>1, <1>3, PushIsAppend
    <3>. QED
      BY <1>2, <1>5, <3>1
  <2>2. /\ perf'[c] \in Seq(Records) /\ Len(perf'[c]) = Len(perf[c]) + 1
        /\ DOMAIN perf'[c] = 1 .. Len(perf[c]) + 1
        /\ \A i \in 1 .. Len(perf[c]) : perf'[c][i] = perf[c][i]
        /\ perf'[c][Len(perf[c]) + 1] = s
        /\ Range(perf'[c]) = Range(perf[c]) \cup {s}
    <3> DEFINE r == Append(perf[c], s)
    <3>1. Range(r) = Range(perf[c]) \cup {s}
      BY <1>1, <1>3, AppendRange
    <3>2. /\ r \in Seq(Records) /\ Len(r) = Len(perf[c]) + 1
          /\ DOMAIN r = 1 .. Len(perf[c]) + 1
          /\ \A i \in 1 .. Len(perf[c]) : r[i] = perf[c][i]
          /\ r[Len(perf[c]) + 1] = s
      BY <1>1, <1>3, AppendFacts
    <3>3. perf'[c] = r
      BY <2>1
    <3> HIDE DEF r
    <3>. QED
      BY ONLY <3>1, <3>2, <3>3
  <2>3. Sampled(perf'[c]) = Sampled(perf[c]) \cup {s}
    BY <1>3, <2>2 DEF Sampled, IsSample
  <2>4. perf' \in [CPUs -> Seq(Records)]
    BY <1>1, <1>2, <2>2
  <2>. QED
    BY <1>1, <1>2, <1>4, <1>5, <2>2, <2>3, <2>4
<1>6. CASE dropped[c] # 0
  <2> DEFINE q == Append(perf[c], LossOf(c))
  <2>1. perf'[c] = Append(q, s)
    <3>1. perf[c] \o <<LossOf(c)>> \o <<s>> = Append(q, s)
      BY <1>1, <1>3, <1>6, PushIsAppend
    <3>. QED
      BY <1>2, <1>6, <3>1
  <2>2. /\ q \in Seq(Records) /\ Len(q) = Len(perf[c]) + 1
        /\ \A i \in 1 .. Len(perf[c]) : q[i] = perf[c][i]
        /\ q[Len(perf[c]) + 1] = LossOf(c)
        /\ Range(q) = Range(perf[c]) \cup {LossOf(c)}
    BY <1>1, <1>3, <1>6, AppendFacts, AppendRange
  <2> HIDE DEF q
  <2>3. /\ perf'[c] \in Seq(Records) /\ Len(perf'[c]) = Len(q) + 1
        /\ DOMAIN perf'[c] = 1 .. Len(q) + 1
        /\ \A i \in 1 .. Len(q) : perf'[c][i] = q[i]
        /\ perf'[c][Len(q) + 1] = s
        /\ Range(perf'[c]) = Range(q) \cup {s}
    BY <1>3, <2>1, <2>2, AppendFacts, AppendRange
  <2>4. Sampled(perf'[c]) = Sampled(perf[c]) \cup {s}
    BY <1>3, <2>2, <2>3 DEF Sampled, IsSample
  <2>5. perf' \in [CPUs -> Seq(Records)]
    BY <1>1, <1>2, <2>3
  <2>6. \A i \in 1 .. Len(perf[c]) : perf'[c][i] = perf[c][i]
    <3> SUFFICES ASSUME NEW i \in 1 .. Len(perf[c]) PROVE perf'[c][i] = perf[c][i]
      OBVIOUS
    <3>1. i \in 1 .. Len(q)
      BY <1>4, <2>2
    <3>. QED
      BY <2>2, <2>3, <3>1
  <2>7. perf'[c][Len(perf[c]) + 1] = LossOf(c)
    <3>1. Len(perf[c]) + 1 \in 1 .. Len(q)
      BY <1>4, <2>2
    <3>. QED
      BY <2>2, <2>3, <3>1
  <2>8. PICK m \in {Len(perf[c]), Len(perf[c]) + 1} : m = Len(perf[c]) + 1 /\ m # Len(perf[c])
    BY <1>4
  <2>9. /\ Len(perf'[c]) = m + 1 /\ DOMAIN perf'[c] = 1 .. m + 1
        /\ perf'[c][m + 1] = s /\ perf'[c][m] = LossOf(c)
    BY <2>2, <2>3, <2>7, <2>8
  <2>. QED
    BY <1>1, <1>2, <1>4, <2>4, <2>5, <2>6, <2>8, <2>9
<1>. QED
  BY <1>5, <1>6

LEMMA PushStep ==
    ASSUME PipelineInv, LossInv, CountersAgree, NEW c \in CPUs, NEW s \in Samples,
           s.cpu = c, s.n = produced + 1,
           NEW loss, loss = IF dropped[c] = 0 THEN <<>> ELSE <<LossOf(c)>>, Pushes(c, s, loss)
    PROVE  Settled'
<1>0. /\ produced < MaxSamples /\ produced' = produced + 1
      /\ Cardinality(Sampled(perf[c])) < PerfSize
      /\ UNCHANGED <<gone, engine, reader, starter, worker, events, errChan, lostCount, readCount, done, starts>>
  BY DEF Pushes
<1>1. /\ Busy' = Busy /\ InHand' = InHand
      /\ Range(Held)' = Range(Held) /\ Len(Held)' = Len(Held)
      /\ \A d : WentOn(d)' = WentOn(d)
      /\ PassInv' /\ HandInv'
  BY <1>0, ProducePlaces
<1>2. /\ produced \in Nat
      /\ \A t \in OnWay : t.n \in 1 .. produced
      /\ \A d \in CPUs : \A i \in DOMAIN perf[d] : IsSample(perf[d][i]) => perf[d][i].n \in 1 .. produced
      /\ \A d \in CPUs : \A t \in WentOn(d) : t.n \in 1 .. produced
  BY OldSamples
<1>3. (\A n \in 1 .. produced : n < s.n) /\ ~(s.n < s.n)
  BY <1>2
<1>4. IsSample(s) /\ ~IsSample(LossOf(c)) /\ LossOf(c).cpu = c /\ LossOf(c).n = dropped[c]
  BY PipelineAssumption DEF IsSample, LossOf, Samples
<1>5. /\ perf[c] \in Seq(Records) /\ Len(perf[c]) \in Nat /\ DOMAIN perf[c] = 1 .. Len(perf[c])
      /\ perf' \in [CPUs -> Seq(Records)] /\ \A d \in CPUs : d # c => perf'[d] = perf[d]
      /\ \A i \in 1 .. Len(perf[c]) : perf'[c][i] = perf[c][i]
      /\ Sampled(perf'[c]) = Sampled(perf[c]) \cup {s}
  BY PushedFacts
<1>6. PICK m \in {Len(perf[c]), Len(perf[c]) + 1} :
        /\ Len(perf'[c]) = m + 1 /\ DOMAIN perf'[c] = 1 .. m + 1
        /\ perf'[c][m + 1] = s
        /\ m = Len(perf[c]) => dropped[c] = 0
        /\ m # Len(perf[c]) => perf'[c][m] = LossOf(c)
  BY PushedFacts
<1>7. \A i \in DOMAIN perf'[c] :
        \/ i \in DOMAIN perf[c] /\ perf'[c][i] = perf[c][i] /\ i < m + 1
        \/ i = m /\ i + 1 = m + 1 /\ m # Len(perf[c]) /\ perf'[c][i] = LossOf(c)
        \/ i = m + 1 /\ perf'[c][i] = s
  BY <1>5, <1>6
<1>8. /\ m \in Nat /\ m + 1 \in DOMAIN perf'[c] /\ DOMAIN perf[c] \subseteq DOMAIN perf'[c]
      /\ \A i \in DOMAIN perf[c] : perf'[c][i] = perf[c][i]
  BY <1>5, <1>6
<1>9. dropped \in [CPUs -> 0 .. MaxSamples] /\ dropped' = [dropped EXCEPT ![c] = 0]
  BY DEF PipelineInv, TypeOK, Pushes
<1>10. /\ dropped'[c] = 0 /\ \A d \in CPUs : d # c => dropped'[d] = dropped[d]
       /\ dropped' \in [CPUs -> 0 .. MaxSamples]
  BY <1>9, PipelineAssumption
<1>11. s \notin Buffered
  BY <1>2, <1>3 DEF OnWay
<1>12. Buffered' = Buffered \cup {s}
  <2>1. Buffered' = UNION {Sampled(perf'[d]) : d \in CPUs}
    BY DEF Buffered, Sampled
  <2>2. \A x : x \in Buffered' <=> \E d \in CPUs : x \in Sampled(perf'[d])
    BY <2>1
  <2>3. \A x : x \in Buffered <=> \E d \in CPUs : x \in Sampled(perf[d])
    BY DEF Buffered
  <2>4. \A d \in CPUs : Sampled(perf'[d]) = IF d = c THEN Sampled(perf[d]) \cup {s} ELSE Sampled(perf[d])
    BY <1>5
  <2>5. \A x : x \in Buffered' <=> x \in Buffered \/ x = s
    BY <2>2, <2>3, <2>4
  <2>. QED
    BY <2>5
<1>13. /\ IsFiniteSet(Buffered) /\ IsFiniteSet(Buffered') /\ Cardinality(Buffered') = Cardinality(Buffered) + 1
       /\ Cardinality(Buffered) \in Nat /\ Cardinality(Buffered') \in Nat
  BY <1>11, <1>12, FS_AddElement, FS_CardinalityType DEF PipelineInv, FiniteInv
<1>14. FiniteInv'
  BY <1>0, <1>13 DEF PipelineInv, FiniteInv
<1>15. SamplesConserved'
  <2>1. Buffered' \cup gone' = Buffered \cup gone \cup {s}
    BY <1>0, <1>12
  <2>2. Cardinality(gone) \in Nat /\ gone' = gone
    BY <1>0, ConservedCounts
  <2>3. Cardinality(Buffered') + Cardinality(gone') = Cardinality(Buffered) + Cardinality(gone) + 1
        /\ Cardinality(gone') \in Nat
    BY <1>13, <2>2
  <2>. QED
    BY <1>0, <1>13, <2>1, <2>3, ConservedNext
<1>16. TypeOK'
  <2>1. produced' \in 0 .. MaxSamples
    BY <1>0, <1>2, PipelineAssumption
  <2>2. ASSUME NEW d \in CPUs PROVE Cardinality(Sampled(perf'[d])) <= PerfSize
    <3>1. Cardinality(Sampled(perf[d])) <= PerfSize
      BY DEF PipelineInv, TypeOK
    <3>2. CASE d = c
      <4>1. IsFiniteSet(Sampled(perf[c]))
        <5>1. Sampled(perf[c]) \subseteq Buffered
          BY DEF Buffered
        <5>. QED
          BY <1>13, <5>1, FS_Subset
      <4>2. s \notin Sampled(perf[c])
        BY <1>11 DEF Buffered
      <4>3. /\ Cardinality(Sampled(perf'[c])) = Cardinality(Sampled(perf[c])) + 1
            /\ Cardinality(Sampled(perf[c])) \in Nat
        BY <1>5, <4>1, <4>2, FS_AddElement, FS_CardinalityType
      <4>. QED
        BY <1>0, <3>2, <4>3, PipelineAssumption
    <3>3. CASE d # c
      BY <1>5, <3>1, <3>3
    <3>. QED
      BY <3>2, <3>3
  <2>. QED
    BY <1>0, <1>5, <1>10, <2>1, <2>2 DEF PipelineInv, TypeOK, Sampled
<1>17. EngineInv'
  BY <1>0 DEF PipelineInv, EngineInv
<1>18. PerfInv'
  <2> SUFFICES ASSUME NEW d \in CPUs
               PROVE  /\ \A i \in DOMAIN perf'[d] : perf'[d][i].cpu = d
                      /\ \A i \in DOMAIN perf'[d] :
                           ~IsSample(perf'[d][i]) => i + 1 \in DOMAIN perf'[d] /\ IsSample(perf'[d][i + 1])
                      /\ \A i, j \in DOMAIN perf'[d] :
                           i < j /\ IsSample(perf'[d][i]) /\ IsSample(perf'[d][j])
                             => perf'[d][i].n < perf'[d][j].n
    BY DEF PerfInv, IsSample
  <2>1. PerfInv
    BY DEF PipelineInv
  <2>2. CASE d # c
    <3>1. perf'[d] = perf[d]
      BY <1>5, <2>2
    <3>. QED
      BY ONLY <2>1, <3>1 DEF PerfInv
  <2>3. CASE d = c
    <3>1. \A i \in DOMAIN perf'[c] : perf'[c][i].cpu = c
      BY <1>4, <1>7, <2>1 DEF PerfInv
    <3>2. ASSUME NEW i \in DOMAIN perf'[c], ~IsSample(perf'[c][i])
          PROVE  i + 1 \in DOMAIN perf'[c] /\ IsSample(perf'[c][i + 1])
      <4>1. CASE i \in DOMAIN perf[c] /\ perf'[c][i] = perf[c][i]
        <5>1. i + 1 \in DOMAIN perf[c] /\ IsSample(perf[c][i + 1])
          BY <2>1, <3>2, <4>1 DEF PerfInv
        <5>. QED
          BY <1>8, <5>1
      <4>2. CASE i + 1 = m + 1
        BY <1>4, <1>6, <1>8, <4>2
      <4>. QED
        BY <1>4, <1>7, <3>2, <4>1, <4>2
    <3>3. ASSUME NEW i \in DOMAIN perf'[c], NEW j \in DOMAIN perf'[c], i < j,
                 IsSample(perf'[c][i]), IsSample(perf'[c][j])
          PROVE  perf'[c][i].n < perf'[c][j].n
      <4>1. i \in DOMAIN perf[c] /\ perf'[c][i] = perf[c][i] /\ IsSample(perf[c][i])
        <5>1. i # m + 1
          BY <1>6, <1>8, <3>3
        <5>. QED
          BY <1>4, <1>7, <3>3, <5>1
      <4>2. CASE j \in DOMAIN perf[c] /\ perf'[c][j] = perf[c][j]
        BY <2>1, <3>3, <4>1, <4>2 DEF PerfInv
      <4>3. CASE perf'[c][j] = s
        BY <1>2, <1>3, <4>1, <4>3
      <4>. QED
        BY <1>4, <1>7, <3>3, <4>2, <4>3
    <3>. QED
      BY <2>3, <3>1, <3>2, <3>3
  <2>. QED
    BY <2>2, <2>3
<1>19. ReadInv'
  <2> SUFFICES ASSUME NEW d \in CPUs, NEW t \in WentOn(d), NEW i \in DOMAIN perf'[d],
                      IsSample(perf'[d][i])
               PROVE  t.n < perf'[d][i].n
    BY <1>1 DEF ReadInv, IsSample
  <2>1. ReadInv
    BY DEF PipelineInv, OrderInv
  <2>2. CASE d # c
    BY <1>5, <2>1, <2>2 DEF ReadInv
  <2>3. CASE d = c
    BY <1>2, <1>3, <1>4, <1>7, <2>1, <2>3 DEF ReadInv
  <2>. QED
    BY <2>2, <2>3

<1>20. LossInv'
  <2> SUFFICES ASSUME NEW d \in CPUs
               PROVE  /\ \A i \in DOMAIN perf'[d] :
                           i > 1 /\ IsSample(perf'[d][i]) =>
                             Cardinality(UnreadBefore(d, i)') =
                               IF IsSample(perf'[d][i - 1]) THEN 0 ELSE perf'[d][i - 1].n
                      /\ Cardinality(Unread(d, Len(perf[d]) + 1))' = dropped'[d]
    BY DEF LossInv, IsSample
  <2>1. CASE d # c
    <3>1. WentOn(d)' = WentOn(d) /\ perf'[d] = perf[d]
      BY <1>1, <1>5, <2>1
    <3>2. \A i : Unread(d, i)' = Unread(d, i) /\ UnreadBefore(d, i)' = UnreadBefore(d, i)
      BY <1>0, <3>1 DEF Unread, UnreadBefore
    <3>3. Unread(d, Len(perf[d]) + 1)' = Unread(d, Len(perf[d]) + 1)
      BY <1>0, <3>1 DEF Unread
    <3>. QED
      BY <1>10, <2>1, <3>1, <3>2, <3>3 DEF LossInv
  <2>2. CASE d = c
    <3>1. Cardinality(Unread(c, Len(perf[c]) + 1))' = dropped'[c]
      <4>1. m + 1 \in 1 .. (Len(perf'[c]) + 1) - 1
        BY <1>6, <1>8
      <4>2. \A g \in gone : g.n < perf'[c][m + 1].n
        BY <1>2, <1>3, <1>6 DEF OnWay
      <4>3. Unread(c, Len(perf[c]) + 1)' = {}
        BY <1>0, <1>4, <1>6, <4>1, <4>2 DEF Unread, IsSample
      <4>. QED
        BY <1>10, <4>3, FS_EmptySet
    <3>2. ASSUME NEW i \in DOMAIN perf[c], i > 1, IsSample(perf[c][i])
          PROVE  Cardinality(UnreadBefore(c, i)') =
                   IF IsSample(perf'[c][i - 1]) THEN 0 ELSE perf'[c][i - 1].n
      <4>1. \A j \in 1 .. i - 1 : perf'[c][j] = perf[c][j]
        BY <1>5
      <4>2. i - 1 \in 1 .. i - 1 /\ perf'[c][i] = perf[c][i]
        BY <1>5, <3>2
      <4>3. UnreadBefore(c, i)' = UnreadBefore(c, i)
        BY <1>0, <1>1, <4>1, <4>2 DEF UnreadBefore, Unread
      <4>. QED
        BY <3>2, <4>1, <4>2, <4>3 DEF LossInv
    <3>3. Cardinality(UnreadBefore(c, m + 1)') = dropped[c]
      <4>1. \A g \in gone : g.n < s.n
        BY <1>2, <1>3 DEF OnWay
      <4>2. \A g : (\A j \in 1 .. (m + 1) - 1 : IsSample(perf'[c][j]) => ~(g.n < perf'[c][j].n))
                     <=> (\A j \in 1 .. (Len(perf[c]) + 1) - 1 : IsSample(perf[c][j]) => ~(g.n < perf[c][j].n))
        <5>1. \A j \in 1 .. (Len(perf[c]) + 1) - 1 : j \in 1 .. (m + 1) - 1 /\ perf'[c][j] = perf[c][j]
          BY <1>5, <1>6
        <5>2. \A j \in 1 .. (m + 1) - 1 :
                \/ j \in 1 .. (Len(perf[c]) + 1) - 1
                \/ ~IsSample(perf'[c][j])
          <6> SUFFICES ASSUME NEW j \in 1 .. (m + 1) - 1, j \notin 1 .. (Len(perf[c]) + 1) - 1
                       PROVE  ~IsSample(perf'[c][j])
            OBVIOUS
          <6>1. j = m /\ m # Len(perf[c])
            BY <1>5, <1>6
          <6>. QED
            BY <1>4, <1>6, <6>1
        <5>. QED
          BY <5>1, <5>2
      <4>3. Unread(c, m + 1)' = Unread(c, Len(perf[c]) + 1)
        BY <1>0, <1>1, <4>2 DEF Unread, IsSample
      <4>4. UnreadBefore(c, m + 1)' = Unread(c, m + 1)'
        BY <1>0, <1>6, <4>1 DEF UnreadBefore, Unread
      <4>. QED
        BY <4>3, <4>4 DEF LossInv
    <3>4. ASSUME m + 1 > 1
          PROVE  Cardinality(UnreadBefore(c, m + 1)') =
                   IF IsSample(perf'[c][(m + 1) - 1]) THEN 0 ELSE perf'[c][(m + 1) - 1].n
      <4>0. (m + 1) - 1 = m
        BY <1>8
      <4>1. CASE m = Len(perf[c])
        <5>1. m \in DOMAIN perf[c] /\ m + 1 \notin DOMAIN perf[c] /\ perf'[c][m] = perf[c][m]
          <6>1. m \in 1 .. Len(perf[c]) /\ m + 1 \notin 1 .. Len(perf[c])
            BY <1>5, <3>4, <4>1
          <6>. QED
            BY ONLY <1>5, <6>1
        <5>2. IsSample(perf[c][m])
          BY <5>1 DEF PipelineInv, PerfInv
        <5>. QED
          BY <1>6, <3>3, <4>0, <4>1, <5>1, <5>2
      <4>2. CASE m # Len(perf[c])
        BY <1>4, <1>6, <3>3, <4>0, <4>2
      <4>. QED
        BY <4>1, <4>2
    <3>5. ASSUME NEW i \in DOMAIN perf'[c], i > 1, IsSample(perf'[c][i])
          PROVE  Cardinality(UnreadBefore(c, i)') =
                   IF IsSample(perf'[c][i - 1]) THEN 0 ELSE perf'[c][i - 1].n
      <4>1. CASE i \in DOMAIN perf[c] /\ perf'[c][i] = perf[c][i]
        BY <3>2, <3>5, <4>1
      <4>2. CASE i = m + 1
        BY <3>4, <3>5, <4>2
      <4>. QED
        BY <1>4, <1>7, <3>5, <4>1, <4>2
    <3>. QED
      BY <2>2, <3>1, <3>5
  <2>. QED
    BY <2>1, <2>2
<1>21. CountersAgree'
  <2>1. \A d \in CPUs : d # c => NextRead(d)' = NextRead(d)
    BY <1>5 DEF NextRead
  <2>2. \A g \in gone : g.cpu \in CPUs /\ g.n < s.n
    BY <1>2, <1>3 DEF OnWay, PipelineInv, TypeOK, Samples
  <2>3. CASE perf[c] # <<>>
    <3>1. 1 \in DOMAIN perf[c] /\ Head(perf[c]) = perf[c][1]
      BY <1>5, <2>3, TailFacts
    <3>2. perf'[c] # <<>> /\ perf'[c] \in Seq(Records)
      BY <1>5, <1>6, <1>8
    <3>3. Head(perf'[c]) = perf'[c][1]
      BY <3>2, TailFacts
    <3>4. NextRead(c)' = NextRead(c)
      <4>1. Head(perf'[c]) = Head(perf[c])
        BY <1>8, <3>1, <3>3
      <4>. QED
        BY ONLY <2>3, <3>2, <4>1 DEF NextRead
    <3>5. Told' = Told
      BY <1>0, <1>1, <2>1, <2>2, <3>4 DEF Told
    <3>. QED
      BY <1>0, <1>1, <3>5 DEF CountersAgree, LostInHand, ReadInHand
  <2>4. CASE perf[c] = <<>>
    <3>1. Len(perf[c]) = 0 /\ NextRead(c) = {}
      BY <2>4 DEF NextRead
    <3>2. NextRead(c)' \subseteq {s} /\ (NextRead(c)' # {} => dropped[c] = 0)
      <4>1. perf'[c] # <<>> /\ perf'[c] \in Seq(Records)
        BY <1>5, <1>6, <1>8
      <4>2. Head(perf'[c]) = perf'[c][1]
        BY <4>1, TailFacts
      <4>3. CASE m = 0
        BY <1>6, <3>1, <4>1, <4>2, <4>3 DEF NextRead
      <4>4. CASE m = 1
        BY <1>4, <1>6, <3>1, <4>1, <4>2, <4>4 DEF NextRead, IsSample
      <4>. QED
        BY <1>6, <3>1, <4>3, <4>4
    <3>3. ASSUME dropped[c] = 0, NEW g \in gone, g.cpu = c PROVE \E t \in WentOn(c) : g.n < t.n
      <4>1. Cardinality(Unread(c, Len(perf[c]) + 1)) = 0
        BY <3>3 DEF LossInv
      <4>2. IsFiniteSet(Unread(c, Len(perf[c]) + 1))
        <5>1. Unread(c, Len(perf[c]) + 1) \subseteq gone
          BY DEF Unread
        <5>. QED
          BY <5>1, FS_Subset DEF PipelineInv, FiniteInv
      <4>3. Unread(c, Len(perf[c]) + 1) = {}
        BY <4>1, <4>2, FS_EmptySet
      <4>4. 1 .. (Len(perf[c]) + 1) - 1 = {}
        BY <3>1
      <4>5. g \notin Unread(c, Len(perf[c]) + 1)
        BY <4>3
      <4>. QED
        BY <3>3, <4>4, <4>5 DEF Unread
    <3>4. ASSUME NEW g \in gone
          PROVE  (\E t \in WentOn(g.cpu)' \cup NextRead(g.cpu)' : g.n < t.n)
                   <=> (\E t \in WentOn(g.cpu) \cup NextRead(g.cpu) : g.n < t.n)
      <4>1. CASE g.cpu # c
        BY <1>1, <2>1, <2>2, <4>1
      <4>2. CASE g.cpu = c /\ NextRead(c)' = {}
        BY <1>1, <3>1, <4>2
      <4>3. CASE g.cpu = c /\ NextRead(c)' # {}
        BY <1>1, <3>2, <3>3, <4>3
      <4>. QED
        BY <4>1, <4>2, <4>3
    <3>5. Told' = Told
      BY <1>0, <3>4 DEF Told
    <3>. QED
      BY <1>0, <1>1, <3>5 DEF CountersAgree, LostInHand, ReadInHand
  <2>. QED
    BY <2>3, <2>4
<1>. QED
  BY <1>1, <1>14, <1>15, <1>16, <1>17, <1>18, <1>19, <1>20, <1>21 DEF Settled, OrderInv

LEMMA ProduceStep ==
    ASSUME PipelineInv, LossInv, CountersAgree, NEW c \in CPUs, NEW k \in Kinds, Produce(c, k),
           starts' = starts
    PROVE  Settled'
<1> DEFINE s == [kind |-> k, cpu |-> c, n |-> produced + 1]
           loss == IF dropped[c] = 0 THEN <<>> ELSE <<LossOf(c)>>
<1>1. /\ s.cpu = c /\ s.n = produced + 1
      /\ Pushes(c, s, loss) \/ Drops(c, s)
  BY DEF Produce, Pushes, Drops, LossOf, counts
<1>2. s \in Samples
  <2>1. produced \in Nat /\ produced < MaxSamples
    BY OldSamples DEF Produce
  <2>. QED
    BY <2>1, PipelineAssumption DEF Samples
<1>3. loss = IF dropped[c] = 0 THEN <<>> ELSE <<LossOf(c)>>
  OBVIOUS
<1> HIDE DEF s, loss
<1>. QED
  BY <1>1, <1>2, <1>3, PushStep, DropStep

-----------------------------------------------------------------------------
(* The theorems.                                                           *)

AllInv == PipelineInv /\ LossInv /\ CountersAgree

LEMMA MovesStep ==
    ASSUME AllInv, [Next]_vars, Moves
    PROVE  Settled'
<1>1. CASE starts' = starts
  BY <1>1, ProduceStep, ReadStep, CountLostStep, CountLostAsReadStep, SendStep,
     CountSentStep, HandOverStep, ReceiveStep, ProcessStep DEF AllInv, Moves
<1>2. CASE starts' # starts
  <2>1. Main
    BY <1>2 DEF Next, vars, program, Kernel, Fail, StartEngine, ReadEvents, StartWorkers, Work, Pipeline,
                LaunchWorker, Leave, Watch, Serve, Outside, RejectKernel, RunShort, WatchErrors,
                WatchSignals, ReportServer, Signal, BeginOverview, EndOverview, FailServer
  <2>2. PreRun
    BY <1>2, <2>1 DEF Main, SkipPreRun, RunRoot, RunLong
  <2>3. starts = 0
    BY <2>2 DEF PreRun, AllInv, PipelineInv, StartInv
  <2>4. engine' = "starting" /\ engine = "off"
    BY <2>2, <2>3 DEF PreRun, Start, AllInv, PipelineInv, EngineInv
  <2>. QED
    BY <2>4 DEF Moves, Produce, Read, CountLost, CountLostAsRead, Send, CountSent, HandOver, Receive, Process
<1>. QED
  BY <1>1, <1>2

LEMMA AllInvStep == AllInv /\ [Next]_vars => AllInv'
<1> SUFFICES ASSUME AllInv, [Next]_vars PROVE AllInv'
  OBVIOUS
<1>1. StartInv'
  BY StartInvStep DEF AllInv, PipelineInv
<1>2. CASE Moves
  BY <1>1, <1>2, MovesStep DEF AllInv, PipelineInv, Settled
<1>3. CASE ~Moves
  <2>1. Quiet
    BY <1>3, MovesOrQuiet DEF AllInv
  <2>2. /\ FiniteInv' /\ PerfInv' /\ OrderInv' /\ HandInv' /\ SamplesConserved'
        /\ LossInv' /\ CountersAgree'
    BY <2>1, QuietStep DEF AllInv
  <2>3. Control' /\ Reports' /\ EngineInv'
    BY <1>3, ControlStep DEF AllInv
  <2>4. TypeOK'
    BY <2>1, <2>3, QuietType DEF AllInv
  <2>. QED
    BY <1>1, <2>2, <2>3, <2>4 DEF AllInv, PipelineInv
<1>. QED
  BY <1>2, <1>3

LEMMA AllInvAlways == Spec => []AllInv
<1>1. Init => AllInv
  BY InitPipelineInv DEF AllInv
<1>. QED
  BY <1>1, AllInvStep, PTL DEF Spec

(* Every variable of the pipeline keeps its type; the channel, the buffers *)
(* and the errors keep to their sizes.                                     *)
THEOREM ProgramTypeCorrect == Spec => []TypeOK
<1>1. AllInv => TypeOK
  BY DEF AllInv, PipelineInv
<1>. QED
  BY <1>1, AllInvAlways, PTL

(* A sample is handled at most once, and is in one place until then, or    *)
(* was dropped by a full buffer: for any number of CPUs and workers.       *)
THEOREM NoSampleVanishes == Spec => []SamplesConserved
<1>1. AllInv => SamplesConserved
  BY DEF AllInv, PipelineInv
<1>. QED
  BY <1>1, AllInvAlways, PTL

(* What /overview shows as lost is what the probe dropped before the       *)
(* samples that were read, and what it shows as read went on: exactly, up  *)
(* to the one record that the reader has in hand, which it counts in one   *)
(* or two steps of their own (tracepoint.go, startPerfEventReader).        *)
THEOREM CountersAlwaysAgree == Spec => []CountersAgree
<1>1. AllInv => CountersAgree
  BY DEF AllInv
<1>. QED
  BY <1>1, AllInvAlways, PTL

(* The places of the samples on their way.                                 *)
LEMMA OnWayPlaces ==
    ASSUME PipelineInv, NEW c \in CPUs, NEW i \in DOMAIN (events \o Held \o perf[c])
    PROVE  \/ i \in DOMAIN events /\ (events \o Held \o perf[c])[i] = events[i]
           \/ /\ reader.pc = "send" /\ i = Len(events) + 1
              /\ (events \o Held \o perf[c])[i] = reader.rec
           \/ /\ i - Len(events) - Len(Held) \in DOMAIN perf[c]
              /\ (events \o Held \o perf[c])[i] = perf[c][i - Len(events) - Len(Held)]
<1>1. events \in Seq(Records) /\ Held \in Seq(Records) /\ perf[c] \in Seq(Records)
  <2>1. Samples \subseteq Records /\ events \in Seq(Samples)
    BY DEF Records, PipelineInv, TypeOK
  <2>2. reader.pc = "send" => reader.rec \in Records
    BY <2>1 DEF PipelineInv, TypeOK
  <2>. QED
    BY <2>1, <2>2 DEF Held, PipelineInv, TypeOK
<1>2. /\ Len(events) \in Nat /\ DOMAIN events = 1 .. Len(events)
      /\ Len(perf[c]) \in Nat /\ DOMAIN perf[c] = 1 .. Len(perf[c])
      /\ Len(Held) = IF reader.pc = "send" THEN 1 ELSE 0
  BY <1>1, LenProperties, HeldFacts
<1> DEFINE p == events \o Held
           q == p \o perf[c]
<1>3. /\ p \in Seq(Records) /\ Len(p) = Len(events) + Len(Held)
      /\ \A j \in 1 .. Len(events) + Len(Held) :
           p[j] = IF j <= Len(events) THEN events[j] ELSE Held[j - Len(events)]
  BY <1>1, ConcatProperties
<1> HIDE DEF p
<1>4. /\ q \in Seq(Records) /\ Len(q) = Len(p) + Len(perf[c])
      /\ \A j \in 1 .. Len(p) + Len(perf[c]) :
           q[j] = IF j <= Len(p) THEN p[j] ELSE perf[c][j - Len(p)]
  <2>1. p \in Seq(Records) /\ perf[c] \in Seq(Records)
    BY <1>1, <1>3
  <2>. QED
    BY ONLY <2>1, ConcatProperties
<1>5. i \in 1 .. Len(q)
  BY <1>4, LenProperties DEF p
<1>6. /\ i \in 1 .. Len(p) + Len(perf[c])
      /\ q[i] = IF i <= Len(p) THEN p[i] ELSE perf[c][i - Len(p)]
  BY <1>4, <1>5
<1> HIDE DEF q
<1>7. CASE i <= Len(events)
  BY <1>2, <1>3, <1>6, <1>7 DEF p, q
<1>8. CASE i > Len(events) /\ i <= Len(p)
  <2>1. reader.pc = "send" /\ i = Len(events) + 1 /\ i - Len(events) = 1
    BY <1>2, <1>3, <1>6, <1>8
  <2>2. q[i] = Held[i - Len(events)]
    BY <1>2, <1>3, <1>6, <1>8
  <2>3. Held[1] = reader.rec
    BY <2>1 DEF Held
  <2>4. q[i] = reader.rec
    BY <2>1, <2>2, <2>3
  <2>. QED
    BY <2>1, <2>4 DEF p, q
<1>9. CASE i > Len(p)
  <2>0. Len(p) \in Nat
    BY <1>2, <1>3
  <2>1. i - Len(p) \in DOMAIN perf[c] /\ q[i] = perf[c][i - Len(p)]
    BY ONLY <1>2, <1>6, <1>9, <2>0
  <2>2. i - Len(p) = i - Len(events) - Len(Held)
    BY <1>2, <1>3, <1>6
  <2>3. i - Len(events) - Len(Held) \in DOMAIN perf[c] /\ q[i] = perf[c][i - Len(events) - Len(Held)]
    BY <2>1, <2>2
  <2>. QED
    BY <2>3 DEF p, q
<1>. QED
  BY <1>2, <1>3, <1>6, <1>7, <1>8, <1>9

LEMMA OrderFollows == PipelineInv => OrderKept
<1> SUFFICES ASSUME PipelineInv, NEW c \in CPUs
             PROVE  /\ \A i, j \in DOMAIN (events \o Held \o perf[c]) :
                         /\ (events \o Held \o perf[c])[i].cpu = c /\ IsSample((events \o Held \o perf[c])[i])
                         /\ (events \o Held \o perf[c])[j].cpu = c /\ IsSample((events \o Held \o perf[c])[j])
                         /\ i < j
                         => (events \o Held \o perf[c])[i].n < (events \o Held \o perf[c])[j].n
                    /\ \A s \in done \cup InHand, i \in DOMAIN (events \o Held \o perf[c]) :
                         /\ (events \o Held \o perf[c])[i].cpu = c /\ IsSample((events \o Held \o perf[c])[i])
                         /\ s.cpu = c
                         => s.n < (events \o Held \o perf[c])[i].n
  BY DEF OrderKept, IsSample
<1> DEFINE q == events \o Held \o perf[c]
           k == Len(events) + Len(Held)
           InEvents(i) == i \in DOMAIN events /\ q[i] = events[i]
           InHeld(i)   == reader.pc = "send" /\ i = Len(events) + 1 /\ q[i] = reader.rec
           InPerf(i)   == i - k \in DOMAIN perf[c] /\ q[i] = perf[c][i - k]
<1>1. /\ Len(events) \in Nat /\ DOMAIN events = 1 .. Len(events)
      /\ Len(perf[c]) \in Nat /\ DOMAIN perf[c] = 1 .. Len(perf[c])
      /\ Len(Held) = IF reader.pc = "send" THEN 1 ELSE 0
  <2>1. perf[c] \in Seq(Records)
    BY DEF PipelineInv, TypeOK
  <2>. QED
    BY <2>1, LenProperties, Queue, HeldFacts
<1>2. DOMAIN q \subseteq Int
  <2>1. events \in Seq(Records) /\ Held \in Seq(Records) /\ perf[c] \in Seq(Records)
    <3>1. Samples \subseteq Records /\ events \in Seq(Samples)
      BY DEF Records, PipelineInv, TypeOK
    <3>2. reader.pc = "send" => reader.rec \in Records
      BY <3>1 DEF PipelineInv, TypeOK
    <3>. QED
      BY <3>1, <3>2 DEF Held, PipelineInv, TypeOK
  <2>2. q \in Seq(Records)
    BY <2>1, ConcatProperties
  <2> HIDE DEF q
  <2>. QED
    BY <2>2, LenProperties
<1>3. ASSUME NEW i \in DOMAIN q PROVE InEvents(i) \/ InHeld(i) \/ InPerf(i)
  <2>1. i \in Int /\ i - Len(events) - Len(Held) = i - k
    BY <1>1, <1>2
  <2>. QED
    BY <2>1, OnWayPlaces
<1> HIDE DEF q, k
<1>4. PerfInv /\ ReadInv /\ PassInv
  BY DEF PipelineInv, OrderInv
<1>5. \A i \in DOMAIN q : InEvents(i) /\ q[i].cpu = c => q[i] \in WentOn(c)
  BY DEF WentOn, Range
<1>6. \A i \in DOMAIN q : InHeld(i) /\ q[i].cpu = c => q[i] \in WentOn(c)
  BY HeldFacts DEF WentOn
<1>7. \A s \in done \cup InHand : s.cpu = c => s \in WentOn(c)
  BY DEF WentOn
<1>8. \A s \in WentOn(c), i \in DOMAIN q : InPerf(i) /\ IsSample(q[i]) => s.n < q[i].n
  BY <1>4 DEF ReadInv
<1>9. ASSUME NEW i \in DOMAIN q, NEW j \in DOMAIN q, i < j, q[i].cpu = c, q[j].cpu = c,
             IsSample(q[i]), IsSample(q[j])
      PROVE  q[i].n < q[j].n
  <2>0. i \in Int /\ j \in Int /\ k \in Int /\ k = Len(events) + Len(Held)
    BY <1>1, <1>2 DEF k
  <2>1. CASE InPerf(j) /\ ~InPerf(i)
    BY <1>3, <1>5, <1>6, <1>8, <1>9, <2>1
  <2>2. CASE InPerf(j) /\ InPerf(i)
    <3>1. i - k < j - k
      BY <1>9, <2>0
    <3>. QED
      BY <1>4, <1>9, <2>2, <3>1 DEF PerfInv
  <2>3. CASE InHeld(j)
    <3>1. ~InHeld(i) /\ ~InPerf(i)
      BY <1>1, <1>9, <2>0, <2>3
    <3>2. InEvents(i)
      BY <1>3, <3>1
    <3>. QED
      BY <1>4, <1>9, <2>3, <3>2 DEF PassInv, Earlier
  <2>4. CASE InEvents(j)
    <3>1. ~InHeld(i) /\ ~InPerf(i)
      BY <1>1, <1>9, <2>0, <2>4
    <3>2. InEvents(i)
      BY <1>3, <3>1
    <3>. QED
      BY <1>4, <1>9, <2>4, <3>2 DEF PassInv, Earlier
  <2>. QED
    BY <1>3, <2>1, <2>2, <2>3, <2>4
<1>10. ASSUME NEW s \in done \cup InHand, NEW i \in DOMAIN q, s.cpu = c, q[i].cpu = c, IsSample(q[i])
       PROVE  s.n < q[i].n
  <2>1. CASE InPerf(i)
    BY <1>7, <1>8, <1>10, <2>1
  <2>2. CASE InHeld(i)
    BY <1>4, <1>10, <2>2 DEF PassInv, Earlier
  <2>3. CASE InEvents(i)
    BY <1>4, <1>10, <2>3 DEF PassInv, Earlier
  <2>. QED
    BY <1>3, <2>1, <2>2, <2>3
<1>. QED
  BY <1>9, <1>10 DEF q

(* The samples of a CPU reach the workers in the order in which they were  *)
(* produced: every path of a sample is first in, first out.                *)
THEOREM OrderAlwaysKept == Spec => []OrderKept
<1>1. AllInv => OrderKept
  BY OrderFollows DEF AllInv
<1>. QED
  BY <1>1, AllInvAlways, PTL


-----------------------------------------------------------------------------
(* Waiting.  The guards of the steps of each goroutine.                    *)
CanRead == \/ reader.pc \in {"open", "lost", "lostRead", "sent"}
           \/ reader.pc = "read" /\ \E c \in CPUs : perf[c] # <<>>
           \/ reader.pc = "send" /\ Len(events) < ChannelSize
           \/ /\ reader.pc = "send" /\ events = <<>>
              /\ \E w \in Workers : worker[w].pc = "receive"

CanWork == \E w \in Workers : \/ worker[w].pc = "process"
                              \/ worker[w].pc = "receive" /\ events # <<>>

CanLaunch == \/ starter = "interfaces"
             \/ starter = "launch" /\ \E w \in Workers : worker[w].pc = "off"
             \/ starter = "launch" /\ \A w \in Workers : worker[w].pc # "off"

CanWatch == watcher = "wait" /\ errChan # <<>>

CanServe == \E s \in Servers : server[s] = "error" /\ Len(errChan) < ErrChanSize

Waiting == Buffered \cup Range(Held) \cup Range(events) \cup InHand

(* A goroutine that gave up has told the one that ends the program, or can *)
(* do so.                                                                  *)
FailuresAreNoticed == Alive /\ Failed # {} => CanWatch \/ CanServe

(* While a sample is on its way, one of the goroutines it waits for can go *)
(* on.                                                                     *)
PipelineGoesOn ==
    Alive /\ Waiting # {} => CanRead \/ CanWork \/ CanLaunch \/ engine = "attached" \/ CanWatch

(* What was started, and by whom; and an error is in the channel until it  *)
(* ends the program.                                                       *)
GaveUp == engine = "failed" \/ reader.pc = "failed" \/ starter = "failed"
          \/ \E s \in Servers : server[s] = "failed"

GoInv ==
    /\ server \in [Servers -> {"off", "serving", "error", "failed"}]
    /\ engine \notin {"attached", "started"} => produced = 0
    /\ engine = "started" => reader.pc # "off" /\ starter # "off"
    /\ engine # "started" => starter = "off"
    /\ starter = "started" => \A w \in Workers : worker[w].pc # "off"
    /\ starts = 0 => \A s \in Servers : server[s] = "off"
    /\ starts # 0 => watcher = "wait"
    /\ Alive /\ GaveUp => errChan # <<>>

LEMMA GoInit == Init => GoInv
  BY DEF Init, InitPipeline, GoInv, GaveUp, Alive, Running

(* A step that leaves the starting, the servers and the errors alone, and  *)
(* stops no goroutine.                                                     *)
LEMMA GoKept ==
    ASSUME GoInv, AllInv, UNCHANGED <<engine, starter, watcher, server, starts, errChan>>,
           exit' = exit \/ ~Alive',
           engine \in {"attached", "started"} \/ produced' = produced,
           \A w \in Workers : worker[w].pc # "off" => worker'[w].pc # "off",
           reader.pc = reader'.pc \/ (reader.pc # "off" /\ reader'.pc \notin {"off", "failed"})
    PROVE  GoInv'
  BY DEF GoInv, GaveUp, Alive

(* Whoever fails reports that first.                                       *)
LEMMA ReportNonempty ==
    ASSUME AllInv, NEW who \in Reporters, Report(who)
    PROVE  errChan' # <<>>
<1>1. errChan \in Seq(Reporters) /\ errChan' = Append(errChan, who)
  BY DEF AllInv, PipelineInv, EngineInv, Report
<1>2. Len(errChan) \in Nat /\ Len(errChan') = Len(errChan) + 1
  BY <1>1, AppendFacts
<1>. QED
  BY <1>2, EmptySeq

LEMMA GoStep == GoInv /\ AllInv /\ [Next]_vars => GoInv'
<1>. SUFFICES ASSUME GoInv, AllInv, [Next]_vars PROVE GoInv'
  OBVIOUS
<1>0. /\ starts = 0 => engine = "off"
      /\ starts \in {0, 1}
      /\ main.pc = "preRun" => starts = 0
      /\ engine # "started" => reader.pc = "off"
      /\ reader \in [pc : ReaderPCs, rec : Records \cup {NoSample}]
      /\ worker \in [Workers -> [pc : {"off", "receive", "process"}, rec : Samples \cup {NoSample}]]
  BY DEF AllInv, PipelineInv, EngineInv, TypeOK, StartInv
<1>1. CASE UNCHANGED vars
  BY <1>1 DEF vars, pipeline, program, GoInv, GaveUp, Alive
<1>2. CASE Kernel
  <2>1. PICK c \in CPUs, k \in Kinds : Produce(c, k)
    BY <1>2 DEF Kernel
  <2>2. UNCHANGED program
    BY <1>2 DEF Kernel, Pipeline
  <2>3. engine \in {"attached", "started"} /\ UNCHANGED <<engine, reader, starter, worker, errChan>>
    BY <2>1 DEF Produce
  <2>. QED
    BY <2>2, <2>3, GoKept DEF program
<1>3. CASE Fail
  <2>1. UNCHANGED <<watcher, server, starts, exit>> /\ Alive
    BY <1>3 DEF Fail, Pipeline, program
  <2>2. CASE FailProbe
    <3>1. errChan' # <<>> /\ engine = "starting" /\ engine' = "failed"
          /\ UNCHANGED <<produced, reader, starter, worker>>
      BY <2>2, ReportNonempty DEF FailProbe, kernel, Reporters
    <3>. QED
      BY <2>1, <3>1 DEF GoInv
  <2>3. CASE FailReader
    <3>1. errChan' # <<>> /\ reader' = [reader EXCEPT !.pc = "failed"] /\ reader.pc # "off"
          /\ UNCHANGED <<produced, engine, starter, worker>>
      BY <2>3, ReportNonempty DEF FailReader, kernel, Reporters
    <3>2. reader'.pc = "failed"
      BY <1>0, <3>1
    <3>. QED
      BY <2>1, <3>1, <3>2 DEF GoInv
  <2>4. CASE FailInterfaces
    <3>1. errChan' # <<>> /\ starter = "interfaces" /\ starter' = "failed"
          /\ UNCHANGED <<produced, engine, reader, worker>>
      BY <2>4, ReportNonempty DEF FailInterfaces, kernel, Reporters
    <3>. QED
      BY <2>1, <3>1 DEF GoInv
  <2>. QED
    BY <1>3, <2>2, <2>3, <2>4 DEF Fail
<1>4. CASE StartEngine
  <2>1. UNCHANGED <<watcher, server, starts, exit>>
    BY <1>4 DEF StartEngine, Pipeline, program
  <2>2. CASE AttachProbe
    <3>1. engine = "starting" /\ engine' = "attached" /\ UNCHANGED <<reader, starter, worker, errChan>>
      BY <2>2 DEF AttachProbe
    <3>. QED
      BY <2>1, <3>1 DEF GoInv, GaveUp, Alive
  <2>3. CASE StartGoroutines
    <3>1. /\ engine = "attached" /\ engine' = "started" /\ starter' = "interfaces"
          /\ reader' = [reader EXCEPT !.pc = "open"] /\ UNCHANGED <<worker, errChan>>
      BY <2>3 DEF StartGoroutines
    <3>2. reader'.pc = "open"
      BY <1>0, <3>1
    <3>. QED
      BY <2>1, <3>1, <3>2 DEF GoInv, GaveUp, Alive
  <2>. QED
    BY <1>4, <2>2, <2>3 DEF StartEngine
<1>5. CASE ReadEvents
  <2>1. UNCHANGED <<watcher, server, starts, exit>>
    BY <1>5 DEF ReadEvents, Pipeline, program
  <2>2. CASE OpenReader \/ Read \/ CountLost \/ CountLostAsRead \/ Send \/ CountSent
    <3>1. /\ UNCHANGED <<engine, starter, worker, errChan, produced>> /\ reader.pc # "off"
          /\ reader'.pc \notin {"off", "failed"}
      BY <1>0, <2>2 DEF OpenReader, Read, CountLost, CountLostAsRead, Send, CountSent, Sent, kernel
    <3>. QED
      BY <2>1, <3>1, GoKept
  <2>3. ASSUME NEW w \in Workers, HandOver(w) PROVE GoInv'
    <3>1. /\ UNCHANGED <<engine, starter, errChan, produced>> /\ reader.pc = "send"
          /\ reader'.pc = "sent"
      BY <2>3 DEF HandOver, Sent, kernel
    <3>2. \A v \in Workers : worker[v].pc # "off" => worker'[v].pc # "off"
      BY <1>0, <2>3 DEF HandOver, Take
    <3>. QED
      BY <2>1, <3>1, <3>2, GoKept
  <2>. QED
    BY <1>5, <2>2, <2>3 DEF ReadEvents
<1>6. CASE StartWorkers
  <2>1. UNCHANGED <<watcher, server, starts>>
    BY <1>6 DEF StartWorkers, Pipeline, program, LaunchWorker
  <2>2. CASE Pipeline /\ ListInterfaces
    <3>1. /\ starter = "interfaces" /\ starter' = "launch"
          /\ UNCHANGED <<engine, reader, worker, errChan, produced, exit>>
      BY <2>2 DEF ListInterfaces, kernel, Pipeline, program
    <3>. QED
      BY <2>1, <3>1 DEF GoInv, GaveUp, Alive
  <2>3. CASE Pipeline /\ EndLaunch
    <3>1. /\ starter = "launch" /\ starter' = "started" /\ \A w \in Workers : worker[w].pc # "off"
          /\ UNCHANGED <<engine, reader, worker, errChan, produced, exit>>
      BY <2>3 DEF EndLaunch, kernel, Pipeline, program
    <3>. QED
      BY <2>1, <3>1 DEF GoInv, GaveUp, Alive
  <2>4. ASSUME NEW w \in Workers, LaunchWorker(w) PROVE GoInv'
    <3>1. /\ UNCHANGED <<engine, starter, reader, errChan, produced>>
          /\ worker' = [worker EXCEPT ![w].pc = "receive"]
          /\ exit' = exit \/ ~Alive'
      BY <2>4 DEF LaunchWorker, Launch, kernel, End, Alive, Running
    <3>2. \A v \in Workers : worker[v].pc # "off" => worker'[v].pc # "off"
      BY <1>0, <3>1
    <3>. QED
      BY <2>1, <3>1, <3>2, GoKept
  <2>. QED
    BY <1>6, <2>2, <2>3, <2>4 DEF StartWorkers
<1>7. ASSUME NEW w \in Workers, Work(w) PROVE GoInv'
  <2>1. UNCHANGED <<watcher, server, starts, exit>>
    BY <1>7 DEF Work, Pipeline, program
  <2>2. UNCHANGED <<engine, starter, reader, errChan, produced>>
    BY <1>7 DEF Work, Receive, Process, kernel
  <2>3. \A v \in Workers : worker[v].pc # "off" => worker'[v].pc # "off"
    BY <1>0, <1>7 DEF Work, Receive, Process, Take
  <2>. QED
    BY <2>1, <2>2, <2>3, GoKept
<1>8. CASE Main
  <2>1. CASE SkipPreRun \/ RunRoot \/ RunLong
    <3>1. UNCHANGED <<engine, starter, watcher, server, starts, errChan, produced, worker, reader>>
          /\ (exit' = exit \/ ~Alive')
      BY <2>1 DEF SkipPreRun, RunRoot, RunLong, pipeline, End, Alive, Running
    <3>. QED
      BY <3>1, GoKept
  <2>2. CASE PreRun
    <3>1. /\ watcher' = "wait" /\ engine' = "starting" /\ starts = 0 /\ starts' = 1
          /\ server' = [s \in Servers |-> IF s \in ports THEN "serving" ELSE "off"]
          /\ UNCHANGED <<starter, reader, worker, errChan, produced, exit>>
      BY <1>0, <2>2 DEF PreRun, Start, kernel
    <3>2. engine = "off" /\ starter = "off" /\ reader.pc = "off" /\ produced = 0
      BY <1>0, <3>1 DEF GoInv
    <3>3. ~GaveUp'
      BY <3>1, <3>2 DEF GaveUp
    <3>. QED
      BY <3>1, <3>2, <3>3 DEF GoInv
  <2>. QED
    BY <1>8, <2>1, <2>2 DEF Main
<1>9. CASE Leave \/ Watch
  <2>1. CASE Leave \/ WatchSignals
    <3>1. UNCHANGED <<engine, starter, watcher, server, starts, errChan, produced, worker, reader>>
          /\ ~Alive'
      BY <2>1 DEF Leave, WatchSignals, RejectKernel, RunShort, pipeline, End, Alive, Running
    <3>. QED
      BY <3>1, GoKept
  <2>2. CASE WatchErrors
    <3>1. UNCHANGED <<engine, starter, watcher, server, starts, produced, worker, reader>> /\ ~Alive'
      BY <2>2 DEF WatchErrors, kernel, End, Alive, Running
    <3>. QED
      BY <3>1 DEF GoInv
  <2>. QED
    BY <1>9, <2>1, <2>2 DEF Watch
<1>10. CASE Serve
  <2>1. PICK s \in Servers : ReportServer(s)
    BY <1>10 DEF Serve
  <2>2. /\ UNCHANGED <<engine, starter, watcher, starts, produced, worker, reader, exit>>
        /\ server[s] = "error" /\ server' = [server EXCEPT ![s] = "failed"]
    BY <2>1 DEF ReportServer, kernel
  <2>3. errChan' # <<>>
    BY <2>1, ReportNonempty DEF ReportServer, Reporters
  <2>. QED
    BY <2>2, <2>3 DEF GoInv
<1>11. CASE Outside
  <2>1. CASE Signal \/ BeginOverview \/ EndOverview
    <3>1. UNCHANGED <<engine, starter, watcher, server, starts, errChan, produced, worker, reader>>
          /\ (exit' = exit \/ ~Alive')
      BY <2>1 DEF Signal, BeginOverview, EndOverview, pipeline, End, Alive, Running
    <3>. QED
      BY <3>1, GoKept
  <2>2. ASSUME NEW s \in Servers, FailServer(s) PROVE GoInv'
    <3>1. /\ UNCHANGED <<engine, starter, watcher, starts, errChan, produced, worker, reader, exit>>
          /\ server[s] = "serving" /\ server' = [server EXCEPT ![s] = "error"]
      BY <2>2 DEF FailServer, pipeline
    <3>. QED
      BY <3>1 DEF GoInv, GaveUp, Alive
  <2>. QED
    BY <1>11, <2>1, <2>2 DEF Outside
<1>. QED
  BY <1>1, <1>2, <1>3, <1>4, <1>5, <1>6, <1>7, <1>8, <1>9, <1>10, <1>11 DEF Next

LEMMA GoAlways == Spec => [](AllInv /\ GoInv)
<1>1. Init => GoInv
  BY GoInit
<1>2. AllInv /\ GoInv /\ [Next]_vars => GoInv'
  BY GoStep
<1>. QED
  BY <1>1, <1>2, AllInvAlways, PTL DEF Spec

(* No failure is left with nobody to hear of it: the error of a goroutine  *)
(* that gave up is in errChan, or can be put there, and the goroutine that *)
(* ends the program is receiving (src/commands/main.go).  What is left of  *)
(* FailuresEndTheProgram is that these steps are taken.                    *)
THEOREM FailuresAlwaysNoticed == Spec => []FailuresAreNoticed
<1>1. AllInv /\ GoInv => FailuresAreNoticed
  <2>. SUFFICES ASSUME AllInv, GoInv, Alive, Failed # {} PROVE CanWatch \/ CanServe
    BY DEF FailuresAreNoticed
  <2>1. GaveUp \/ \E s \in Servers : server[s] = "error"
    BY DEF Failed, GaveUp
  <2>2. starts # 0
    BY <2>1 DEF GoInv, GaveUp, AllInv, PipelineInv, EngineInv
  <2>3. CASE errChan # <<>>
    BY <2>2, <2>3 DEF GoInv, CanWatch
  <2>4. CASE errChan = <<>>
    <3>1. Len(errChan) = 0
      BY <2>4
    <3>2. \E s \in Servers : server[s] = "error"
      BY <2>1, <2>4 DEF GoInv
    <3>. QED
      BY <3>1, <3>2 DEF CanServe, ErrChanSize
  <2>. QED
    BY <2>3, <2>4
<1>. QED
  BY <1>1, GoAlways, PTL

(* The reader, the channel, the workers and those that start them never    *)
(* wait for each other in a circle: for any number of workers but none,    *)
(* and any capacity of the channel, also 0 (engine.go, worker.go).  What   *)
(* is left of SamplesAreHandled is that these steps are taken.             *)
THEOREM PipelineNeverStalls ==
    ASSUME Workers # {}
    PROVE  Spec => []PipelineGoesOn
<1>1. AllInv /\ GoInv => PipelineGoesOn
  <2>. SUFFICES ASSUME AllInv, GoInv, Alive, Waiting # {}
                PROVE  CanRead \/ CanWork \/ CanLaunch \/ engine = "attached" \/ CanWatch
    BY DEF PipelineGoesOn
  <2>0. TypeOK /\ SamplesConserved
    BY DEF AllInv, PipelineInv
  <2>1. produced # 0
    <3>. SUFFICES ASSUME produced = 0 PROVE FALSE
      OBVIOUS
    <3>1. PICK s \in Waiting : TRUE
      OBVIOUS
    <3>2. s.n \in 1 .. produced
      BY <2>0, <3>1 DEF SamplesConserved, Waiting
    <3>. QED
      BY <3>2
  <2>2. CASE engine = "attached"
    BY <2>2
  <2>3. CASE engine = "started" /\ GaveUp
    <3>1. starts # 0
      BY <2>3 DEF AllInv, PipelineInv, EngineInv
    <3>. QED
      BY <2>3, <3>1 DEF GoInv, CanWatch
  <2>4. CASE engine = "started" /\ ~GaveUp
    <3>1. starter \in {"interfaces", "launch", "started"} 
          /\ reader.pc \in {"open", "read", "lost", "lostRead", "send", "sent"}
      BY <2>0, <2>4 DEF GoInv, GaveUp, TypeOK, ReaderPCs
    <3>2. CASE starter # "started"
      BY <3>1, <3>2 DEF CanLaunch
    <3>3. CASE starter = "started"
      <4>1. \A w \in Workers : worker[w].pc \in {"receive", "process"}
        BY <2>0, <3>3 DEF GoInv, TypeOK
      <4>2. CASE events # <<>>
        BY <4>1, <4>2 DEF CanWork
      <4>3. CASE \E w \in Workers : worker[w].pc = "process"
        BY <4>3 DEF CanWork
      <4>4. CASE events = <<>> /\ \A w \in Workers : worker[w].pc = "receive"
        <5>1. CASE reader.pc # "read"
          BY <3>1, <4>4, <5>1 DEF CanRead
        <5>2. CASE reader.pc = "read"
          <6>1. Held = <<>> /\ Busy = {} /\ InHand = {} /\ Range(Held) = {} /\ Range(events) = {}
            BY <4>4, <5>2 DEF Held, Busy, InHand, Range
          <6>2. Buffered # {}
            BY <6>1 DEF Waiting
          <6>3. PICK c \in CPUs : Sampled(perf[c]) # {}
            BY <6>2 DEF Buffered
          <6>4. perf[c] # <<>>
            BY <6>3 DEF Sampled, Range
          <6>. QED
            BY <5>2, <6>4 DEF CanRead
        <5>. QED
          BY <5>1, <5>2
      <4>. QED
        BY <4>1, <4>2, <4>3, <4>4
    <3>. QED
      BY <3>2, <3>3
  <2>. QED
    BY <2>1, <2>2, <2>3, <2>4 DEF GoInv
<1>. QED
  BY <1>1, GoAlways, PTL
=============================================================================
