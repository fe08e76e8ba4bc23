--------------------------- MODULE ProgramsProofs ---------------------------
(***************************************************************************)
(* What is proved about the host's programs.  Each kind of program is      *)
(* proved about with a specification of its own; the result holds of the   *)
(* board because a program of another kind leaves its variables alone.     *)
(***************************************************************************)
EXTENDS Programs, WorkflowProofs
-----------------------------------------------------------------------------
(***************************************************************************)
(* ppgpsdo compares the k-th stamp of one channel with the k-th of the     *)
(* other, and the return code names the cause of a failure: for every FIFO *)
(* and queue depth, every number of stamps and every schedule of the       *)
(* reader threads, the aggregator's worker and the main thread.            *)
(*                                                                         *)
(* The stamps of a channel are in four places: the core's FIFO, the        *)
(* reader, the queue and the task.  The invariant says which stamp each    *)
(* place holds, counted from the pairs the task has finished.              *)
(***************************************************************************)

TsSpec == TsInit /\ [][TsNext]_tsVars
-----------------------------------------------------------------------------
ReaderPcs == {"wait", "count", "submit", "request_stop", "join", "done"}
Failures == {"none", "stopped", "overflow", "timeout"}
TaskFailures == {"none", "overflow", "converter"}
Readers == [pc : ReaderPcs, ctr : Nat, stamp : Stamp, failure : Failures]

CoreTypes ==
  /\ events \in [Channels -> Stamp] /\ words \in [Channels -> Seq(Stamp)]
  /\ held \in [Channels -> Stamp] /\ overflow \in [Channels -> BOOLEAN]
AggTypes ==
  /\ qs \in [Channels -> Seq(Stamp)]
  /\ stopping \in BOOLEAN /\ drain \in BOOLEAN /\ agg_failure \in TaskFailures
  /\ worker \in [pc : {"wait", "task", "exit"}, pair : Stamp \X Stamp]
  /\ pairs \in Seq(Stamp \X Stamp)
\* ppgpsdo reads both channels and stops at an overflow.
OptionTypes ==
  /\ tool \in {"ppts", "ppgpsdo"} /\ active \in SUBSET Channels
  /\ tool = "ppgpsdo" => active = Channels /\ ~ignore_overflow
TsTypeOK ==
  /\ CoreTypes /\ AggTypes /\ OptionTypes
  /\ reader \in [Channels -> Readers]
  /\ stop_requested \in BOOLEAN
  /\ tmain \in {"join", "stop", "join_worker", "code", "returned"}

\* ppts has no aggregator, and a channel that is not read has an idle reader.
NoAggregator ==
  tool = "ppts" =>
    /\ qs = Both(<<>>) /\ pairs = <<>> /\ worker.pc = "wait" /\ ~stopping
    /\ \A ch \in Channels : reader[ch].pc \notin {"submit", "request_stop", "join"}
    /\ tmain \notin {"stop", "join_worker"}
IdleUnread == \A ch \in Channels \ active : reader[ch] = NewReader
-----------------------------------------------------------------------------
(***************************************************************************)
(* Where the stamps are.                                                   *)
(***************************************************************************)
\* The stamps the worker has taken, those submitted and those read.
Taken == Len(pairs) + (IF worker.pc = "task" THEN 1 ELSE 0)
Submitted(ch) == Taken + Len(qs[ch])
ReadSoFar(ch) == Submitted(ch) + (IF reader[ch].pc = "submit" THEN 1 ELSE 0)
Held(ch) == IF held[ch] = 0 THEN 0 ELSE 1

Queued(ch) == \A i \in 1 .. Len(qs[ch]) : qs[ch][i] = Taken + i
Submitting(ch) == reader[ch].pc = "submit" => reader[ch].stamp = Submitted(ch) + 1
\* Until an event is lost, the FIFO holds the events that are not read yet,
\* two words each, and the core the last one.
Filled(ch) ==
  ~overflow[ch] /\ reader[ch].pc \in {"wait", "count", "submit"} =>
    /\ Len(words[ch]) = 2 * (events[ch] - Held(ch) - ReadSoFar(ch))
    /\ \A i \in 1 .. Len(words[ch]) : words[ch][i] = ReadSoFar(ch) + ((i + 1) \div 2)
    /\ held[ch] # 0 => held[ch] = events[ch]
InTask == worker.pc = "task" => worker.pair = <<Len(pairs) + 1, Len(pairs) + 1>>

Channel(ch) == Queued(ch) /\ Submitting(ch) /\ (tool = "ppgpsdo" => Filled(ch))
\* A worker that has left takes nothing more.
InOrder == worker.pc # "exit" => InTask /\ \A ch \in Channels : Channel(ch)
PairInv == TsTypeOK /\ NoAggregator /\ IdleUnread /\ InOrder /\ PairsMatch
-----------------------------------------------------------------------------
(***************************************************************************)
(* Types.                                                                  *)
(***************************************************************************)
LEMMA TypeStart == TsInit => TsTypeOK
<1> USE DEF Stamp, Channels
<1>0. 0 \in Stamp
  BY TimestampAssumption
<1>1. /\ TsInit => CoreTypes /\ AggTypes
      /\ TsInit => OptionTypes
  <2>1. TsInit => CoreTypes
    BY <1>0 DEF TsInit, Both, CoreTypes
  <2>2. <<>> \in Seq(Stamp) /\ <<>> \in Seq(Stamp \X Stamp) /\ <<0, 0>> \in Stamp \X Stamp
    BY <1>0
  <2>4. TsInit => qs \in [Channels -> Seq(Stamp)] /\ pairs \in Seq(Stamp \X Stamp)
    BY <2>2 DEF TsInit, Both
  <2>6. TsInit => worker \in [pc : {"wait", "task", "exit"}, pair : Stamp \X Stamp]
    BY <2>2 DEF TsInit
  <2>7. TsInit => stopping \in BOOLEAN /\ drain \in BOOLEAN /\ agg_failure \in TaskFailures
    BY DEF TsInit, TaskFailures
  <2>5. TsInit => AggTypes
    BY <2>4, <2>6, <2>7 DEF AggTypes
  <2>3. TsInit => OptionTypes
    BY DEF TsInit, OptionTypes
  <2> QED
    BY <2>1, <2>3, <2>5
<1>2. NewReader \in Readers
  BY <1>0 DEF NewReader, Readers, ReaderPcs, Failures
<1> QED
  BY <1>1, <1>2, ZenonT(60) DEF TsInit, Both, TsTypeOK

\* A reader's step writes a reader of the type.
LEMMA ReaderType ==
  ASSUME reader \in [Channels -> Readers], NEW ch \in Channels, NEW r \in Readers,
         ReaderGoes(ch, r)
  PROVE  reader' \in [Channels -> Readers]
BY DEF ReaderGoes

\* A worker that throws leaves a reader of the right type.
LEMMA ThrowsType ==
  ASSUME reader \in [Channels -> Readers], NEW ch \in Channels, NEW f \in Failures, Throws(ch, f)
  PROVE  reader' \in [Channels -> Readers]
<1> DEFINE r == [reader[ch] EXCEPT !.pc = IF tool = "ppgpsdo" THEN "request_stop" ELSE "done",
                                  !.failure = f]
<1>1. r \in Readers
  BY DEF Readers, ReaderPcs
<1> QED
  BY <1>1, ReaderType DEF Throws

\* The core's steps.
LEMMA TypeCore ==
  ASSUME TsTypeOK, NEW ch \in Channels, Event(ch) \/ Accept(ch)
  PROVE  TsTypeOK'
<1>1. CASE Event(ch)
  <2>2. events[ch] + 1 \in Stamp
    BY <1>1, TimestampAssumption DEF Event, TsTypeOK, CoreTypes, Stamp
  <2>3. events' \in [Channels -> Stamp] /\ words' \in [Channels -> Seq(Stamp)]
    BY <1>1, <2>2 DEF Event, TsTypeOK, CoreTypes
  <2>4. held' \in [Channels -> Stamp]
    BY <1>1, <2>2 DEF Event, TsTypeOK, CoreTypes
  <2>5. overflow' \in [Channels -> BOOLEAN]
    BY <1>1 DEF Event, TsTypeOK, CoreTypes
  <2>1. CoreTypes'
    BY <2>3, <2>4, <2>5 DEF CoreTypes
  <2> QED
    BY <1>1, <2>1 DEF Event, TsTypeOK, AggTypes, OptionTypes, aggVars, optVars
<1>2. CASE Accept(ch)
  <2>1. words[ch] \o <<held[ch], held[ch]>> \in Seq(Stamp)
    BY DEF TsTypeOK, CoreTypes
  <2>2. 0 \in Stamp
    BY TimestampAssumption DEF Stamp
  <2>3. /\ words' = [words EXCEPT ![ch] = words[ch] \o <<held[ch], held[ch]>>]
        /\ held' = [held EXCEPT ![ch] = 0] /\ UNCHANGED <<events, overflow>>
    BY <1>2 DEF Accept
  <2>4. words' \in [Channels -> Seq(Stamp)] /\ held' \in [Channels -> Stamp]
    BY <2>1, <2>2, <2>3 DEF TsTypeOK, CoreTypes
  <2>5. CoreTypes'
    BY <2>3, <2>4 DEF TsTypeOK, CoreTypes
  <2> QED
    BY <1>2, <2>5 DEF Accept, TsTypeOK, AggTypes, OptionTypes, aggVars, optVars
<1> QED
  BY <1>1, <1>2

\* A reader's steps.
LEMMA TypeReader ==
  ASSUME TsTypeOK, NEW ch \in Channels, ReaderStep(ch)
  PROVE  TsTypeOK'
<1> USE DEF coreVars, optVars, aggVars
<1>0. reader \in [Channels -> Readers] /\ reader[ch] \in Readers
  BY DEF TsTypeOK
<1>1. CASE StopSeen(ch)
  <2>1. reader' \in [Channels -> Readers]
    BY <1>0, <1>1, ThrowsType DEF StopSeen, Failures
  <2> QED
    BY <1>1, <2>1 DEF StopSeen, TsTypeOK, CoreTypes, AggTypes, OptionTypes
<1>2. CASE OverflowSeen(ch)
  <2>1. reader' \in [Channels -> Readers]
    BY <1>0, <1>2, ThrowsType DEF OverflowSeen, Failures
  <2> QED
    BY <1>2, <2>1 DEF OverflowSeen, TsTypeOK, CoreTypes, AggTypes, OptionTypes
<1>3. CASE ReadTimesOut(ch)
  <2>1. reader' \in [Channels -> Readers]
    BY <1>0, <1>3, ThrowsType DEF ReadTimesOut, Failures
  <2> QED
    BY <1>3, <2>1 DEF ReadTimesOut, TsTypeOK, CoreTypes, AggTypes, OptionTypes
<1>4. CASE ReadStamp(ch)
  <2>0. words[ch] \in Seq(Stamp) /\ Len(words[ch]) >= 2
    BY <1>4 DEF ReadStamp, TsTypeOK, CoreTypes
  <2>1. words[ch][1] \in Stamp /\ SubSeq(words[ch], 3, Len(words[ch])) \in Seq(Stamp)
    BY <2>0
  <2>2. CoreTypes'
    BY <1>4, <2>1 DEF ReadStamp, TsTypeOK, CoreTypes
  <2>3. [reader[ch] EXCEPT !.stamp = words[ch][1],
                          !.pc = IF tool = "ppgpsdo" THEN "submit" ELSE "count"] \in Readers
    BY <1>0, <2>1 DEF Readers, ReaderPcs
  <2>4. reader' \in [Channels -> Readers]
    BY <1>0, <1>4, <2>3, ReaderType DEF ReadStamp
  <2> QED
    BY <1>4, <2>2, <2>4 DEF ReadStamp, TsTypeOK, AggTypes, OptionTypes
<1>5. CASE Submit(ch)
  <2>1. CASE stopping
    <3>1. reader' \in [Channels -> Readers]
      BY <1>0, <1>5, <2>1, ThrowsType DEF Submit, Failures
    <3> QED
      BY <1>5, <2>1, <3>1 DEF Submit, TsTypeOK, CoreTypes, AggTypes, OptionTypes
  <2>2. CASE ~stopping
    <3>1. [reader[ch] EXCEPT !.pc = "count"] \in Readers /\ reader[ch].stamp \in Stamp
      BY <1>0 DEF Readers, ReaderPcs
    <3>2. reader' \in [Channels -> Readers]
      BY <1>0, <1>5, <2>2, <3>1, ReaderType DEF Submit
    <3>4. qs' = [qs EXCEPT ![ch] = Append(qs[ch], reader[ch].stamp)]
      BY <1>5, <2>2 DEF Submit
    <3>3. qs' \in [Channels -> Seq(Stamp)]
      BY <3>1, <3>4 DEF TsTypeOK, AggTypes
    <3> QED
      BY <1>5, <3>2, <3>3 DEF Submit, TsTypeOK, CoreTypes, AggTypes, OptionTypes
  <2> QED
    BY <2>1, <2>2
<1>6. CASE CountStamp(ch)
  <2> DEFINE n == IF nr = 0 THEN 0 ELSE reader[ch].ctr + 1
  <2> DEFINE next == IF nr # 0 /\ n = nr THEN "done" ELSE "wait"
  <2>0. n \in Nat /\ next \in ReaderPcs
    BY <1>0 DEF Readers, ReaderPcs
  <2> HIDE DEF n, next
  <2>3. [reader[ch] EXCEPT !.ctr = n, !.pc = next] \in Readers
    BY <1>0, <2>0 DEF Readers
  <2>1. [reader[ch] EXCEPT !.ctr = n, !.pc = IF nr # 0 /\ n = nr THEN "done" ELSE "wait"]
          \in Readers
    BY <2>3 DEF n, next
  <2> USE DEF n
  <2>2. reader' \in [Channels -> Readers]
    BY <1>0, <1>6, <2>1, ReaderType DEF CountStamp
  <2> QED
    BY <1>6, <2>2 DEF CountStamp, TsTypeOK, CoreTypes, AggTypes, OptionTypes
<1>7. CASE RequestStop(ch)
  <2>1. /\ [reader[ch] EXCEPT !.pc = "done"] \in Readers
        /\ [reader[ch] EXCEPT !.pc = "join"] \in Readers
    BY <1>0 DEF Readers, ReaderPcs
  <2>2. reader' \in [Channels -> Readers]
    BY <1>0, <1>7, <2>1, ReaderType DEF RequestStop
  <2> QED
    BY <1>7, <2>2 DEF RequestStop, TsTypeOK, CoreTypes, AggTypes, OptionTypes
<1>8. CASE JoinWorker(ch)
  <2>1. [reader[ch] EXCEPT !.pc = "done"] \in Readers
    BY <1>0 DEF Readers, ReaderPcs
  <2>2. reader' \in [Channels -> Readers]
    BY <1>0, <1>8, <2>1, ReaderType DEF JoinWorker
  <2> QED
    BY <1>8, <2>2 DEF JoinWorker, TsTypeOK, CoreTypes, AggTypes, OptionTypes
<1> QED
  BY <1>1, <1>2, <1>3, <1>4, <1>5, <1>6, <1>7, <1>8 DEF ReaderStep

\* The worker's steps and the main thread's.
LEMMA TypeOthers ==
  ASSUME TsTypeOK, WorkerStep \/ TaskThrows \/ MainStep
  PROVE  TsTypeOK'
<1> USE DEF coreVars, optVars, aggVars, TsTypeOK, CoreTypes, AggTypes, OptionTypes
<1>1. CASE WorkerExits
  BY <1>1 DEF WorkerExits
<1>2. CASE TakePair
  <2>0. \A ch \in Channels : qs[ch] \in Seq(Stamp) /\ qs[ch] # <<>>
    BY <1>2 DEF TakePair, HasPair
  <2>1. /\ \A ch \in Channels : Head(qs[ch]) \in Stamp /\ Tail(qs[ch]) \in Seq(Stamp)
        /\ "pps" \in Channels /\ "sigA" \in Channels
    BY <2>0 DEF Channels
  <2>2. /\ qs' \in [Channels -> Seq(Stamp)]
        /\ worker' \in [pc : {"wait", "task", "exit"}, pair : Stamp \X Stamp]
    BY <1>2, <2>1 DEF TakePair
  <2> QED
    BY <1>2, <2>2 DEF TakePair
<1>3. CASE TaskReturns
  <2>1. worker' \in [pc : {"wait", "task", "exit"}, pair : Stamp \X Stamp]
    BY <1>3 DEF TaskReturns
  <2>2. worker.pair \in Stamp \X Stamp /\ pairs' = Append(pairs, worker.pair)
    BY <1>3 DEF TaskReturns
  <2>3. pairs' \in Seq(Stamp \X Stamp)
    BY <2>2
  <2> QED
    BY <1>3, <2>1, <2>3 DEF TaskReturns
<1>4. CASE TaskThrows
  BY <1>4 DEF TaskThrows, Thrown, TaskFailures
<1>5. CASE MainStep
  <2>1. CASE JoinReaders
    BY <2>1 DEF JoinReaders
  <2>2. CASE StopAggregator
    BY <2>2 DEF StopAggregator
  <2>3. CASE MainJoinsWorker
    BY <2>3 DEF MainJoinsWorker
  <2>4. CASE ReturnCode
    BY <2>4 DEF ReturnCode
  <2> QED
    BY <1>5, <2>1, <2>2, <2>3, <2>4 DEF MainStep
<1> QED
  BY <1>1, <1>2, <1>3, <1>4, <1>5 DEF WorkerStep

\* Every step of the time-stamp tools keeps the types.
LEMMA TypeStep == TsTypeOK /\ [TsNext]_tsVars => TsTypeOK'
<1>1. TsTypeOK /\ UNCHANGED tsVars => TsTypeOK'
  BY DEF tsVars, coreVars, optVars, aggVars, TsTypeOK, CoreTypes, AggTypes, OptionTypes
<1> QED
  BY <1>1, TypeCore, TypeReader, TypeOthers DEF TsNext
-----------------------------------------------------------------------------
(***************************************************************************)
(* The stamps stay in order.                                               *)
(***************************************************************************)
LEMMA Counts ==
  ASSUME TsTypeOK, NEW ch \in Channels
  PROVE  Taken \in Nat /\ Submitted(ch) \in Nat /\ ReadSoFar(ch) \in Nat
<1>1. Len(pairs) \in Nat /\ qs[ch] \in Seq(Stamp)
  BY DEF TsTypeOK, AggTypes
<1>2. Len(qs[ch]) \in Nat
  BY <1>1
<1>3. Taken \in Nat
  BY <1>1 DEF Taken
<1>4. Submitted(ch) \in Nat
  BY <1>2, <1>3 DEF Submitted
<1> QED
  BY <1>3, <1>4 DEF ReadSoFar

\* Both words of a stamp have the stamp's place.
LEMMA WordPlace ==
  ASSUME NEW k \in Int
  PROVE  (2 * k) \div 2 = k /\ (2 * k + 1) \div 2 = k
OBVIOUS

\* A step that changes nothing of a channel.
LEMMA ChannelSame ==
  ASSUME NEW d, Channel(d), Taken' = Taken, UNCHANGED <<tool, qs[d], events[d], held[d]>>,
         UNCHANGED <<overflow[d], words[d], reader[d]>>
  PROVE  Channel(d)'
BY DEF Channel, Queued, Submitting, Filled, Submitted, ReadSoFar, Held

\* A reader that leaves its loop.
LEMMA ChannelLeft ==
  ASSUME NEW d, Channel(d), Taken' = Taken, UNCHANGED qs[d],
         reader'[d].pc \notin {"wait", "count", "submit"}
  PROVE  Channel(d)'
BY DEF Channel, Queued, Submitting, Filled

\* An event fills the core's register, or is lost and says so.
LEMMA ChannelEvent ==
  ASSUME TsTypeOK, NEW ch \in Channels, Event(ch), NEW d \in Channels, Channel(d)
  PROVE  Channel(d)'
<1>0. /\ UNCHANGED <<tool, qs, words, reader, pairs, worker>>
      /\ Taken' = Taken
  BY DEF Event, optVars, aggVars, Taken
<1>1. CASE d # ch
  <2>1. UNCHANGED <<events[d], held[d], overflow[d]>>
    BY <1>1 DEF Event, TsTypeOK, CoreTypes
  <2> QED
    BY <1>0, <2>1, ChannelSame
<1>2. CASE d = ch
  <2>0. events[ch] \in Nat /\ events'[ch] = events[ch] + 1
    BY TimestampAssumption DEF Event, TsTypeOK, CoreTypes, Stamp
  <2>1. CASE held[ch] # 0
    <3>1. overflow'[ch]
      BY <2>1 DEF Event, TsTypeOK, CoreTypes
    <3> QED
      BY <1>0, <1>2, <3>1 DEF Channel, Queued, Submitting, Filled, Submitted
  <2>2. CASE held[ch] = 0
    <3>1. held'[ch] = events[ch] + 1 /\ UNCHANGED overflow
      BY <2>2 DEF Event, TsTypeOK, CoreTypes
    <3>2. Held(ch) = 0 /\ Held(ch)' = 1 /\ ReadSoFar(ch)' = ReadSoFar(ch)
      BY <1>0, <2>0, <2>2, <3>1 DEF Held, ReadSoFar, Submitted
    <3>3. Queued(ch)' = Queued(ch) /\ Submitting(ch)' = Submitting(ch)
      BY <1>0 DEF Queued, Submitting, Submitted
    <3>4. ReadSoFar(ch) \in Nat
      BY Counts
    <3>5. Filled(ch) => Filled(ch)'
      BY <1>0, <2>0, <3>1, <3>2, <3>4 DEF Filled
    <3> QED
      BY <1>0, <1>2, <3>3, <3>5 DEF Channel
  <2> QED
    BY <2>1, <2>2
<1> QED
  BY <1>1, <1>2

\* The FIFO takes the stamp the core holds.
LEMMA ChannelAccept ==
  ASSUME TsTypeOK, NEW ch \in Channels, Accept(ch), NEW d \in Channels, Channel(d)
  PROVE  Channel(d)'
<1>0. /\ UNCHANGED <<tool, qs, events, overflow, reader, pairs, worker>>
      /\ Taken' = Taken
  BY DEF Accept, optVars, aggVars, Taken
<1>1. CASE d # ch
  <2>1. UNCHANGED <<words[d], held[d]>>
    BY <1>1 DEF Accept, TsTypeOK, CoreTypes
  <2> QED
    BY <1>0, <2>1, ChannelSame
<1>2. CASE d = ch
  <2> DEFINE h == held[ch]
             L == Len(words[ch])
             R == ReadSoFar(ch)
  <2>0. /\ h \in Nat /\ h # 0 /\ events[ch] \in Nat /\ words[ch] \in Seq(Stamp)
        /\ words'[ch] = words[ch] \o <<h, h>> /\ held'[ch] = 0
    BY DEF Accept, TsTypeOK, CoreTypes, Stamp
  <2>1. R \in Nat /\ R' = R
    BY <1>0, Counts DEF ReadSoFar, Submitted
  <2>2. Held(ch) = 1 /\ Held(ch)' = 0
    BY <2>0 DEF Held
  <2>3. Queued(ch)' = Queued(ch) /\ Submitting(ch)' = Submitting(ch)
    BY <1>0 DEF Queued, Submitting, Submitted
  <2>4. /\ Len(words'[ch]) = L + 2 /\ L \in Nat
        /\ \A i \in 1 .. L : words'[ch][i] = words[ch][i]
        /\ words'[ch][L + 1] = h /\ words'[ch][L + 2] = h
    BY <2>0
  <2> HIDE DEF h, L, R
  <2>6. h \in Nat /\ R \in Nat /\ L \in Nat /\ events[ch] \in Nat
    BY <2>0, <2>1, <2>4
  <2>5. ASSUME Filled(ch), ~overflow[ch], reader[ch].pc \in {"wait", "count", "submit"}
        PROVE  Filled(ch)'
    <3>1. L = 2 * (events[ch] - 1 - R) /\ h = events[ch]
      BY <2>0, <2>2, <2>5 DEF Filled, h, L, R
    <3>2. \A i \in 1 .. L : words[ch][i] = R + ((i + 1) \div 2)
      BY <2>5 DEF Filled, L, R
    <3>3. Len(words'[ch]) = 2 * (events'[ch] - Held(ch)' - R')
      BY <1>0, <2>0, <2>1, <2>2, <2>4, <3>1
    <3>4. ((L + 1) + 1) \div 2 = h - R /\ ((L + 2) + 1) \div 2 = h - R
      <4>1. h - R \in Int /\ (L + 1) + 1 = 2 * (h - R) /\ (L + 2) + 1 = 2 * (h - R) + 1
        BY <2>6, <3>1
      <4> QED
        BY <4>1, WordPlace
    <3>5. ASSUME NEW i \in 1 .. L + 2
          PROVE  words'[ch][i] = R + ((i + 1) \div 2)
      <4>1. CASE i \in 1 .. L
        BY <2>4, <3>2, <4>1
      <4>2. CASE i = L + 1
        <5>1. (i + 1) \div 2 = h - R /\ words'[ch][i] = h
          BY <2>4, <3>4, <4>2
        <5> QED
          BY <2>6, <5>1
      <4>3. CASE i = L + 2
        <5>1. (i + 1) \div 2 = h - R /\ words'[ch][i] = h
          BY <2>4, <3>4, <4>3
        <5> QED
          BY <2>6, <5>1
      <4> QED
        BY <2>4, <4>1, <4>2, <4>3
    <3> QED
      BY <2>0, <2>1, <2>4, <3>3, <3>5 DEF Filled, R
  <2> QED
    BY <1>0, <1>2, <2>3, <2>5 DEF Channel, Filled
<1> QED
  BY <1>1, <1>2

\* What a reader does to the other channel's places: nothing.
LEMMA OtherReaders ==
  ASSUME TsTypeOK, NEW ch \in Channels, ReaderStep(ch), NEW d \in Channels, d # ch
  PROVE  UNCHANGED <<qs[d], reader[d], words[d], events, held, overflow, pairs, worker, tool>>
<1> USE DEF Throws, ReaderGoes, coreVars, optVars, aggVars
<1>0. /\ reader \in [Channels -> Readers] /\ qs \in [Channels -> Seq(Stamp)]
      /\ words \in [Channels -> Seq(Stamp)]
  BY DEF TsTypeOK, CoreTypes, AggTypes
<1>1. CASE StopSeen(ch)
  BY <1>0, <1>1 DEF StopSeen
<1>2. CASE OverflowSeen(ch)
  BY <1>0, <1>2 DEF OverflowSeen
<1>3. CASE ReadTimesOut(ch)
  BY <1>0, <1>3 DEF ReadTimesOut
<1>4. CASE ReadStamp(ch)
  BY <1>0, <1>4 DEF ReadStamp
<1>5. CASE Submit(ch)
  BY <1>0, <1>5 DEF Submit
<1>6. CASE CountStamp(ch)
  BY <1>0, <1>6 DEF CountStamp
<1>7. CASE RequestStop(ch)
  BY <1>0, <1>7 DEF RequestStop
<1>8. CASE JoinWorker(ch)
  BY <1>0, <1>8 DEF JoinWorker
<1> QED
  BY <1>1, <1>2, <1>3, <1>4, <1>5, <1>6, <1>7, <1>8 DEF ReaderStep

\* A stamp leaves the FIFO for the reader.
LEMMA ChannelRead ==
  ASSUME TsTypeOK, NEW ch \in Channels, ReadStamp(ch), Channel(ch)
  PROVE  Channel(ch)'
<1> DEFINE L == Len(words[ch])
           R == ReadSoFar(ch)
<1>0. /\ UNCHANGED <<tool, qs, events, held, overflow, pairs, worker>>
      /\ Taken' = Taken /\ Submitted(ch)' = Submitted(ch)
  BY DEF ReadStamp, optVars, aggVars, Taken, Submitted
<1>1. /\ reader[ch].pc = "wait" /\ L \in Nat /\ L >= 2 /\ words[ch] \in Seq(Stamp)
      /\ words'[ch] = SubSeq(words[ch], 3, L) /\ ~sees_overflow(ch)
      /\ reader'[ch].stamp = words[ch][1]
      /\ reader'[ch].pc = IF tool = "ppgpsdo" THEN "submit" ELSE "count"
  BY DEF ReadStamp, ReaderGoes, Reading, TsTypeOK, CoreTypes, Readers
<1>2. Queued(ch)'
  BY <1>0 DEF Channel, Queued
<1>3. CASE tool # "ppgpsdo"
  BY <1>0, <1>1, <1>2, <1>3 DEF Channel, Submitting
<1>4. CASE tool = "ppgpsdo"
  <2>1. Filled(ch) /\ ~overflow[ch] /\ reader'[ch].pc = "submit"
    BY <1>1, <1>4 DEF Channel, sees_overflow, TsTypeOK, OptionTypes
  <2>2. R = Submitted(ch) /\ R \in Nat /\ R' = R + 1
    BY <1>0, <1>1, <2>1, Counts DEF ReadSoFar
  <2> HIDE DEF L, R
  <2>3. /\ L = 2 * (events[ch] - Held(ch) - R)
        /\ \A i \in 1 .. L : words[ch][i] = R + ((i + 1) \div 2)
        /\ held[ch] # 0 => held[ch] = events[ch]
    BY <1>1, <2>1 DEF Filled, L, R
  <2>4. Submitting(ch)'
    <3>1. words[ch][1] = R + ((1 + 1) \div 2)
      BY <1>1, <2>3
    <3>2. (2 * 1) \div 2 = 1
      BY WordPlace
    <3> QED
      BY <1>0, <1>1, <2>2, <3>1, <3>2 DEF Submitting
  <2>5. events[ch] \in Nat /\ Held(ch) \in Nat /\ Held(ch)' = Held(ch)
    BY <1>0 DEF Held, TsTypeOK, CoreTypes, Stamp
  <2>6. /\ Len(words'[ch]) = L - 2
        /\ \A i \in 1 .. L - 2 : words'[ch][i] = words[ch][i + 2]
    BY <1>1 DEF L
  <2>7. Len(words'[ch]) = 2 * (events'[ch] - Held(ch)' - R')
    <3>1. events'[ch] = events[ch] /\ L \in Int
      BY <1>0, <1>1 DEF L
    <3> QED
      BY <2>2, <2>3, <2>5, <2>6, <3>1
  <2>8. ASSUME NEW i \in 1 .. L - 2
        PROVE  words'[ch][i] = R' + ((i + 1) \div 2)
    <3>1. words'[ch][i] = R + (((i + 2) + 1) \div 2)
      BY <1>1, <2>3, <2>6
    <3>2. ((i + 2) + 1) \div 2 = ((i + 1) \div 2) + 1
      OBVIOUS
    <3>3. (i + 1) \div 2 \in Int
      OBVIOUS
    <3> QED
      BY <2>2, <3>1, <3>2, <3>3
  <2>9. Filled(ch)'
    BY <1>0, <2>3, <2>6, <2>7, <2>8 DEF Filled, R
  <2> QED
    BY <1>2, <2>4, <2>9 DEF Channel
<1> QED
  BY <1>3, <1>4

\* The reader puts its stamp at the end of its queue.
LEMMA ChannelSubmit ==
  ASSUME TsTypeOK, NEW ch \in Channels, Submit(ch), ~stopping, Channel(ch)
  PROVE  Channel(ch)'
<1> DEFINE q == qs[ch]
           s == reader[ch].stamp
<1>0. /\ UNCHANGED <<tool, events, words, held, overflow, pairs, worker>>
      /\ Taken' = Taken /\ Held(ch)' = Held(ch)
  BY DEF Submit, coreVars, optVars, Taken, Held
<1>1. /\ q \in Seq(Stamp) /\ s \in Stamp /\ qs'[ch] = Append(q, s)
      /\ reader[ch].pc = "submit" /\ reader'[ch].pc = "count"
  BY DEF Submit, ReaderGoes, TsTypeOK, AggTypes, Readers
<1>2. /\ Len(qs'[ch]) = Len(q) + 1 /\ Len(q) \in Nat /\ qs'[ch][Len(q) + 1] = s
      /\ \A i \in 1 .. Len(q) : qs'[ch][i] = q[i]
  BY <1>1
<1>3. Submitted(ch)' = Submitted(ch) + 1 /\ ReadSoFar(ch)' = ReadSoFar(ch) /\ Taken \in Nat
  <2>1. Submitted(ch)' = Submitted(ch) + 1 /\ Taken \in Nat /\ Submitted(ch) \in Nat
    BY <1>0, <1>2, Counts DEF Submitted
  <2> QED
    BY <1>1, <2>1 DEF ReadSoFar
<1>4. s = Taken + (Len(q) + 1)
  BY <1>1, <1>2, <1>3 DEF Channel, Submitting, Submitted
<1>5. Queued(ch)'
  BY <1>0, <1>2, <1>4 DEF Channel, Queued
<1>6. Submitting(ch)'
  BY <1>1 DEF Submitting
<1>7. Filled(ch) => Filled(ch)'
  BY <1>0, <1>1, <1>3 DEF Filled
<1> QED
  BY <1>0, <1>5, <1>6, <1>7 DEF Channel

\* An exception leaves the loop.
LEMMA ThrowsLeaves ==
  ASSUME reader \in [Channels -> Readers], NEW ch \in Channels, NEW f, Throws(ch, f)
  PROVE  reader'[ch].pc \in {"request_stop", "done"} /\ reader'[ch].failure = f
BY DEF Throws, ReaderGoes, Readers

\* The reader's own channel, whatever the reader does.
LEMMA ChannelReader ==
  ASSUME TsTypeOK, NEW ch \in Channels, ReaderStep(ch), Channel(ch)
  PROVE  Channel(ch)'
<1> USE DEF coreVars, optVars, aggVars, Taken
<1>0. reader \in [Channels -> Readers]
  BY DEF TsTypeOK
<1>1. CASE StopSeen(ch)
  BY <1>0, <1>1, ThrowsLeaves, ChannelLeft DEF StopSeen
<1>2. CASE OverflowSeen(ch)
  BY <1>0, <1>2, ThrowsLeaves, ChannelLeft DEF OverflowSeen
<1>3. CASE ReadTimesOut(ch)
  BY <1>0, <1>3, ThrowsLeaves, ChannelLeft DEF ReadTimesOut
<1>4. CASE ReadStamp(ch)
  BY <1>4, ChannelRead
<1>5. CASE Submit(ch)
  <2>1. CASE stopping
    BY <1>0, <1>5, <2>1, ThrowsLeaves, ChannelLeft DEF Submit
  <2> QED
    BY <1>5, <2>1, ChannelSubmit
<1>6. CASE CountStamp(ch)
  <2>1. /\ reader[ch].pc = "count" /\ reader'[ch].pc \in {"wait", "done"}
        /\ reader'[ch].stamp = reader[ch].stamp
    BY <1>0, <1>6 DEF CountStamp, ReaderGoes, Readers
  <2>2. UNCHANGED <<qs, pairs, worker, tool, events, words, held, overflow>>
    BY <1>6 DEF CountStamp
  <2>3. ReadSoFar(ch)' = ReadSoFar(ch)
    BY <2>1, <2>2 DEF ReadSoFar, Submitted
  <2>4. Filled(ch) => Filled(ch)'
    BY <2>1, <2>2, <2>3 DEF Filled, Held
  <2> QED
    BY <2>1, <2>2, <2>4 DEF Channel, Queued, Submitting
<1>7. CASE RequestStop(ch)
  <2>1. reader'[ch].pc \in {"done", "join"} /\ UNCHANGED <<qs, pairs, worker>>
    BY <1>0, <1>7 DEF RequestStop, ReaderGoes, Readers
  <2> QED
    BY <2>1, ChannelLeft
<1>8. CASE JoinWorker(ch)
  <2>1. reader'[ch].pc = "done" /\ UNCHANGED <<qs, pairs, worker>>
    BY <1>0, <1>8 DEF JoinWorker, ReaderGoes, Readers
  <2> QED
    BY <2>1, ChannelLeft
<1> QED
  BY <1>1, <1>2, <1>3, <1>4, <1>5, <1>6, <1>7, <1>8 DEF ReaderStep

\* The core and the readers keep the order, and finish no pair.
LEMMA OrderChannels ==
  ASSUME TsTypeOK, InOrder, NEW ch \in Channels, Event(ch) \/ Accept(ch) \/ ReaderStep(ch)
  PROVE  InOrder' /\ UNCHANGED <<pairs, worker>>
<1> USE DEF coreVars, optVars, aggVars
<1>1. UNCHANGED <<pairs, worker>>
  <2>1. CASE Event(ch) \/ Accept(ch)
    BY <2>1, SMTT(60) DEF Event, Accept
  <2>2. CASE ReaderStep(ch)
    BY <2>2 DEF ReaderStep, StopSeen, OverflowSeen, ReadTimesOut, ReadStamp, Submit, CountStamp,
                RequestStop, JoinWorker
  <2> QED
    BY <2>1, <2>2
<1>2. ASSUME worker.pc # "exit", NEW d \in Channels PROVE Channel(d)'
  <2>0. Channel(d)
    BY <1>2 DEF InOrder
  <2>1. CASE Event(ch) \/ Accept(ch)
    BY <2>0, <2>1, ChannelEvent, ChannelAccept
  <2>2. CASE ReaderStep(ch) /\ d # ch
    BY <1>1, <2>0, <2>2, OtherReaders, ChannelSame DEF Taken
  <2>3. CASE ReaderStep(ch) /\ d = ch
    BY <2>0, <2>3, ChannelReader
  <2> QED
    BY <2>1, <2>2, <2>3
<1> QED
  BY <1>1, <1>2 DEF InOrder, InTask

\* What the worker takes and finishes was submitted before.
LEMMA SubmittedTake ==
  ASSUME TsTypeOK, NEW ch \in Channels, TakePair \/ TaskReturns
  PROVE  Submitted(ch)' = Submitted(ch)
<1>0. Len(pairs) \in Nat /\ qs[ch] \in Seq(Stamp)
  BY DEF TsTypeOK, AggTypes
<1>1. CASE TakePair
  <2>1. /\ Len(qs[ch]) \in Int /\ Len(qs'[ch]) = Len(qs[ch]) - 1
        /\ Taken \in Int /\ Taken' = Taken + 1
    BY <1>0, <1>1 DEF TakePair, HasPair, Taken, TsTypeOK, AggTypes
  <2>2. \A t, n \in Int : (t + 1) + (n - 1) = t + n
    OBVIOUS
  <2> QED
    BY <2>1, <2>2 DEF Submitted
<1>2. CASE TaskReturns
  <2>1. Len(pairs') = Len(pairs) + 1
    BY <1>0, <1>2 DEF TaskReturns, TsTypeOK, AggTypes
  <2>2. Taken' = Taken
    BY <1>0, <1>2, <2>1 DEF TaskReturns, Taken, TsTypeOK, AggTypes
  <2> QED
    BY <1>2, <2>2 DEF TaskReturns, Submitted
<1> QED
  BY <1>1, <1>2

\* The worker takes the first of each queue.
LEMMA OrderTake ==
  ASSUME TsTypeOK, InOrder, TakePair
  PROVE  InOrder' /\ UNCHANGED pairs
<1>0. /\ UNCHANGED <<pairs, tool, events, words, held, overflow, reader>>
      /\ worker.pc = "wait" /\ worker'.pc = "task" /\ Len(pairs) \in Nat
  BY DEF TakePair, coreVars, optVars, TsTypeOK, AggTypes
<1>1. Taken = Len(pairs) /\ Taken' = Taken + 1 /\ Taken \in Nat
  BY <1>0 DEF Taken
<1>2. ASSUME NEW ch \in Channels
      PROVE  Channel(ch)' /\ Head(qs[ch]) = Taken + 1
  <2>0. qs[ch] \in Seq(Stamp) /\ qs[ch] # <<>> /\ qs'[ch] = Tail(qs[ch]) /\ Channel(ch)
    BY <1>0 DEF TakePair, HasPair, TsTypeOK, AggTypes, InOrder
  <2>1. /\ Len(qs[ch]) \in Nat \ {0} /\ Len(qs'[ch]) = Len(qs[ch]) - 1 /\ Head(qs[ch]) = qs[ch][1]
        /\ \A i \in 1 .. Len(qs'[ch]) : qs'[ch][i] = qs[ch][i + 1]
    BY <2>0
  <2>2. Head(qs[ch]) = Taken + 1
    BY <2>0, <2>1 DEF Channel, Queued
  <2>3. Queued(ch)'
    <3>1. \A i \in 1 .. Len(qs'[ch]) : qs[ch][i + 1] = Taken + (i + 1)
      BY <2>0, <2>1 DEF Channel, Queued
    <3>2. \A i \in 1 .. Len(qs'[ch]) : Taken + (i + 1) = Taken' + i
      BY <1>1, <2>1
    <3> QED
      BY <2>1, <3>1, <3>2 DEF Queued
  <2>4. Submitted(ch)' = Submitted(ch)
    BY SubmittedTake
  <2>5. ReadSoFar(ch)' = ReadSoFar(ch) /\ Held(ch)' = Held(ch)
    BY <1>0, <2>4 DEF ReadSoFar, Held
  <2>6. Submitting(ch)' /\ (Filled(ch) => Filled(ch)')
    BY <1>0, <2>0, <2>4, <2>5 DEF Channel, Submitting, Filled
  <2> QED
    BY <1>0, <2>0, <2>2, <2>3, <2>6 DEF Channel
<1>3. worker'.pair = <<Len(pairs) + 1, Len(pairs) + 1>>
  BY <1>1, <1>2 DEF TakePair, Channels
<1> QED
  BY <1>0, <1>2, <1>3 DEF InOrder, InTask

\* The task returns: one more pair, of the numbers that were due.
LEMMA OrderReturn ==
  ASSUME TsTypeOK, InOrder, PairsMatch, TaskReturns
  PROVE  InOrder' /\ PairsMatch'
<1>0. /\ UNCHANGED <<qs, tool, events, words, held, overflow, reader>>
      /\ worker.pc = "task" /\ worker'.pc = "wait"
  BY DEF TaskReturns, coreVars, optVars, TsTypeOK, AggTypes
<1>1. /\ pairs \in Seq(Stamp \X Stamp) /\ worker.pair \in Stamp \X Stamp
      /\ pairs' = Append(pairs, worker.pair)
      /\ worker.pair = <<Len(pairs) + 1, Len(pairs) + 1>>
  BY <1>0 DEF TaskReturns, TsTypeOK, AggTypes, InOrder, InTask
<1>2. Len(pairs') = Len(pairs) + 1 /\ Len(pairs) \in Nat
  BY <1>1
<1>3. Taken' = Taken
  BY <1>0, <1>2 DEF Taken
<1>4. PairsMatch'
  BY <1>1 DEF PairsMatch
<1>5. \A ch \in Channels : Channel(ch)'
  BY <1>0, <1>3, ChannelSame DEF InOrder
<1> QED
  BY <1>0, <1>4, <1>5 DEF InOrder, InTask

\* Only a channel that is read has a reader.
LEMMA ReaderActive ==
  ASSUME IdleUnread, NEW ch \in Channels, ReaderStep(ch)
  PROVE  ch \in active
<1>1. reader[ch].pc = "wait" => ch \in active
  BY DEF ReaderStep, StopSeen, OverflowSeen, ReadTimesOut, ReadStamp, Reading, Submit,
         CountStamp, RequestStop, JoinWorker
<1>2. reader[ch].pc # "wait" => ch \in active
  BY DEF IdleUnread, NewReader
<1> QED
  BY <1>1, <1>2

\* Only ppgpsdo has a worker.
LEMMA WorkerOfGpsdo ==
  ASSUME NoAggregator, WorkerStep \/ TaskThrows
  PROVE  tool # "ppts"
<1>0. tool = "ppts" => worker.pc = "wait" /\ ~stopping /\ ~HasPair
  BY DEF NoAggregator, HasPair, Both, Channels
<1>1. CASE WorkerExits
  BY <1>0, <1>1 DEF WorkerExits
<1>2. CASE TakePair
  BY <1>0, <1>2 DEF TakePair
<1>3. CASE TaskReturns \/ TaskThrows
  BY <1>0, <1>3 DEF TaskReturns, TaskThrows
<1> QED
  BY <1>1, <1>2, <1>3 DEF WorkerStep

\* ppts has no aggregator, and an unread channel no reader.
LEMMA NoAggregatorStep ==
  ASSUME TsTypeOK, NoAggregator, IdleUnread, [TsNext]_tsVars
  PROVE  NoAggregator' /\ IdleUnread'
<1> USE DEF coreVars, optVars, aggVars
<1>0. reader \in [Channels -> Readers]
  BY DEF TsTypeOK
<1>1. ASSUME NEW ch \in Channels, Event(ch) \/ Accept(ch)
      PROVE  NoAggregator' /\ IdleUnread'
  BY <1>1 DEF Event, Accept, NoAggregator, IdleUnread
<1>2. ASSUME NEW ch \in Channels, ReaderStep(ch)
      PROVE  NoAggregator' /\ IdleUnread'
  <2>1. ch \in active /\ UNCHANGED <<active, tool, worker, pairs, tmain>>
    BY <1>2, ReaderActive, ZenonT(60) DEF ReaderStep, StopSeen, OverflowSeen, ReadTimesOut, ReadStamp,
                              Submit, CountStamp, RequestStop, JoinWorker
  <2>2. \A d \in Channels \ {ch} : reader'[d] = reader[d]
    BY <1>2, OtherReaders
  <2>3. IdleUnread'
    BY <2>1, <2>2 DEF IdleUnread, NewReader
  <2>4. CASE tool = "ppts"
    <3>0. reader[ch].pc \notin {"submit", "request_stop", "join"}
      BY <2>4 DEF NoAggregator
    <3>1. reader'[ch].pc \notin {"submit", "request_stop", "join"} /\ UNCHANGED <<qs, stopping>>
      BY <1>0, <1>2, <2>4, <3>0, ZenonT(60) DEF ReaderStep, StopSeen, OverflowSeen, ReadTimesOut, ReadStamp,
                      Submit, CountStamp, RequestStop, JoinWorker, Throws, ReaderGoes, Readers
    <3> QED
      BY <2>1, <2>2, <2>3, <2>4, <3>1 DEF NoAggregator
  <2>5. CASE tool # "ppts"
    BY <2>1, <2>3, <2>5 DEF NoAggregator
  <2> QED
    BY <2>4, <2>5, SMTT(60)
<1>3. CASE WorkerStep \/ TaskThrows
  <2>1. tool # "ppts" /\ UNCHANGED <<tool, active, reader>>
    BY <1>3, WorkerOfGpsdo DEF WorkerStep, WorkerExits, TakePair, TaskReturns, TaskThrows
  <2> QED
    BY <2>1 DEF NoAggregator, IdleUnread
<1>4. CASE MainStep
  <2>1. /\ UNCHANGED <<tool, active, reader, qs, pairs, worker>>
        /\ stopping' = stopping \/ tmain = "stop"
        /\ tool = "ppts" /\ tmain \notin {"stop", "join_worker"}
             => tmain' \notin {"stop", "join_worker"}
    <3>1. CASE JoinReaders
      BY <3>1 DEF JoinReaders
    <3>2. CASE StopAggregator
      BY <3>2 DEF StopAggregator
    <3>3. CASE MainJoinsWorker \/ ReturnCode
      BY <3>3 DEF MainJoinsWorker, ReturnCode
    <3> QED
      BY <1>4, <3>1, <3>2, <3>3 DEF MainStep
  <2> QED
    BY <2>1 DEF NoAggregator, IdleUnread
<1>5. CASE UNCHANGED tsVars
  BY <1>5 DEF tsVars, NoAggregator, IdleUnread
<1> QED
  BY <1>1, <1>2, <1>3, <1>4, <1>5 DEF TsNext

\* Every step keeps the stamps in order and the pairs matched.
LEMMA OrderStep ==
  ASSUME TsTypeOK, InOrder, PairsMatch, [TsNext]_tsVars
  PROVE  InOrder' /\ PairsMatch'
<1>1. ASSUME NEW ch \in Channels, Event(ch) \/ Accept(ch) \/ ReaderStep(ch)
      PROVE  InOrder' /\ PairsMatch'
  BY <1>1, OrderChannels DEF PairsMatch
<1>2. CASE WorkerExits \/ TaskThrows
  BY <1>2 DEF WorkerExits, TaskThrows, InOrder, PairsMatch, TsTypeOK, AggTypes
<1>3. CASE TakePair
  BY <1>3, OrderTake DEF PairsMatch
<1>4. CASE TaskReturns
  BY <1>4, OrderReturn
<1>5. CASE MainStep \/ UNCHANGED tsVars
  <2>1. UNCHANGED <<tool, qs, events, words, held, overflow, reader, pairs, worker>>
    BY <1>5 DEF MainStep, JoinReaders, StopAggregator, MainJoinsWorker, ReturnCode, tsVars,
                coreVars, optVars, aggVars
  <2>2. ASSUME NEW d \in Channels PROVE Channel(d) => Channel(d)'
    BY <2>1, ChannelSame DEF Taken
  <2> QED
    BY <2>1, <2>2 DEF InOrder, InTask, PairsMatch
<1> QED
  BY <1>1, <1>2, <1>3, <1>4, <1>5 DEF TsNext, WorkerStep

\* At start nothing is read, so nothing is out of order.
LEMMA PairStart == TsInit => PairInv
<1> SUFFICES ASSUME TsInit PROVE PairInv
  OBVIOUS
<1>1. TsTypeOK /\ NoAggregator /\ IdleUnread /\ PairsMatch
  <2>1. TsTypeOK
    BY TypeStart
  <2>2. NoAggregator
    BY DEF TsInit, NoAggregator, Both, NewReader
  <2>3. IdleUnread
    BY DEF TsInit, IdleUnread, Both
  <2>4. PairsMatch
    BY DEF TsInit, PairsMatch
  <2> QED
    BY <2>1, <2>2, <2>3, <2>4
<1>2. InTask /\ \A ch \in Channels : Queued(ch) /\ Submitting(ch)
  BY DEF TsInit, InTask, Queued, Submitting, Both, NewReader
<1>3. ASSUME NEW ch \in Channels PROVE Filled(ch)
  <2>1. /\ events[ch] = 0 /\ held[ch] = 0 /\ words[ch] = <<>> /\ qs[ch] = <<>> /\ pairs = <<>>
        /\ reader[ch].pc = "wait" /\ worker.pc = "wait"
    BY DEF TsInit, Both, NewReader
  <2>2. Held(ch) = 0 /\ ReadSoFar(ch) = 0
    BY <2>1 DEF Held, ReadSoFar, Submitted, Taken
  <2> QED
    BY <2>1, <2>2 DEF Filled
<1> QED
  BY <1>1, <1>2, <1>3 DEF PairInv, InOrder, Channel

\* Every step keeps the stamps in order and paired.
LEMMA PairStep == PairInv /\ [TsNext]_tsVars => PairInv'
BY TypeStep, NoAggregatorStep, OrderStep DEF PairInv

\* Every stamp is where the invariant says, in every reachable state.
THEOREM StampsInOrder == TsSpec => []PairInv
BY PairStart, PairStep, PTL DEF TsSpec

\* The control loop of ppgpsdo is called with the k-th stamp of one channel
\* and the k-th of the other.
THEOREM PairsAlwaysMatch == TsSpec => []PairsMatch
BY StampsInOrder, PTL DEF PairInv
-----------------------------------------------------------------------------
(***************************************************************************)
(* The return code.  A reader that is stopped owes that to a failure       *)
(* elsewhere, and a worker that left without one has drained the queues.   *)
(***************************************************************************)
FailedLeft ==
  \A ch \in Channels :
    /\ Failure(ch) # "none" => reader[ch].pc \in {"request_stop", "join", "done"}
    /\ reader[ch].pc \in {"request_stop", "join"} => Failure(ch) # "none"
Caused ==
  stop_requested \/ (stopping /\ tmain = "join") \/ ~drain \/ ReaderFailed => real_failure
JoinedDone == tmain # "join" => \A ch \in active : reader[ch].pc = "done"
CodeWaits == tool = "ppgpsdo" /\ tmain \in {"code", "returned"} => worker.pc = "exit"
DoneCounted ==
  \A ch \in active : reader[ch].pc = "done" /\ Failure(ch) = "none" => nr # 0 /\ reader[ch].ctr = nr
Counted ==
  tool = "ppgpsdo" /\ worker.pc # "exit" /\ nr # 0 =>
    \A ch \in Channels :
      Failure(ch) = "none" =>
        reader[ch].ctr + (IF reader[ch].pc = "count" THEN 1 ELSE 0) = Submitted(ch)
Drained == worker.pc = "exit" /\ ~real_failure => tmain # "join" /\ Len(pairs) = nr
Code == (UNION {ReaderCode(ch) : ch \in Channels}) \cup timestamp_reader_rc(agg_failure)
CodeKept == tmain = "returned" => result = Code

CauseInv ==
  /\ FailedLeft /\ Caused /\ JoinedDone /\ CodeWaits /\ DoneCounted /\ Counted /\ Drained
  /\ CodeKept

\* What a reader's step leaves alone.
LEMMA ReaderKeeps ==
  ASSUME TsTypeOK, NEW ch \in Channels, ReaderStep(ch)
  PROVE  /\ UNCHANGED <<tool, nr, active, agg_failure, tmain, pairs, result, worker>>
         /\ \A d \in Channels \ {ch} : reader'[d] = reader[d] /\ qs'[d] = qs[d]
         /\ reader[ch].pc # "done"
<1>1. /\ UNCHANGED <<tool, nr, active, agg_failure, tmain, pairs, result, worker>>
      /\ reader[ch].pc # "done"
  BY DEF ReaderStep, StopSeen, OverflowSeen, ReadTimesOut, ReadStamp, Reading, Submit, CountStamp,
         RequestStop, JoinWorker, optVars, aggVars
<1> QED
  BY <1>1, OtherReaders

\* A reader fails, and knows why when it was stopped; or it goes on as it is,
\* and asks the others to stop only after a failure.
LEMMA ReaderFailure ==
  ASSUME TsTypeOK, FailedLeft, NEW ch \in Channels, ReaderStep(ch)
  PROVE  \/ /\ Failure(ch) = "none" /\ Failure(ch)' # "none"
            /\ Failure(ch)' = "stopped" => stop_requested \/ stopping
            /\ reader'[ch].pc \in {"request_stop", "done"}
            /\ reader'[ch].ctr = reader[ch].ctr
            /\ UNCHANGED <<stop_requested, stopping, drain>>
         \/ /\ Failure(ch)' = Failure(ch)
            /\ reader'[ch].pc \in {"request_stop", "join"} => Failure(ch) # "none"
            /\ Failure(ch) # "none" => reader'[ch].pc \in {"join", "done"}
            /\ UNCHANGED <<stop_requested, stopping, drain>> \/ Failure(ch) # "none"
<1> DEFINE ReaderFails(f) == Throws(ch, f) /\ UNCHANGED <<stop_requested, stopping, drain>>
<1>0. /\ reader \in [Channels -> Readers]
      /\ reader[ch].pc \notin {"request_stop", "join", "done"} => Failure(ch) = "none"
      /\ reader[ch].pc \in {"request_stop", "join"} => Failure(ch) # "none"
  BY DEF TsTypeOK, FailedLeft
<1>a. ASSUME NEW f \in {"overflow", "timeout", "stopped"}, ReaderFails(f),
             reader[ch].pc \in {"wait", "submit"}, f = "stopped" => stop_requested \/ stopping
      PROVE  /\ Failure(ch) = "none" /\ Failure(ch)' # "none"
             /\ Failure(ch)' = "stopped" => stop_requested \/ stopping
             /\ reader'[ch].pc \in {"request_stop", "done"}
             /\ reader'[ch].ctr = reader[ch].ctr
             /\ UNCHANGED <<stop_requested, stopping, drain>>
  <2>1. reader'[ch].ctr = reader[ch].ctr
    BY <1>0, <1>a DEF Throws, ReaderGoes, Readers
  <2> QED
    BY <1>0, <1>a, <2>1, ThrowsLeaves DEF Failure
<1>1. CASE StopSeen(ch)
  BY <1>1, <1>a DEF StopSeen, Reading, aggVars
<1>2. CASE OverflowSeen(ch)
  BY <1>2, <1>a DEF OverflowSeen, Reading, aggVars
<1>3. CASE ReadTimesOut(ch)
  BY <1>3, <1>a DEF ReadTimesOut, Reading, aggVars
<1>4. CASE ReadStamp(ch)
  BY <1>0, <1>4 DEF ReadStamp, Reading, ReaderGoes, Readers, Failure, aggVars
<1>5. CASE Submit(ch) /\ stopping
  BY <1>5, <1>a DEF Submit
<1>6. CASE Submit(ch) /\ ~stopping
  BY <1>0, <1>6 DEF Submit, ReaderGoes, Readers, Failure
<1>7. CASE CountStamp(ch)
  BY <1>0, <1>7 DEF CountStamp, ReaderGoes, Readers, Failure, aggVars
<1>8. CASE RequestStop(ch)
  BY <1>0, <1>8 DEF RequestStop, ReaderGoes, Readers, Failure
<1>9. CASE JoinWorker(ch)
  BY <1>0, <1>9 DEF JoinWorker, ReaderGoes, Readers, Failure, aggVars
<1> QED
  BY <1>1, <1>2, <1>3, <1>4, <1>5, <1>6, <1>7, <1>8, <1>9 DEF ReaderStep

\* What a step of the worker does to the flags.
LEMMA WorkerKeeps ==
  ASSUME TsTypeOK, WorkerStep \/ TaskThrows
  PROVE  /\ UNCHANGED <<tool, nr, active, tmain, result, reader, stop_requested>>
         /\ worker.pc # "exit"
         /\ \/ /\ UNCHANGED <<stopping, drain, agg_failure>>
               /\ worker'.pc = "exit" => WorkerExits
            \/ agg_failure' # "none" /\ worker'.pc = "exit"
<1>1. CASE WorkerExits
  BY <1>1 DEF WorkerExits, optVars
<1>2. CASE TakePair
  BY <1>2 DEF TakePair, optVars
<1>3. CASE TaskReturns
  BY <1>3 DEF TaskReturns, optVars, TsTypeOK, AggTypes
<1>4. CASE TaskThrows
  BY <1>4 DEF TaskThrows, Thrown, optVars, TsTypeOK, AggTypes
<1> QED
  BY <1>1, <1>2, <1>3, <1>4 DEF WorkerStep

\* What a step of the main thread does to the flags.
LEMMA MainKeeps ==
  ASSUME TsTypeOK, MainStep
  PROVE  /\ UNCHANGED <<tool, nr, active, reader, agg_failure, qs, pairs, worker, stop_requested>>
         /\ \/ JoinReaders /\ UNCHANGED <<stopping, drain>>
            \/ StopAggregator
            \/ MainJoinsWorker /\ UNCHANGED <<stopping, drain>>
            \/ ReturnCode /\ UNCHANGED <<stopping, drain>>
         /\ tmain' # "join"
<1>1. CASE JoinReaders
  BY <1>1 DEF JoinReaders, optVars, aggVars
<1>2. CASE StopAggregator
  BY <1>2 DEF StopAggregator, optVars, aggVars
<1>3. CASE MainJoinsWorker
  BY <1>3 DEF MainJoinsWorker, optVars, aggVars
<1>4. CASE ReturnCode
  BY <1>4 DEF ReturnCode, optVars, aggVars
<1> QED
  BY <1>1, <1>2, <1>3, <1>4 DEF MainStep

\* The core's steps and stuttering touch none of it.
FlagVars == <<tool, nr, active, agg_failure, tmain, pairs, result, worker, reader, qs, stopping,
              drain, stop_requested>>
\* An edge at an input and its entry into the hardware FIFO touch no flag of the program.
LEMMA CoreKeeps ==
  ASSUME UNCHANGED tsVars \/ \E ch \in Channels : Event(ch) \/ Accept(ch)
  PROVE  UNCHANGED FlagVars
BY DEF tsVars, Event, Accept, optVars, aggVars, FlagVars

\* A failure is never forgotten.
LEMMA FailureStays ==
  ASSUME TsTypeOK, FailedLeft, [TsNext]_tsVars
  PROVE  /\ \A ch \in Channels : Failure(ch) # "none" => Failure(ch)' = Failure(ch)
         /\ agg_failure # "none" => agg_failure' # "none"
         /\ real_failure => real_failure'
<1>1. /\ \A ch \in Channels : Failure(ch) # "none" => Failure(ch)' = Failure(ch)
      /\ agg_failure # "none" => agg_failure' # "none"
  <2>1. ASSUME NEW ch \in Channels, ReaderStep(ch)
        PROVE  /\ \A d \in Channels : Failure(d) # "none" => Failure(d)' = Failure(d)
               /\ agg_failure # "none" => agg_failure' # "none"
    BY <2>1, ReaderKeeps, ReaderFailure DEF Failure
  <2>2. CASE WorkerStep \/ TaskThrows
    BY <2>2, WorkerKeeps DEF Failure
  <2>3. CASE MainStep
    BY <2>3, MainKeeps DEF Failure
  <2>4. CASE UNCHANGED tsVars \/ \E ch \in Channels : Event(ch) \/ Accept(ch)
    BY <2>4, CoreKeeps DEF Failure, FlagVars
  <2> QED
    BY <2>1, <2>2, <2>3, <2>4 DEF TsNext
<1> QED
  BY <1>1 DEF real_failure, Cancelled

\* A reader that failed has left its loop, ...
LEMMA FailedLeftStep ==
  ASSUME TsTypeOK, FailedLeft, [TsNext]_tsVars
  PROVE  FailedLeft'
<1>1. ASSUME NEW ch \in Channels, ReaderStep(ch) PROVE FailedLeft'
  <2>1. \A d \in Channels \ {ch} : reader'[d] = reader[d]
    BY <1>1, ReaderKeeps
  <2>2. /\ Failure(ch)' # "none" => reader'[ch].pc \in {"request_stop", "join", "done"}
        /\ reader'[ch].pc \in {"request_stop", "join"} => Failure(ch)' # "none"
    BY <1>1, ReaderFailure
  <2> QED
    BY <2>1, <2>2 DEF FailedLeft, Failure
<1>2. CASE WorkerStep \/ TaskThrows
  BY <1>2, WorkerKeeps DEF FailedLeft, Failure
<1>3. CASE MainStep
  BY <1>3, MainKeeps DEF FailedLeft, Failure
<1>4. CASE UNCHANGED tsVars \/ \E ch \in Channels : Event(ch) \/ Accept(ch)
  BY <1>4, CoreKeeps DEF FailedLeft, Failure, FlagVars
<1> QED
  BY <1>1, <1>2, <1>3, <1>4 DEF TsNext

\* ... and stays out of it when the main thread has joined it.
LEMMA ReaderBeforeJoin ==
  ASSUME TsTypeOK, IdleUnread, JoinedDone, NEW ch \in Channels, ReaderStep(ch)
  PROVE  tmain = "join"
BY ReaderActive, ReaderKeeps DEF JoinedDone

\* A thread that was joined has ended, through every step.
LEMMA JoinedDoneStep ==
  ASSUME TsTypeOK, IdleUnread, JoinedDone, [TsNext]_tsVars
  PROVE  JoinedDone'
<1>1. ASSUME NEW ch \in Channels, ReaderStep(ch) PROVE JoinedDone'
  BY <1>1, ReaderBeforeJoin, ReaderKeeps DEF JoinedDone
<1>2. CASE WorkerStep \/ TaskThrows
  BY <1>2, WorkerKeeps DEF JoinedDone
<1>3. CASE MainStep
  <2>1. CASE JoinReaders
    BY <1>3, <2>1, MainKeeps DEF JoinedDone, JoinReaders
  <2>2. CASE ~JoinReaders
    <3>1. tmain # "join"
      BY <1>3, <2>2, MainKeeps DEF StopAggregator, MainJoinsWorker, ReturnCode
    <3> QED
      BY <1>3, <3>1, MainKeeps DEF JoinedDone
  <2> QED
    BY <2>1, <2>2
<1>4. CASE UNCHANGED tsVars \/ \E ch \in Channels : Event(ch) \/ Accept(ch)
  BY <1>4, CoreKeeps DEF JoinedDone, FlagVars
<1> QED
  BY <1>1, <1>2, <1>3, <1>4 DEF TsNext

\* Whoever stops has a failure behind it.
LEMMA CausedStep ==
  ASSUME TsTypeOK, IdleUnread, FailedLeft, JoinedDone, Caused, [TsNext]_tsVars
  PROVE  Caused'
<1>0. real_failure => real_failure'
  BY FailureStays
<1>1. ASSUME NEW ch \in Channels, ReaderStep(ch) PROVE Caused'
  <2>0. /\ tmain = "join" /\ UNCHANGED tmain
        /\ \A d \in Channels \ {ch} : Failure(d)' = Failure(d)
    BY <1>1, ReaderBeforeJoin, ReaderKeeps DEF Failure
  <2>1. CASE Failure(ch) = "none" /\ Failure(ch)' # "none"
    <3>1. CASE Failure(ch)' = "stopped"
      BY <1>0, <1>1, <2>0, <2>1, <3>1, ReaderFailure DEF Caused
    <3>2. CASE Failure(ch)' # "stopped"
      BY <2>1, <3>2 DEF Caused, real_failure, Cancelled
    <3> QED
      BY <3>1, <3>2
  <2>2. CASE Failure(ch)' = Failure(ch)
    <3>1. ReaderFailed' = ReaderFailed
      BY <2>0, <2>2 DEF ReaderFailed
    <3>2. UNCHANGED <<stop_requested, stopping, drain>> \/ ReaderFailed
      BY <1>1, <2>2, ReaderFailure DEF ReaderFailed
    <3> QED
      BY <1>0, <2>0, <3>1, <3>2 DEF Caused
  <2> QED
    BY <1>1, <2>1, <2>2, ReaderFailure
<1>2. CASE WorkerStep \/ TaskThrows
  <2>1. CASE agg_failure' # "none"
    BY <2>1 DEF Caused, real_failure
  <2>2. CASE agg_failure' = "none"
    BY <1>0, <1>2, <2>2, WorkerKeeps DEF Caused, ReaderFailed, Failure
  <2> QED
    BY <2>1, <2>2
<1>3. CASE MainStep
  <2>1. tmain' # "join" /\ UNCHANGED <<reader, stop_requested>>
    BY <1>3, MainKeeps
  <2>2. ~drain' => ~drain
    BY <1>3, MainKeeps DEF StopAggregator
  <2> QED
    BY <1>0, <2>1, <2>2 DEF Caused, ReaderFailed, Failure
<1>4. CASE UNCHANGED tsVars \/ \E ch \in Channels : Event(ch) \/ Accept(ch)
  BY <1>0, <1>4, CoreKeeps DEF Caused, ReaderFailed, Failure, FlagVars
<1> QED
  BY <1>1, <1>2, <1>3, <1>4 DEF TsNext

\* A reader without a failure leaves its loop after nr stamps.
LEMMA DoneCountedStep ==
  ASSUME TsTypeOK, FailedLeft, DoneCounted, [TsNext]_tsVars
  PROVE  DoneCounted'
<1>1. ASSUME NEW ch \in Channels, ReaderStep(ch) PROVE DoneCounted'
  <2>1. UNCHANGED <<active, nr>> /\ \A d \in Channels \ {ch} : reader'[d] = reader[d]
    BY <1>1, ReaderKeeps
  <2>2. ASSUME reader'[ch].pc = "done", Failure(ch)' = "none"
        PROVE  nr # 0 /\ reader'[ch].ctr = nr
    <3>1. Failure(ch) = "none" /\ reader[ch].pc \notin {"request_stop", "join"}
      BY <1>1, <2>2, ReaderFailure DEF FailedLeft
    <3>2. reader \in [Channels -> Readers]
      BY DEF TsTypeOK
    <3>3. CASE ReadStamp(ch)
      BY <2>2, <3>2, <3>3 DEF ReadStamp, ReaderGoes, Readers
    <3>4. CASE Submit(ch) /\ ~stopping
      BY <2>2, <3>2, <3>4 DEF Submit, ReaderGoes, Readers
    <3>5. CASE CountStamp(ch)
      BY <2>2, <3>2, <3>5 DEF CountStamp, ReaderGoes, Readers
    <3>6. ASSUME NEW f \in {"stopped", "overflow", "timeout"}, Throws(ch, f) PROVE FALSE
      BY <2>2, <3>2, <3>6, ThrowsLeaves DEF Failure
    <3> QED
      BY <1>1, <3>1, <3>3, <3>4, <3>5, <3>6 DEF ReaderStep, StopSeen, OverflowSeen, ReadTimesOut,
                                                Submit, RequestStop, JoinWorker
  <2>3. active \subseteq Channels
    BY DEF TsTypeOK, OptionTypes
  <2> QED
    BY <2>1, <2>2, <2>3 DEF DoneCounted, Failure
<1>2. CASE WorkerStep \/ TaskThrows
  BY <1>2, WorkerKeeps DEF DoneCounted, Failure
<1>3. CASE MainStep
  BY <1>3, MainKeeps DEF DoneCounted, Failure
<1>4. CASE UNCHANGED tsVars \/ \E ch \in Channels : Event(ch) \/ Accept(ch)
  BY <1>4, CoreKeeps DEF DoneCounted, Failure, FlagVars
<1> QED
  BY <1>1, <1>2, <1>3, <1>4 DEF TsNext

\* A reader without a failure counts what it submits.
CountedOf(ch) ==
  Failure(ch) = "none" =>
    reader[ch].ctr + (IF reader[ch].pc = "count" THEN 1 ELSE 0) = Submitted(ch)

\* A reader counts each stamp it hands over.
LEMMA CountedReader ==
  ASSUME TsTypeOK, FailedLeft, tool = "ppgpsdo", nr # 0,
         NEW ch \in Channels, ReaderStep(ch), CountedOf(ch)
  PROVE  CountedOf(ch)'
<1> SUFFICES ASSUME Failure(ch)' = "none"
             PROVE  reader'[ch].ctr + (IF reader'[ch].pc = "count" THEN 1 ELSE 0) = Submitted(ch)'
  BY DEF CountedOf
<1>0. /\ Failure(ch) = "none" /\ reader[ch].pc \notin {"request_stop", "join"}
      /\ reader \in [Channels -> Readers]
  BY ReaderFailure DEF FailedLeft, TsTypeOK
<1>1. /\ reader[ch].ctr \in Nat /\ Submitted(ch) \in Nat
      /\ reader[ch].ctr + (IF reader[ch].pc = "count" THEN 1 ELSE 0) = Submitted(ch)
  BY <1>0, Counts DEF CountedOf, Readers
<1>2. CASE ReadStamp(ch)
  <2>1. /\ reader[ch].pc = "wait" /\ reader'[ch].pc = "submit" /\ reader'[ch].ctr = reader[ch].ctr
        /\ Submitted(ch)' = Submitted(ch)
    BY <1>0, <1>2 DEF ReadStamp, Reading, ReaderGoes, Readers, Submitted, Taken, aggVars
  <2> QED
    BY <1>1, <2>1
<1>3. CASE Submit(ch) /\ ~stopping
  <2>1. /\ reader[ch].pc = "submit" /\ reader'[ch].pc = "count" /\ reader'[ch].ctr = reader[ch].ctr
        /\ qs'[ch] = Append(qs[ch], reader[ch].stamp) /\ Taken' = Taken
    BY <1>0, <1>3 DEF Submit, ReaderGoes, Readers, Taken, TsTypeOK, AggTypes
  <2>2. qs[ch] \in Seq(Stamp) /\ reader[ch].stamp \in Stamp
    BY <1>0 DEF TsTypeOK, AggTypes, Readers
  <2>3. Len(qs'[ch]) = Len(qs[ch]) + 1 /\ Len(qs[ch]) \in Int /\ Taken \in Int
    BY <2>1, <2>2, Counts
  <2>4. Submitted(ch)' = Submitted(ch) + 1
    BY <2>1, <2>3 DEF Submitted
  <2> QED
    BY <1>1, <2>1, <2>4
<1>4. CASE CountStamp(ch)
  <2>1. /\ reader[ch].pc = "count" /\ reader'[ch].pc # "count"
        /\ reader'[ch].ctr = reader[ch].ctr + 1 /\ Submitted(ch)' = Submitted(ch)
    BY <1>0, <1>4 DEF CountStamp, ReaderGoes, Readers, Submitted, Taken, aggVars
  <2> QED
    BY <1>1, <2>1
<1>5. ASSUME NEW f \in {"stopped", "overflow", "timeout"}, Throws(ch, f) PROVE FALSE
  BY <1>0, <1>5, ThrowsLeaves DEF Failure
<1> QED
  BY <1>0, <1>2, <1>3, <1>4, <1>5 DEF ReaderStep, StopSeen, OverflowSeen, ReadTimesOut, Submit,
                                      RequestStop, JoinWorker

\* What another thread does leaves a reader's count alone.
LEMMA CountedSame ==
  ASSUME NEW d, CountedOf(d), UNCHANGED reader[d], Submitted(d)' = Submitted(d)
  PROVE  CountedOf(d)'
BY DEF CountedOf, Failure

\* Every step keeps the counts equal to what was handed over.
LEMMA CountedStep ==
  ASSUME TsTypeOK, FailedLeft, Counted, [TsNext]_tsVars
  PROVE  Counted'
<1> SUFFICES ASSUME (tool = "ppgpsdo" /\ worker.pc # "exit" /\ nr # 0)', NEW d \in Channels
             PROVE  CountedOf(d)'
  BY DEF Counted, CountedOf
<1>1. ASSUME NEW ch \in Channels, ReaderStep(ch) PROVE CountedOf(d)'
  <2>1. /\ UNCHANGED <<tool, nr, worker, pairs>>
        /\ d # ch => UNCHANGED <<reader[d], qs[d]>>
        /\ CountedOf(d)
    BY <1>1, ReaderKeeps DEF Counted, CountedOf
  <2>2. CASE d = ch
    <3>1. CountedOf(ch)'
      BY <1>1, <2>1, <2>2, CountedReader
    <3> QED
      BY <2>2, <3>1 DEF CountedOf, Failure, Submitted
  <2>3. CASE d # ch
    <3>1. Submitted(d)' = Submitted(d)
      BY <2>1, <2>3 DEF Submitted, Taken
    <3> QED
      BY <2>1, <2>3, <3>1, CountedSame
  <2> QED
    BY <2>2, <2>3
<1>2. CASE WorkerStep \/ TaskThrows
  <2>1. CountedOf(d) /\ UNCHANGED reader
    BY <1>2, WorkerKeeps DEF Counted, CountedOf
  <2>2. TakePair \/ TaskReturns
    BY <1>2 DEF WorkerStep, WorkerExits, TaskThrows, TsTypeOK, AggTypes
  <2> QED
    BY <2>1, <2>2, SubmittedTake DEF CountedOf, Failure
<1>3. CASE MainStep
  <2>1. UNCHANGED <<tool, nr, worker, pairs, reader, qs>>
    BY <1>3, MainKeeps
  <2>2. CountedOf(d) /\ Submitted(d)' = Submitted(d)
    BY <2>1 DEF Counted, CountedOf, Submitted, Taken
  <2> QED
    BY <2>1, <2>2, CountedSame
<1>4. CASE UNCHANGED tsVars \/ \E ch \in Channels : Event(ch) \/ Accept(ch)
  <2>1. UNCHANGED <<tool, nr, worker, pairs, reader, qs>>
    BY <1>4, CoreKeeps DEF FlagVars
  <2>2. CountedOf(d) /\ Submitted(d)' = Submitted(d)
    BY <2>1 DEF Counted, CountedOf, Submitted, Taken
  <2> QED
    BY <2>1, <2>2, CountedSame
<1> QED
  BY <1>1, <1>2, <1>3, <1>4 DEF TsNext

\* A worker that leaves with no failure behind it has taken nr pairs.
LEMMA ExitDrained ==
  ASSUME TsTypeOK, NoAggregator, Caused, JoinedDone, DoneCounted, Counted, WorkerExits,
         ~real_failure
  PROVE  tmain # "join" /\ Len(pairs) = nr
<1>1. /\ stopping /\ worker.pc = "wait"
      /\ ~drain \/ ~HasPair
      /\ tool = "ppgpsdo" /\ active = Channels
  BY WorkerOfGpsdo DEF WorkerExits, WorkerStep, TsTypeOK, OptionTypes
<1>2. /\ tmain # "join" /\ drain
      /\ \A ch \in Channels : Failure(ch) = "none"
  BY <1>1 DEF Caused, ReaderFailed
<1>3. \A ch \in Channels : reader[ch].pc = "done" /\ nr # 0 /\ reader[ch].ctr = nr
  BY <1>1, <1>2 DEF JoinedDone, DoneCounted
<1>4. PICK ch \in Channels : qs[ch] = <<>>
  BY <1>1, <1>2 DEF HasPair
<1>5. reader[ch].ctr = Submitted(ch) /\ reader[ch].ctr \in Nat
  BY <1>1, <1>2, <1>3 DEF Counted, TsTypeOK, Readers
<1>6. Submitted(ch) = Len(pairs)
  <2>1. Len(pairs) \in Int /\ Taken = Len(pairs) + 0
    BY <1>1 DEF Taken, TsTypeOK, AggTypes
  <2> QED
    BY <1>4, <2>1 DEF Submitted
<1> QED
  BY <1>2, <1>3, <1>5, <1>6

\* Every step keeps an aggregator that ended without failure drained.
LEMMA DrainedStep ==
  ASSUME TsTypeOK, NoAggregator, IdleUnread, FailedLeft, Caused, JoinedDone, DoneCounted, Counted,
         Drained, [TsNext]_tsVars
  PROVE  Drained'
<1> SUFFICES ASSUME ~real_failure', worker'.pc = "exit"
             PROVE  tmain' # "join" /\ Len(pairs') = nr'
  BY DEF Drained
<1>0. ~real_failure
  BY FailureStays
<1>1. ASSUME NEW ch \in Channels, ReaderStep(ch) PROVE tmain' # "join" /\ Len(pairs') = nr'
  BY <1>0, <1>1, ReaderKeeps DEF Drained
<1>2. CASE WorkerStep \/ TaskThrows
  <2>1. agg_failure' = "none"
    BY DEF real_failure
  <2>2. WorkerExits
    BY <1>2, <2>1, WorkerKeeps
  <2>3. UNCHANGED <<tmain, pairs, nr>>
    BY <2>2 DEF WorkerExits, optVars
  <2> QED
    BY <1>0, <2>2, <2>3, ExitDrained
<1>3. CASE MainStep
  BY <1>0, <1>3, MainKeeps DEF Drained
<1>4. CASE UNCHANGED tsVars \/ \E ch \in Channels : Event(ch) \/ Accept(ch)
  BY <1>0, <1>4, CoreKeeps DEF Drained, FlagVars
<1> QED
  BY <1>1, <1>2, <1>3, <1>4 DEF TsNext

\* The main thread makes the code when nothing runs any more, ...
LEMMA CodeWaitsStep ==
  ASSUME TsTypeOK, CodeWaits, [TsNext]_tsVars
  PROVE  CodeWaits'
<1>1. ASSUME NEW ch \in Channels, ReaderStep(ch) PROVE CodeWaits'
  BY <1>1, ReaderKeeps DEF CodeWaits
<1>2. CASE WorkerStep \/ TaskThrows
  BY <1>2, WorkerKeeps DEF CodeWaits
<1>3. CASE MainStep
  BY <1>3, MainKeeps DEF CodeWaits, JoinReaders, StopAggregator, MainJoinsWorker, ReturnCode
<1>4. CASE UNCHANGED tsVars \/ \E ch \in Channels : Event(ch) \/ Accept(ch)
  BY <1>4, CoreKeeps DEF CodeWaits, FlagVars
<1> QED
  BY <1>1, <1>2, <1>3, <1>4 DEF TsNext

\* ... so that what it was made of does not change.
LEMMA CodeKeptStep ==
  ASSUME TsTypeOK, NoAggregator, IdleUnread, JoinedDone, CodeWaits, CodeKept, [TsNext]_tsVars
  PROVE  CodeKept'
<1>0. UNCHANGED <<reader, agg_failure>> => Code' = Code
  BY DEF Code, ReaderCode, Cancelled, Failure, real_failure, timestamp_reader_rc
<1>1. ASSUME NEW ch \in Channels, ReaderStep(ch) PROVE CodeKept'
  BY <1>1, ReaderBeforeJoin, ReaderKeeps DEF CodeKept
<1>2. CASE WorkerStep \/ TaskThrows
  BY <1>2, WorkerOfGpsdo, WorkerKeeps DEF CodeKept, CodeWaits, TsTypeOK, OptionTypes
<1>3. CASE MainStep
  <2>1. UNCHANGED <<reader, agg_failure>>
    BY <1>3, MainKeeps
  <2>2. CASE ReturnCode
    BY <1>0, <2>1, <2>2 DEF ReturnCode, CodeKept, Code
  <2>3. CASE ~ReturnCode
    BY <1>3, <2>3, MainKeeps DEF CodeKept, JoinReaders, StopAggregator, MainJoinsWorker
  <2> QED
    BY <2>2, <2>3
<1>4. CASE UNCHANGED tsVars \/ \E ch \in Channels : Event(ch) \/ Accept(ch)
  BY <1>0, <1>4, CoreKeeps DEF CodeKept, FlagVars
<1> QED
  BY <1>1, <1>2, <1>3, <1>4 DEF TsNext

\* At start no failure and no result has to be explained.
LEMMA CauseStart == TsInit => CauseInv
<1> SUFFICES ASSUME TsInit PROVE CauseInv
  OBVIOUS
<1>1. \A ch \in Channels : reader[ch] = NewReader
  BY DEF TsInit, Both
<1>2. /\ FailedLeft /\ Caused /\ DoneCounted
  BY <1>1, TypeStart DEF TsInit, FailedLeft, Caused, ReaderFailed, DoneCounted, Failure, NewReader,
                         TsTypeOK, OptionTypes
<1>3. JoinedDone /\ CodeWaits /\ Drained /\ CodeKept
  BY DEF TsInit, JoinedDone, CodeWaits, Drained, CodeKept
<1>4. Counted
  <2>1. \A ch \in Channels : Submitted(ch) = 0
    BY DEF TsInit, Submitted, Taken, Both
  <2> QED
    BY <1>1, <2>1 DEF Counted, NewReader
<1> QED
  BY <1>2, <1>3, <1>4 DEF CauseInv

\* Every step keeps results and failures explained by their cause.
LEMMA CauseStep == PairInv /\ CauseInv /\ [TsNext]_tsVars => CauseInv'
BY FailedLeftStep, CausedStep, JoinedDoneStep, CodeWaitsStep, DoneCountedStep, CountedStep,
   DrainedStep, CodeKeptStep DEF CauseInv, PairInv

\* The code of a program that has returned.
LEMMA CodeTells == PairInv /\ CauseInv => CodeTellsCause
<1> SUFFICES ASSUME PairInv, CauseInv, tmain = "returned" PROVE CodeTellsCause
  BY DEF CodeTellsCause
<1>0. /\ result = Code /\ \A ch \in Channels : Failure(ch) \in Failures
      /\ agg_failure \in TaskFailures
      /\ ReaderFailed => real_failure
      /\ ~real_failure /\ tool = "ppgpsdo" => Len(pairs) = nr
  BY DEF CauseInv, CodeKept, PairInv, TsTypeOK, AggTypes, Readers, Failure, Caused, Drained, CodeWaits
<1>1. ASSUME NEW ch \in Channels
      PROVE  /\ "OVERFLOW" \in ReaderCode(ch) <=> Failure(ch) = "overflow"
             /\ "TIMEOUT" \in ReaderCode(ch) <=> Failure(ch) = "timeout"
             /\ "EXCEPTION" \notin ReaderCode(ch)
             /\ ReaderCode(ch) = {} => Failure(ch) \in {"none", "stopped"}
  <2>1. Failure(ch) = "stopped" => real_failure
    BY <1>0 DEF ReaderFailed
  <2> QED
    BY <1>0, <2>1 DEF ReaderCode, Cancelled, timestamp_reader_rc, Failures
<1>6. \A x : x \in result <=> \/ \E ch \in Channels : x \in ReaderCode(ch)
                              \/ agg_failure = "converter" /\ x = "EXCEPTION"
                              \/ agg_failure = "overflow" /\ x = "OVERFLOW"
  <2> DEFINE parts == UNION {ReaderCode(ch) : ch \in Channels}
             own == timestamp_reader_rc(agg_failure)
  <2>0. result = Code
    BY <1>0
  <2>1. result = parts \cup own
    BY <2>0 DEF Code
  <2>2. \A x : x \in parts <=> \E ch \in Channels : x \in ReaderCode(ch)
    OBVIOUS
  <2>3. \A x : x \in own <=> \/ agg_failure = "converter" /\ x = "EXCEPTION"
                             \/ agg_failure = "overflow" /\ x = "OVERFLOW"
    BY <1>0 DEF timestamp_reader_rc, TaskFailures
  <2> HIDE DEF parts, own
  <2> QED
    BY <2>1, <2>2, <2>3
<1>2. result = {} => ~real_failure
  <2>1. result = {} => agg_failure = "none" /\ \A ch \in Channels : ReaderCode(ch) = {}
    BY <1>0, <1>6 DEF TaskFailures
  <2> QED
    BY <1>1, <2>1 DEF real_failure, Cancelled
<1>3. result = {} => /\ agg_failure = "none" /\ \A ch \in Channels : Failure(ch) = "none"
                     /\ tool = "ppgpsdo" => Len(pairs) = nr
  BY <1>0, <1>2 DEF ReaderFailed, real_failure
<1>4. /\ ("EXCEPTION" \in result) = (agg_failure = "converter")
      /\ ("OVERFLOW" \in result)
           = (agg_failure = "overflow" \/ \E ch \in Channels : Failure(ch) = "overflow")
      /\ ("TIMEOUT" \in result) = (\E ch \in Channels : Failure(ch) = "timeout")
  <2>1. /\ "EXCEPTION" \in result <=> agg_failure = "converter"
        /\ "OVERFLOW" \in result
             <=> agg_failure = "overflow" \/ \E ch \in Channels : Failure(ch) = "overflow"
        /\ "TIMEOUT" \in result <=> \E ch \in Channels : Failure(ch) = "timeout"
    BY <1>1, <1>6
  <2>2. \A e \in {"EXCEPTION", "OVERFLOW", "TIMEOUT"} : (e \in result) \in BOOLEAN
    OBVIOUS
  <2> QED
    BY <2>1, <2>2
<1> QED
  BY <1>3, <1>4 DEF CodeTellsCause

\* The return code of ppts and ppgpsdo tells what went wrong and nothing else.
THEOREM CodeAlwaysTells == TsSpec => []CodeTellsCause
<1>1. TsInit => CauseInv
  BY CauseStart
<1>2. PairInv /\ CauseInv /\ [TsNext]_tsVars => CauseInv'
  BY CauseStep
<1>3. PairInv /\ CauseInv => CodeTellsCause
  BY CodeTells
<1> QED
  BY <1>1, <1>2, <1>3, StampsInOrder, PTL DEF TsSpec
-----------------------------------------------------------------------------
(***************************************************************************)
(* A DMA transfer delivers what was asked for: for every buffer size,      *)
(* descriptor FIFO, load and number of repetitions, and every interleaving *)
(* of the program and the engine.                                          *)
(*                                                                         *)
(* Each descriptor is in one of three places, done, in the engine or in    *)
(* the queue; the invariant says how many are in each, counted from the    *)
(* descriptors the program has enqueued.                                   *)
(***************************************************************************)
DmaSpec == DmaInit /\ [][DmaNext]_dmaVars

Waiting == {"space", "final"}
Streaming == {"enqueue", "space", "final", "start", "wait", "timeout", "returned"}
Descriptors == Nat \X (Nat \ {0})
DmaPcs == {"none", "select_fifo", "reset_streamer", "reset_dma", "select_dma", "prepare",
           "transfer"} \cup Streaming

OneLoad == Written(job.p, job.n)

DmaTypes ==
  /\ dpc \in DmaPcs /\ job \in [n : Nat, reps : Nat, p : Nat] /\ cnt \in Nat
  /\ dmaProcesses \in Nat /\ stopped \in BOOLEAN /\ channel \in {1, 2}
  /\ queue \in Seq(Descriptors) /\ engine \in {Idle} \cup Descriptors
  /\ dpc # "none" => job.n > 0

\* A new program finds nothing of the one before it: the streamer is reset
\* while the multiplexer keeps the engine from it, the engine thereafter.
BroughtUp ==
  /\ dpc \in {"reset_streamer", "reset_dma", "select_dma"} => channel = 1
  /\ dpc \in {"reset_dma", "select_dma", "prepare", "transfer"} => received = <<>>
  /\ dpc \in {"select_dma", "prepare", "transfer"}
       => queue = <<>> /\ engine = Idle /\ stopped
  /\ dpc \notin {"none"} \cup Streaming => cnt = 0
  /\ dpc \in {"transfer"} \cup Streaming
       => buffer = Append(OneLoad, Terminator(job.p))

\* The engine has fetched f of the descriptors that repeat the load.
Between(f) == engine = Idle /\ received = Rounds(f)
Moving(f) ==
  \E j \in 0 .. job.n - 1 :
    engine = <<j + 1, job.n - j>> /\ received = Rounds(f - 1) \o SubSeq(OneLoad, 1, j)
\* The program has enqueued cnt of them and last = 1 descriptor of the terminator.
Repeating(last) ==
  LET f == cnt + last - Len(queue)
  IN  /\ cnt <= job.reps /\ f \in Nat
      /\ \A i \in 1 .. Len(queue) :
           queue[i] = IF last = 1 /\ i = Len(queue) THEN <<job.n + 1, 1>> ELSE <<1, job.n>>
      /\ \/ f <= cnt /\ Between(f)
         \/ f <= cnt /\ f > 0 /\ Moving(f)
         \/ f = cnt + 1 /\ engine = <<job.n + 1, 1>> /\ received = Rounds(cnt)
         \/ f = cnt + 1 /\ engine = Idle /\ received = ExpectedDelivery(cnt)
\* One descriptor for the load and its terminator.
AtOnce ==
  /\ job.reps = 1
  /\ \/ engine = Idle /\ queue = <<<<1, job.n + 1>>>> /\ received = <<>>
     \/ /\ queue = <<>>
        /\ \E j \in 0 .. job.n : /\ engine = <<j + 1, job.n + 1 - j>>
                                 /\ received = SubSeq(buffer, 1, j)
     \/ engine = Idle /\ queue = <<>> /\ received = buffer
Complete == job.reps > 0 /\ ((Repeating(1) /\ cnt = job.reps) \/ AtOnce)
Delivering ==
  /\ dpc \in {"enqueue", "space"} /\ job.reps > 0 => Repeating(0)
  /\ dpc \in {"final", "start"} => job.reps > 0 /\ Repeating(1) /\ cnt = job.reps
  /\ dpc \in {"wait", "returned"} => Complete
  /\ dpc = "timeout" /\ job.reps > 0 => Repeating(0) \/ Complete
  /\ dpc = "returned" => queue = <<>> /\ engine = Idle

\* While the engine is stopped the queue holds what was enqueued, and that is
\* less than would make the program wait.
Room ==
  /\ Len(queue) <= DEPTH - 2
  /\ dpc = "enqueue" => Len(queue) < DEPTH - 2
  /\ dpc \in {"enqueue", "space"} /\ stopped => Len(queue) = cnt /\ cnt <= DEPTH - 4
  /\ dpc = "final" /\ stopped => Len(queue) <= DEPTH - 3
  /\ dpc \in {"wait", "timeout"} => ~stopped

DmaInv == DmaTypes /\ BroughtUp /\ Delivering /\ Room
-----------------------------------------------------------------------------

DmaElement == Nat \X Nat

\* A load is as long as it should be, and its elements are in order.
LEMMA LoadType ==
  ASSUME NEW p \in Nat, NEW n \in Nat
  PROVE  /\ Written(p, n) \in Seq(DmaElement) /\ Len(Written(p, n)) = n
         /\ \A k \in 1 .. n : Written(p, n)[k] = <<p, k>>
BY DEF Written, DmaElement

\* Rounds are made by stringing on one load at a time.
LEMMA RoundsAre ==
  ASSUME DmaTypes, NEW k \in Nat
  PROVE  /\ Rounds(0) = <<>> /\ Rounds(k + 1) = Rounds(k) \o OneLoad
         /\ Rounds(k) \in Seq(DmaElement)
<1>1. OneLoad \in Seq(DmaElement)
  BY LoadType DEF DmaTypes, OneLoad
<1> QED
  BY <1>1, FlattenRepeated DEF Rounds, OneLoad

\* Fewer rounds are the beginning of more.
LEMMA RoundsPrefix ==
  ASSUME DmaTypes, NEW a \in Nat, NEW hi \in Nat, a <= hi
  PROVE  \E s \in Seq(DmaElement) : Rounds(hi) = Rounds(a) \o s
<1> DEFINE S == {k \in Nat : a <= k => \E s \in Seq(DmaElement) : Rounds(k) = Rounds(a) \o s}
<1>0. Rounds(a) = Rounds(a) \o <<>> /\ <<>> \in Seq(DmaElement)
  BY RoundsAre
<1>1. 0 \in S
  <2>1. a <= 0 => a = 0
    OBVIOUS
  <2> QED
    BY <1>0, <2>1
<1>2. ASSUME NEW k \in Nat, k \in S PROVE k + 1 \in S
  <2>1. CASE a = k + 1
    BY <1>0, <2>1
  <2>2. CASE a # k + 1 /\ a <= k + 1
    <3>1. PICK s \in Seq(DmaElement) : Rounds(k) = Rounds(a) \o s
      BY <1>2, <2>2
    <3>2. OneLoad \in Seq(DmaElement)
      BY LoadType DEF DmaTypes, OneLoad
    <3>3. Rounds(k + 1) = Rounds(k) \o OneLoad /\ Rounds(a) \in Seq(DmaElement)
      BY RoundsAre
    <3> DEFINE R == Rounds(a)
               l == OneLoad
    <3>4. (R \o s) \o l = R \o (s \o l) /\ s \o l \in Seq(DmaElement)
      <4> R \in Seq(DmaElement) /\ l \in Seq(DmaElement)
        BY <3>2, <3>3
      <4> HIDE DEF R, l
      <4> QED
        OBVIOUS
    <3> DEFINE t == s \o OneLoad
    <3>5. Rounds(k + 1) = Rounds(a) \o t /\ t \in Seq(DmaElement)
      BY <3>1, <3>3, <3>4
    <3> HIDE DEF t
    <3>6. \E u \in Seq(DmaElement) : Rounds(k + 1) = Rounds(a) \o u
      BY <3>5
    <3> QED
      BY <3>6
  <2> QED
    BY <2>1, <2>2
<1>3. hi \in S
  BY <1>1, <1>2, NatInductive
<1> QED
  BY <1>3

\* A queue of one descriptor.
LEMMA OneDescriptor ==
  ASSUME NEW S, NEW x \in S
  PROVE  <<x>> \in Seq(S) /\ Len(<<x>>) = 1 /\ <<x>>[1] = x
OBVIOUS

\* Every step of a DMA transfer keeps the types.
LEMMA DmaTypesStep == DmaTypes /\ [DmaNext]_dmaVars => DmaTypes'
<1> SUFFICES ASSUME DmaTypes, [DmaNext]_dmaVars PROVE DmaTypes'
  OBVIOUS
<1> USE DmaAssumption DEF DmaTypes, DmaPcs, Streaming, dmaProgram, Engine
<1>1. ASSUME NEW n \in Loads, NEW reps \in Repetitions, StartDma(n, reps) PROVE DmaTypes'
  BY <1>1 DEF StartDma
<1>2. CASE SelectFifo \/ ResetStreamer \/ ResetDma \/ SelectDma
  <2>1. queue' \in Seq(Descriptors) /\ engine' \in {Idle} \cup Descriptors
    <3>1. (queue' = queue /\ engine' = engine) \/ (queue' = <<>> /\ engine' = Idle)
      BY <1>2 DEF SelectFifo, ResetStreamer, ResetDma, SelectDma, dma_reset
    <3>2. <<>> \in Seq(Descriptors)
      OBVIOUS
    <3> QED
      BY <3>1, <3>2
  <2>2. job' = job /\ cnt' = cnt /\ dmaProcesses' = dmaProcesses /\ stopped' \in BOOLEAN
    BY <1>2 DEF SelectFifo, ResetStreamer, ResetDma, SelectDma, dma_reset
  <2>3. dpc # "none" /\ dpc' \in DmaPcs /\ channel' \in {1, 2}
    BY <1>2 DEF SelectFifo, ResetStreamer, ResetDma, SelectDma, dma_reset
  <2> QED
    BY <2>1, <2>2, <2>3
<1>3. CASE prepare
  <2> DEFINE n == IF job.n < MAX_SIZE_DMA THEN job.n ELSE MAX_SIZE_DMA - 1
  <2>1. job' = [job EXCEPT !.n = n] /\ n \in Nat /\ n > 0
    BY <1>3 DEF prepare
  <2> HIDE DEF n
  <2> QED
    BY <1>3, <2>1 DEF prepare
<1>4. CASE Transfer
  <2>1. <<1, job.n + 1>> \in Nat \X (Nat \ {0})
    OBVIOUS
  <2> DEFINE d == <<1, job.n + 1>>
  <2> HIDE DEF d
  <2>2. queue' = <<d>> /\ d \in Descriptors
    BY <1>4, <2>1 DEF Transfer, d, Descriptors
  <2>3. queue' \in Seq(Descriptors)
    BY <2>2, OneDescriptor
  <2> QED
    BY <1>4, <2>3 DEF Transfer, initiate_transfer
<1>5. CASE TransferMultipleTimes \/ HasRoom \/ StartRest \/ WaitDone \/ StallTimeout
           \/ BusyTimeout \/ EndDma \/ Jam
  <2>1. queue' \in Seq(Descriptors) /\ engine' \in {Idle} \cup Descriptors
    <3>1. (queue' = queue /\ engine' = engine) \/ (queue' = <<>> /\ engine' = Idle)
      BY <1>5 DEF TransferMultipleTimes, HasRoom, StartRest, WaitDone, StallTimeout, BusyTimeout,
                  EndDma, Jam, dma_reset
    <3>2. <<>> \in Seq(Descriptors)
      OBVIOUS
    <3> QED
      BY <3>1, <3>2
  <2>2. /\ job' = job /\ cnt' = cnt /\ dmaProcesses' = dmaProcesses /\ stopped' \in BOOLEAN
        /\ channel' = channel
    BY <1>5 DEF TransferMultipleTimes, HasRoom, StartRest, WaitDone, StallTimeout, BusyTimeout,
                EndDma, Jam, dma_reset, initiate_transfer
  <2>3. (dpc' # "none" => dpc # "none") /\ dpc' \in DmaPcs
    BY <1>5 DEF TransferMultipleTimes, HasRoom, StartRest, WaitDone, StallTimeout, BusyTimeout,
                EndDma, Jam
  <2> QED
    BY <2>1, <2>2, <2>3
<1>6. CASE Enqueue \/ EnqueueFinal
  <2> DEFINE d == IF Enqueue THEN <<1, job.n>> ELSE <<job.n + 1, 1>>
  <2>1. d \in Descriptors
    BY <1>6 DEF Enqueue, Descriptors
  <2>2. queue' = queue \/ queue' = Append(queue, d)
    BY <1>6 DEF Enqueue, EnqueueFinal, enqueue
  <2> HIDE DEF d
  <2>3. queue' \in Seq(Descriptors)
    <3> queue \in Seq(Descriptors) /\ d \in Descriptors
      BY <2>1
    <3> QED
      BY <2>2
  <2>4. cnt' \in Nat /\ stopped' \in BOOLEAN /\ dpc' \in {"space", "final"} /\ dpc # "none"
    <3>1. CASE Enqueue
      <4>1. cnt' \in Nat /\ dpc' = "space" /\ dpc # "none"
        BY <3>1 DEF Enqueue
      <4>2. stopped' = FALSE \/ stopped' = stopped
        BY <3>1 DEF Enqueue, initiate_transfer
      <4> QED
        BY <4>1, <4>2
    <3>2. CASE EnqueueFinal
      BY <3>2 DEF EnqueueFinal
    <3> QED
      BY <1>6, <3>1, <3>2
  <2> QED
    BY <1>6, <2>3, <2>4 DEF Enqueue, EnqueueFinal
<1>7. CASE FetchDescriptor
  BY <1>7 DEF FetchDescriptor
<1>8. CASE MoveElement
  <2>1. engine \in Descriptors
    BY <1>8 DEF MoveElement
  <2> QED
    BY <1>8, <2>1, SMTT(60) DEF MoveElement, Descriptors
<1> QED
  BY <1>1, <1>2, <1>3, <1>4, <1>5, <1>6, <1>7, <1>8 DEF DmaNext, DmaStep, EngineStep, dmaVars

\* Every step keeps the engine set up before it is used.
LEMMA BroughtUpStep == DmaTypes /\ BroughtUp /\ [DmaNext]_dmaVars => BroughtUp'
<1> SUFFICES ASSUME DmaTypes, BroughtUp, [DmaNext]_dmaVars PROVE BroughtUp'
  OBVIOUS
<1> USE DEF BroughtUp, Streaming, dmaProgram, Engine, OneLoad, Terminator
<1>1. ASSUME NEW n \in Loads, NEW reps \in Repetitions, StartDma(n, reps) PROVE BroughtUp'
  BY <1>1 DEF StartDma
<1>2. CASE SelectFifo \/ ResetStreamer \/ ResetDma \/ SelectDma
  BY <1>2 DEF SelectFifo, ResetStreamer, ResetDma, SelectDma, dma_reset
<1>3. CASE prepare
  BY <1>3 DEF prepare, DmaTypes
<1>4. CASE Transfer \/ TransferMultipleTimes
  BY <1>4 DEF Transfer, TransferMultipleTimes, initiate_transfer, dma_reset
<1>5. CASE HasRoom \/ StartRest \/ WaitDone \/ StallTimeout \/ BusyTimeout \/ EndDma \/ Jam
  BY <1>5 DEF HasRoom, StartRest, WaitDone, StallTimeout, BusyTimeout, EndDma, Jam
<1>6. CASE Enqueue \/ EnqueueFinal
  BY <1>6 DEF Enqueue, EnqueueFinal, enqueue, initiate_transfer
<1>7. CASE FetchDescriptor
  BY <1>7 DEF FetchDescriptor
<1>8. CASE MoveElement
  BY <1>8 DEF MoveElement
<1> QED
  BY <1>1, <1>2, <1>3, <1>4, <1>5, <1>6, <1>7, <1>8 DEF DmaNext, DmaStep, EngineStep, dmaVars

\* Every step keeps the descriptor FIFO within its depth.
LEMMA RoomStep == DmaTypes /\ BroughtUp /\ Room /\ [DmaNext]_dmaVars => Room'
<1> SUFFICES ASSUME DmaTypes, BroughtUp, Room, [DmaNext]_dmaVars PROVE Room'
  OBVIOUS
<1> USE DmaAssumption DEF Room, dmaProgram, Engine
<1>0. Len(queue) \in Nat /\ cnt \in Nat
  BY DEF DmaTypes
<1>1. ASSUME NEW n \in Loads, NEW reps \in Repetitions, StartDma(n, reps) PROVE Room'
  BY <1>1 DEF StartDma
<1>2. CASE SelectFifo \/ ResetStreamer \/ ResetDma \/ SelectDma \/ prepare
  BY <1>2 DEF SelectFifo, ResetStreamer, ResetDma, SelectDma, dma_reset, prepare
<1>3. CASE Transfer \/ TransferMultipleTimes
  <2>1. CASE Transfer
    <3>1. Len(queue') = 1
      BY <2>1, OneDescriptor DEF Transfer
    <3> QED
      BY <2>1, <3>1 DEF Transfer, initiate_transfer
  <2>2. CASE TransferMultipleTimes
    <3>1. queue' = <<>> /\ dpc' = "enqueue" /\ cnt' = 0
      BY <2>2 DEF TransferMultipleTimes, BroughtUp, Streaming, dma_reset
    <3>2. Len(queue') = 0
      BY <3>1
    <3> QED
      BY <3>1, <3>2
  <2> QED
    BY <1>3, <2>1, <2>2
<1>4. CASE StartRest \/ WaitDone \/ StallTimeout \/ BusyTimeout \/ EndDma \/ Jam
  BY <1>0, <1>4 DEF StartRest, WaitDone, StallTimeout, BusyTimeout, EndDma, Jam, room, read_fill,
                    initiate_transfer
<1>5. CASE HasRoom
  BY <1>0, <1>5 DEF HasRoom, room, read_fill
<1>6. CASE Enqueue
  <2>1. Len(queue') = Len(queue) + 1 /\ Len(queue) < DEPTH - 2
    BY <1>0, <1>6 DEF Enqueue, enqueue, DmaTypes
  <2>2. dpc' = "space" /\ (stopped' => stopped /\ cnt # DEPTH - 4)
    BY <1>6 DEF Enqueue, initiate_transfer
  <2>3. dpc = "enqueue" /\ cnt' = IF job.reps = 0 /\ cnt > DEPTH THEN cnt ELSE cnt + 1
    BY <1>6 DEF Enqueue
  <2> QED
    BY <1>0, <2>1, <2>2, <2>3
<1>7. CASE EnqueueFinal
  <2>1. Len(queue') = Len(queue) + 1 /\ Len(queue) < DEPTH - 2
    BY <1>0, <1>7 DEF EnqueueFinal, enqueue, DmaTypes
  <2>2. dpc' = "final" /\ dpc = "enqueue" /\ stopped' = stopped
    BY <1>7 DEF EnqueueFinal
  <2> QED
    BY <1>0, <2>1, <2>2
<1>8. CASE FetchDescriptor
  <2>1. Len(queue') = Len(queue) - 1 /\ ~stopped /\ ~stopped' /\ dpc' = dpc
    BY <1>0, <1>8 DEF FetchDescriptor, DmaTypes
  <2> QED
    BY <1>0, <2>1
<1>9. CASE MoveElement
  BY <1>9 DEF MoveElement
<1> QED
  BY <1>1, <1>2, <1>3, <1>4, <1>5, <1>6, <1>7, <1>8, <1>9
  DEF DmaNext, DmaStep, EngineStep, dmaVars

\* What is to be delivered depends on the job only.
LEMMA RoundsSame ==
  ASSUME job' = job, NEW k
  PROVE  Rounds(k)' = Rounds(k) /\ ExpectedDelivery(k)' = ExpectedDelivery(k) /\ OneLoad' = OneLoad
BY DEF Rounds, ExpectedDelivery, OneLoad, Written, Terminator

\* One more descriptor: the program enqueues it.
LEMMA EnqueueDelivers ==
  ASSUME DmaTypes, Room, Repeating(0), job.reps > 0, Enqueue
  PROVE  Repeating(0)'
<1> DEFINE n == Len(queue)
<1>1. n \in Nat /\ cnt \in Nat /\ n < DEPTH /\ DEPTH \in Nat /\ job.reps \in Nat /\ dpc = "enqueue"
  BY DmaAssumption DEF DmaTypes, Room, Enqueue
<1>2. queue' = Append(queue, <<1, job.n>>) /\ cnt' = cnt + 1 /\ cnt + 1 <= job.reps
  BY <1>1 DEF Enqueue, enqueue, Again, DmaTypes
<1>3. job' = job /\ engine' = engine /\ received' = received
  BY DEF Enqueue
<1>4. /\ Len(queue') = n + 1 /\ \A i \in 1 .. n : queue'[i] = queue[i]
      /\ queue'[n + 1] = <<1, job.n>>
  <2> DEFINE d == <<1, job.n>>
  <2>1. queue \in Seq(Descriptors) /\ d \in Descriptors /\ queue' = Append(queue, d)
    BY <1>1, <1>2 DEF DmaTypes, Descriptors
  <2> HIDE DEF d
  <2>2. Len(queue') = n + 1 /\ (\A i \in 1 .. n : queue'[i] = queue[i]) /\ queue'[n + 1] = d
    BY <2>1
  <2> QED
    BY <2>2 DEF d
<1> DEFINE f == cnt + 0 - Len(queue)
<1>5. f' = f /\ f \in Nat /\ f <= cnt
  BY <1>1, <1>2, <1>4 DEF Repeating
<1>6. \A i \in 1 .. Len(queue') : queue'[i] = <<1, job'.n>>
  BY <1>1, <1>3, <1>4 DEF Repeating
<1>7. Between(f) \/ (f > 0 /\ Moving(f))
  BY <1>1, <1>5 DEF Repeating
<1>8. Between(f)' \/ (f > 0 /\ Moving(f)')
  <2>1. Rounds(f)' = Rounds(f) /\ Rounds(f - 1)' = Rounds(f - 1) /\ OneLoad' = OneLoad
    BY <1>3, <1>5, RoundsSame
  <2> HIDE DEF f
  <2> QED
    BY <1>3, <1>5, <1>7, <2>1 DEF Between, Moving
<1> QED
  BY <1>1, <1>2, <1>3, <1>5, <1>6, <1>8 DEF Repeating

\* The last descriptor, with the terminator, keeps the delivery on its way.
LEMMA EnqueueFinalDelivers ==
  ASSUME DmaTypes, Room, Repeating(0), job.reps > 0, EnqueueFinal
  PROVE  Repeating(1)' /\ cnt' = job'.reps
<1> DEFINE n == Len(queue)
<1>1. n \in Nat /\ cnt \in Nat /\ n < DEPTH /\ DEPTH \in Nat /\ job.reps \in Nat /\ dpc = "enqueue"
  BY DmaAssumption DEF DmaTypes, Room, EnqueueFinal
<1>2. queue' = Append(queue, <<job.n + 1, 1>>) /\ cnt' = cnt /\ cnt = job.reps
  BY <1>1, SMTT(60) DEF EnqueueFinal, enqueue, Again, DmaTypes, dmaProgram, Repeating
<1>3. job' = job /\ engine' = engine /\ received' = received
  BY DEF EnqueueFinal, dmaProgram
<1>4. /\ Len(queue') = n + 1 /\ \A i \in 1 .. n : queue'[i] = queue[i]
      /\ queue'[n + 1] = <<job.n + 1, 1>>
  <2> DEFINE d == <<job.n + 1, 1>>
  <2>1. queue \in Seq(Descriptors) /\ d \in Descriptors /\ queue' = Append(queue, d)
    BY <1>1, <1>2 DEF DmaTypes, Descriptors
  <2> HIDE DEF d
  <2>2. Len(queue') = n + 1 /\ (\A i \in 1 .. n : queue'[i] = queue[i]) /\ queue'[n + 1] = d
    BY <2>1
  <2> QED
    BY <2>2 DEF d
<1>9. PICK f \in Int : f = cnt + 0 - Len(queue)
  BY <1>1
<1>5. cnt' + 1 - Len(queue') = f /\ f \in Nat /\ f <= cnt
  BY <1>1, <1>2, <1>4, <1>9 DEF Repeating
<1>6. \A i \in 1 .. Len(queue') : queue'[i] = IF i = Len(queue') THEN <<job'.n + 1, 1>>
                                              ELSE <<1, job'.n>>
  <2>1. \A i \in 1 .. n : queue[i] = <<1, job.n>>
    BY DEF Repeating
  <2>2. ASSUME NEW i \in 1 .. Len(queue')
        PROVE  queue'[i] = IF i = Len(queue') THEN <<job'.n + 1, 1>> ELSE <<1, job'.n>>
    <3>1. CASE i = Len(queue')
      BY <1>3, <1>4, <3>1
    <3>2. CASE i # Len(queue')
      <4>1. i \in 1 .. n
        BY <1>1, <1>4, <3>2
      <4> QED
        BY <1>3, <1>4, <2>1, <3>2, <4>1
    <3> QED
      BY <3>1, <3>2
  <2> QED
    BY <2>2
<1>7. Between(f) \/ (f > 0 /\ Moving(f))
  BY <1>1, <1>5, <1>9 DEF Repeating
<1>8. Between(f)' \/ (f > 0 /\ Moving(f)')
  <2>1. Rounds(f)' = Rounds(f) /\ Rounds(f - 1)' = Rounds(f - 1) /\ OneLoad' = OneLoad
    BY <1>3, <1>5, RoundsSame
  <2> QED
    BY <1>3, <1>5, <1>7, <2>1 DEF Between, Moving
<1> QED
  BY <1>1, <1>2, <1>3, <1>5, <1>6, <1>8 DEF Repeating

\* The engine takes the first descriptor of the queue.
LEMMA FetchDelivers ==
  ASSUME DmaTypes, NEW last \in {0, 1}, Repeating(last), last = 1 => cnt = job.reps,
         FetchDescriptor, job.n > 0
  PROVE  Repeating(last)'
<1>1. /\ Len(queue) \in Nat /\ Len(queue) > 0 /\ cnt \in Nat /\ engine = Idle
      /\ job.n \in Nat
  BY DEF DmaTypes, FetchDescriptor
<1>0. PICK n \in Nat, f \in Int : n = Len(queue) /\ n > 0 /\ f = cnt + last - n
  BY <1>1
<1>2. job' = job /\ cnt' = cnt /\ received' = received
  BY DEF FetchDescriptor, dmaProgram
<1>3. /\ Len(queue') = n - 1 /\ \A i \in 1 .. n - 1 : queue'[i] = queue[i + 1]
      /\ engine' = queue[1]
  BY <1>0 DEF DmaTypes, FetchDescriptor
<1>4. f \in Nat /\ f <= cnt /\ received = Rounds(f)
  <2>1. f \in Nat /\ f <= cnt
    BY <1>0, <1>1 DEF Repeating
  <2>2. Idle # <<job.n + 1, 1>> /\ \A j \in 0 .. job.n - 1 : Idle # <<j + 1, job.n - j>>
    BY <1>1 DEF Idle
  <2>3. f # cnt + 1
    BY <1>1, <2>1
  <2> QED
    BY <1>0, <1>1, <2>1, <2>2, <2>3 DEF Repeating, Between, Moving
<1>5. cnt' + last - Len(queue') = f + 1
  BY <1>0, <1>1, <1>2, <1>3
<1>6. \A i \in 1 .. Len(queue') : queue'[i] = IF last = 1 /\ i = Len(queue') THEN <<job'.n + 1, 1>>
                                              ELSE <<1, job'.n>>
  <2>1. ASSUME NEW i \in 1 .. n - 1
        PROVE  queue'[i] = IF last = 1 /\ i = n - 1 THEN <<job.n + 1, 1>> ELSE <<1, job.n>>
    <3>1. i + 1 \in 1 .. n /\ (i + 1 = n <=> i = n - 1)
      BY <1>1
    <3> QED
      BY <1>0, <1>3, <3>1 DEF Repeating
  <2> QED
    BY <1>1, <1>2, <1>3, <2>1
<1>7. Rounds(f)' = Rounds(f) /\ OneLoad' = OneLoad
  BY <1>2, <1>4, RoundsSame
<1>8. 1 \in 1 .. n
  BY <1>0
<1>9. CASE last = 1 /\ n = 1
  <2>1. engine' = <<job'.n + 1, 1>> /\ f + 1 = cnt' + 1 /\ received' = Rounds(cnt)'
    <3>1. engine' = <<job.n + 1, 1>>
      BY <1>0, <1>3, <1>8, <1>9 DEF Repeating
    <3>2. f = cnt
      BY <1>0, <1>1, <1>9
    <3> QED
      BY <1>2, <1>4, <1>7, <3>1, <3>2
  <2> QED
    BY <1>1, <1>2, <1>4, <1>5, <1>6, <2>1, SMTT(60) DEF Repeating
<1>10. CASE ~ (last = 1 /\ n = 1)
  <2>0. PICK k \in Nat : k = f + 1
    BY <1>4
  <2>1. engine' = <<1, job'.n>> /\ k <= cnt'
    <3>1. engine' = <<1, job.n>>
      BY <1>0, <1>3, <1>8, <1>10 DEF Repeating
    <3>2. f + 1 <= cnt
      BY <1>0, <1>1, <1>10
    <3> QED
      BY <1>2, <2>0, <3>1, <3>2
  <2>2. Moving(k)'
    <3>1. OneLoad' \in Seq(DmaElement) /\ Rounds(f)' \in Seq(DmaElement)
      BY <1>4, <1>7, RoundsAre, LoadType DEF DmaTypes, OneLoad
    <3>2. SubSeq(OneLoad', 1, 0) = <<>> /\ Rounds(f)' \o <<>> = Rounds(f)'
      BY <3>1
    <3>3. 0 \in 0 .. job'.n - 1 /\ 0 + 1 = 1 /\ job'.n - 0 = job'.n /\ k - 1 = f
      BY <1>1, <1>2, <1>4, <2>0
    <3>4. received' = Rounds(k - 1)' \o SubSeq(OneLoad', 1, 0)
      BY <1>2, <1>4, <1>7, <3>2, <3>3
    <3> QED
      BY <2>1, <3>3, <3>4 DEF Moving
  <2>3. k > 0 /\ cnt' + last - Len(queue') = k
    BY <1>4, <1>5, <2>0
  <2>4. cnt' <= job'.reps
    BY <1>2 DEF Repeating
  <2> QED
    BY <1>6, <2>0, <2>1, <2>2, <2>3, <2>4 DEF Repeating
<1> QED
  BY <1>9, <1>10

\* One more element of a sequence.
LEMMA OneMoreElement ==
  ASSUME NEW S, NEW r \in Seq(S), NEW w \in Seq(S), NEW j \in Nat, j < Len(w)
  PROVE  Append(r \o SubSeq(w, 1, j), w[j + 1]) = r \o SubSeq(w, 1, j + 1)
<1>1. SubSeq(w, 1, j) \in Seq(S) /\ w[j + 1] \in S
  OBVIOUS
<1>2. SubSeq(w, 1, j + 1) = Append(SubSeq(w, 1, j), w[j + 1])
  OBVIOUS
<1> DEFINE a == SubSeq(w, 1, j)
           x == w[j + 1]
<1>3. a \in Seq(S) /\ x \in S
  BY <1>1
<1> HIDE DEF a, x
<1>4. Append(r \o a, x) = r \o Append(a, x)
  <2>1. r \o a \in Seq(S) /\ <<x>> \in Seq(S)
    BY <1>3
  <2>2. Append(r \o a, x) = (r \o a) \o <<x>> /\ Append(a, x) = a \o <<x>>
    BY <1>3, <2>1, AppendIsConcat
  <2>3. (r \o a) \o <<x>> = r \o (a \o <<x>>)
    BY <1>3, <2>1, ConcatAssociative, SMTT(60)
  <2> QED
    BY <2>2, <2>3
<1> QED
  BY <1>2, <1>4 DEF a, x

\* A sequence cut at its end or at its start.
LEMMA WholeSequence ==
  ASSUME NEW S, NEW r \in Seq(S), NEW w \in Seq(S)
  PROVE  SubSeq(w, 1, Len(w)) = w /\ SubSeq(w, 1, 0) = <<>> /\ r \o <<>> = r /\ <<>> \o r = r
OBVIOUS

\* The engine moves an element.
LEMMA MoveDelivers ==
  ASSUME DmaTypes, NEW last \in {0, 1}, Repeating(last), job.reps > 0, job.n > 0, MoveElement,
         buffer = Append(OneLoad, Terminator(job.p))
  PROVE  Repeating(last)'
<1>1. /\ job' = job /\ cnt' = cnt /\ queue' = queue /\ engine # Idle
      /\ received' = Append(received, buffer[engine[1]])
      /\ engine' = IF engine[2] = 1 THEN Idle ELSE <<engine[1] + 1, engine[2] - 1>>
      /\ job.n \in Nat /\ job.p \in Nat /\ cnt \in Nat /\ Len(queue) \in Nat
  <2>1. job' = job /\ cnt' = cnt /\ queue' = queue /\ engine # Idle
    BY DEF MoveElement, dmaProgram
  <2>2. job.reps # 0 /\ job.n \in Nat /\ job.p \in Nat /\ cnt \in Nat /\ Len(queue) \in Nat
    BY DEF DmaTypes
  <2>3. received' = Append(received, buffer[engine[1]])
    BY <2>2 DEF MoveElement
  <2>4. engine' = IF engine[2] = 1 THEN Idle ELSE <<engine[1] + 1, engine[2] - 1>>
    BY DEF MoveElement
  <2> QED
    BY <2>1, <2>2, <2>3, <2>4
<1>2. PICK f \in Nat : f = cnt + last - Len(queue)
  BY DEF Repeating
<1>3. PICK l \in Seq(DmaElement) : l = OneLoad /\ Len(l) = job.n
  BY <1>1, LoadType DEF OneLoad
<1>4. /\ \A i \in 1 .. job.n : buffer[i] = l[i]
      /\ buffer[job.n + 1] = Terminator(job.p)
  <2>1. Terminator(job.p) \in DmaElement
    BY <1>1 DEF Terminator, DmaElement
  <2> QED
    BY <1>1, <1>3, <2>1
<1>5. /\ OneLoad' = l
      /\ \A k \in Nat : Rounds(k)' = Rounds(k) /\ ExpectedDelivery(k)' = ExpectedDelivery(k)
  BY <1>1, <1>3, RoundsSame
<1>6. /\ cnt' + last - Len(queue') = f /\ cnt' <= job'.reps
      /\ \A i \in 1 .. Len(queue') :
           queue'[i] = IF last = 1 /\ i = Len(queue') THEN <<job'.n + 1, 1>> ELSE <<1, job'.n>>
  BY <1>1, <1>2 DEF Repeating
<1>7. CASE f <= cnt /\ f > 0 /\ Moving(f)
  <2>1. PICK j \in 0 .. job.n - 1 : /\ engine = <<j + 1, job.n - j>>
                                    /\ received = Rounds(f - 1) \o SubSeq(l, 1, j)
    BY <1>3, <1>7 DEF Moving
  <2>2. PICK r \in Seq(DmaElement) : r = Rounds(f - 1) /\ Rounds(f) = r \o l
    <3>1. f - 1 \in Nat /\ (f - 1) + 1 = f
      BY <1>7
    <3> QED
      BY <1>3, <3>1, RoundsAre
  <2>3. received' = r \o SubSeq(l, 1, j + 1)
    <3>1. j + 1 \in 1 .. job.n /\ j \in Nat /\ j < Len(l)
      BY <1>1, <1>3
    <3>2. received' = Append(r \o SubSeq(l, 1, j), l[j + 1])
      BY <1>1, <1>4, <2>1, <2>2, <3>1
    <3> QED
      BY <3>1, <3>2, OneMoreElement
  <2>4. CASE job.n - j = 1
    <3>1. engine' = Idle /\ j + 1 = Len(l)
      BY <1>1, <1>3, <2>1, <2>4, SMTT(60)
    <3>2. received' = Rounds(f)
      BY <2>2, <2>3, <3>1, WholeSequence
    <3>3. Between(f)'
      BY <1>5, <3>1, <3>2 DEF Between
    <3> QED
      BY <1>1, <1>6, <1>7, <3>3 DEF Repeating
  <2>5. CASE job.n - j # 1
    <3>0. j + 1 \in 0 .. job.n - 1 /\ job.n - (j + 1) = (job.n - j) - 1
      <4>1. \A n \in Nat : \A k \in 0 .. n - 1 :
              n - k # 1 => k + 1 \in 0 .. n - 1 /\ n - (k + 1) = (n - k) - 1
        OBVIOUS
      <4> QED
        BY <1>1, <2>1, <2>5, <4>1
    <3>1. PICK i \in 0 .. job.n - 1 : i = j + 1
      BY <3>0
    <3>2. engine' = <<i + 1, job.n - i>>
      <4>1. engine[1] = j + 1 /\ engine[2] = job.n - j
        BY <2>1
      <4> QED
        BY <1>1, <2>5, <3>0, <3>1, <4>1
    <3>3. received' = Rounds(f - 1)' \o SubSeq(OneLoad', 1, i)
      <4>1. f - 1 \in Nat
        BY <1>7
      <4>2. Rounds(f - 1)' = r
        BY <1>5, <2>2, <4>1
      <4> QED
        BY <1>5, <2>3, <3>1, <4>2
    <3>4. Moving(f)'
      BY <1>1, <3>2, <3>3 DEF Moving
    <3> QED
      BY <1>1, <1>6, <1>7, <3>4 DEF Repeating
  <2> QED
    BY <2>4, <2>5
<1>8. CASE f = cnt + 1 /\ engine = <<job.n + 1, 1>> /\ received = Rounds(cnt)
  <2>1. received' = Append(Rounds(cnt), Terminator(job.p)) /\ engine' = Idle
    BY <1>1, <1>4, <1>8
  <2>2. received' = ExpectedDelivery(cnt)'
    BY <1>1, <1>5, <2>1 DEF ExpectedDelivery
  <2> QED
    BY <1>1, <1>6, <1>8, <2>1, <2>2 DEF Repeating
<1> QED
  BY <1>1, <1>2, <1>7, <1>8 DEF Repeating, Between

\* The engine keeps a transfer of a single descriptor on its way.
LEMMA AtOnceDelivers ==
  ASSUME DmaTypes, AtOnce, job.n > 0, FetchDescriptor \/ MoveElement,
         buffer = Append(OneLoad, Terminator(job.p))
  PROVE  AtOnce'
<1>1. job' = job /\ buffer' = buffer /\ job.n \in Nat /\ job.p \in Nat /\ job.reps = 1
  BY DEF DmaTypes, FetchDescriptor, MoveElement, dmaProgram, AtOnce
<1>2. buffer \in Seq(DmaElement) /\ Len(buffer) = job.n + 1
  <2>1. OneLoad \in Seq(DmaElement) /\ Len(OneLoad) = job.n /\ Terminator(job.p) \in DmaElement
    BY <1>1, LoadType DEF OneLoad, Terminator, DmaElement
  <2> QED
    BY <2>1
<1>3. CASE FetchDescriptor
  <2>1. engine = Idle /\ queue # <<>> /\ engine' = Head(queue) /\ queue' = Tail(queue)
        /\ received' = received
    BY <1>3 DEF FetchDescriptor
  <2> DEFINE d == <<1, job.n + 1>>
  <2>2. queue = <<d>> /\ received = <<>>
    BY <1>1, <2>1 DEF AtOnce, Idle
  <2> HIDE DEF d
  <2>3. Head(<<d>>) = d /\ Tail(<<d>>) = <<>>
    OBVIOUS
  <2>4. engine' = <<0 + 1, job.n + 1 - 0>> /\ queue' = <<>> /\ received' = SubSeq(buffer, 1, 0)
    BY <1>1, <1>2, <2>1, <2>2, <2>3 DEF d
  <2>5. 0 \in 0 .. job.n
    BY <1>1
  <2> QED
    BY <1>1, <2>4, <2>5 DEF AtOnce
<1>4. CASE MoveElement
  <2>1. engine # Idle /\ queue' = queue /\ received' = Append(received, buffer[engine[1]])
        /\ engine' = IF engine[2] = 1 THEN Idle ELSE <<engine[1] + 1, engine[2] - 1>>
    BY <1>1, <1>4 DEF MoveElement
  <2>2. queue = <<>>
    BY <2>1 DEF AtOnce
  <2>3. PICK j \in 0 .. job.n : /\ engine = <<j + 1, job.n + 1 - j>>
                                /\ received = SubSeq(buffer, 1, j)
    BY <2>1 DEF AtOnce
  <2>4. received' = SubSeq(buffer, 1, j + 1)
    <3>1. j \in Nat /\ j < Len(buffer)
      BY <1>1, <1>2
    <3> QED
      BY <1>2, <2>1, <2>3, <3>1
  <2>5. CASE j = job.n
    <3>1. engine' = Idle /\ received' = buffer
      <4>1. engine[2] = job.n + 1 - j /\ job.n + 1 - j = 1 /\ j + 1 = Len(buffer)
        BY <1>1, <1>2, <2>3, <2>5
      <4>2. received' = SubSeq(buffer, 1, Len(buffer))
        BY <2>4, <4>1
      <4> QED
        BY <1>2, <2>1, <4>1, <4>2
    <3> QED
      BY <1>1, <2>1, <2>2, <3>1 DEF AtOnce
  <2>6. CASE j # job.n
    <3>1. PICK i \in 0 .. job.n : i = j + 1
      BY <1>1, <2>6
    <3>2. engine' = <<i + 1, job.n + 1 - i>>
      BY <1>1, <2>1, <2>3, <2>6, <3>1, SMTT(60)
    <3> QED
      BY <1>1, <2>1, <2>2, <2>4, <3>1, <3>2 DEF AtOnce
  <2> QED
    BY <2>5, <2>6
<1> QED
  BY <1>3, <1>4

\* A step that touches neither the job nor the engine keeps a repeated delivery on its way.
LEMMA RepeatingSame ==
  ASSUME DmaTypes, NEW last \in {0, 1}, Repeating(last),
         UNCHANGED <<job, cnt, queue, engine, received>>
  PROVE  Repeating(last)'
<1>1. PICK f \in Nat : f = cnt + last - Len(queue) /\ cnt \in Nat
  BY DEF Repeating, DmaTypes
<1>2. \A k \in Nat : Rounds(k)' = Rounds(k) /\ ExpectedDelivery(k)' = ExpectedDelivery(k)
  BY RoundsSame
<1>3. OneLoad' = OneLoad /\ cnt' + last - Len(queue') = f
  BY <1>1, RoundsSame
<1>4. f > 0 /\ Moving(f) => Moving(f)'
  <2> SUFFICES ASSUME f > 0, Moving(f) PROVE Moving(f)'
    OBVIOUS
  <2>1. f - 1 \in Nat
    BY <1>1
  <2>2. Rounds(f - 1)' = Rounds(f - 1) /\ OneLoad' = OneLoad
    BY <1>2, <1>3, <2>1
  <2> QED
    BY <1>2, <2>2 DEF Moving
<1> QED
  BY <1>1, <1>2, <1>3, <1>4 DEF Repeating, Between

\* A step that touches neither the job nor the engine keeps a finished delivery complete.
LEMMA CompleteSame ==
  ASSUME DmaTypes, Complete, UNCHANGED <<job, cnt, queue, engine, received, buffer>>
  PROVE  Complete'
BY RepeatingSame DEF Complete, AtOnce

\* Every step keeps the delivery on its way.
LEMMA DeliveringStep == DmaInv /\ [DmaNext]_dmaVars => Delivering'
<1> SUFFICES ASSUME DmaInv, [DmaNext]_dmaVars PROVE Delivering'
  OBVIOUS
<1> USE DEF DmaInv
<1>0. job.reps \in Nat /\ cnt \in Nat /\ job.n \in Nat
  BY DEF DmaTypes
<1>1. CASE /\ UNCHANGED <<job, cnt, queue, engine, received, buffer>>
           /\ \/ dpc' = dpc \/ dpc' \in {"none", "reset_streamer", "reset_dma", "prepare"}
              \/ dpc = "space" /\ dpc' \in {"enqueue", "timeout"}
              \/ dpc = "final" /\ dpc' \in {"start", "timeout"}
              \/ dpc = "start" /\ dpc' = "wait"
              \/ dpc = "wait" /\ dpc' = "returned" /\ ~busy
              \/ dpc = "wait" /\ dpc' = "timeout"
  <2>1. Complete => Complete'
    BY <1>1, CompleteSame
  <2>2. (Repeating(0) => Repeating(0)') /\ (Repeating(1) => Repeating(1)')
    BY <1>1, RepeatingSame
  <2>3. job' = job /\ cnt' = cnt /\ queue' = queue /\ engine' = engine
    BY <1>1
  <2>4. dpc \in {"final", "start"} => Complete
    BY DEF Delivering, Complete
  <2> HIDE DEF DmaInv
  <2>5. Delivering
    BY DEF DmaInv
  <2>6. ~busy => queue = <<>> /\ engine = Idle
    BY DEF busy
  <2> QED
    BY <1>1, <2>1, <2>2, <2>3, <2>4, <2>5, <2>6 DEF Delivering
<1>2. CASE dpc' \in {"select_fifo", "select_dma", "transfer"}
  BY <1>2 DEF Delivering
<1>3. CASE Transfer
  <2>1. dpc' = "wait" /\ job.reps = 1 /\ job' = job /\ received' = received /\ received = <<>>
        /\ queue' = <<<<1, job.n + 1>>>> /\ engine' = Idle
    BY <1>3 DEF Transfer, dmaProgram, BroughtUp
  <2>2. AtOnce'
    BY <2>1 DEF AtOnce
  <2> QED
    BY <1>0, <2>1, <2>2 DEF Delivering, Complete
<1>4. CASE TransferMultipleTimes
  <2>1. dpc' = "enqueue" /\ job' = job /\ received' = <<>> /\ queue' = <<>> /\ engine' = Idle
        /\ cnt' = 0
    BY <1>4 DEF TransferMultipleTimes, dma_reset, dmaProgram, BroughtUp, Streaming
  <2>2. Rounds(0)' = <<>>
    <3>1. Rounds(0)' = Rounds(0)
      BY <2>1, RoundsSame
    <3> QED
      BY <3>1, RoundsAre
  <2>3. Len(queue') = 0 /\ cnt' + 0 - Len(queue') = 0
    <3>1. Len(queue') = 0
      BY <2>1
    <3>2. cnt' = 0
      BY <2>1
    <3> QED
      BY <3>1, <3>2
  <2>4. PICK f \in Nat : f = 0
    OBVIOUS
  <2>5. Between(f)'
    BY <2>1, <2>2, <2>4 DEF Between
  <2>6. Repeating(0)'
    BY <1>0, <2>1, <2>3, <2>4, <2>5 DEF Repeating
  <2> QED
    BY <2>1, <2>6 DEF Delivering
<1>5. CASE Enqueue
  <2>1. dpc = "enqueue" /\ dpc' = "space" /\ job' = job
    BY <1>5 DEF Enqueue
  <2>2. job.reps > 0 => Repeating(0)'
    BY <1>5, <2>1, EnqueueDelivers DEF Delivering
  <2> QED
    BY <2>1, <2>2 DEF Delivering
<1>6. CASE EnqueueFinal
  <2>1. dpc = "enqueue" /\ dpc' = "final" /\ job' = job /\ job.reps > 0
    BY <1>0, <1>6 DEF EnqueueFinal, Again, dmaProgram
  <2>2. Repeating(1)' /\ cnt' = job'.reps
    BY <1>6, <2>1, EnqueueFinalDelivers DEF Delivering
  <2> QED
    BY <2>1, <2>2 DEF Delivering
<1>7. CASE EngineStep
  <2>1. dpc' = dpc /\ job' = job /\ cnt' = cnt
    BY <1>7 DEF EngineStep, FetchDescriptor, MoveElement, dmaProgram
  <2>2. CASE dpc \in Streaming
    <3>1. job.n > 0 /\ buffer = Append(OneLoad, Terminator(job.p))
      BY <2>2 DEF DmaTypes, BroughtUp, Streaming
    <3>2. job.reps > 0 /\ Repeating(0) => Repeating(0)'
      BY <1>7, <3>1, FetchDelivers, MoveDelivers DEF EngineStep
    <3>3. job.reps > 0 /\ Repeating(1) /\ cnt = job.reps => Repeating(1)'
      BY <1>7, <3>1, FetchDelivers, MoveDelivers DEF EngineStep
    <3>4. AtOnce => AtOnce'
      BY <1>7, <3>1, AtOnceDelivers DEF EngineStep
    <3>5. Complete => Complete'
      BY <2>1, <3>3, <3>4 DEF Complete
    <3>6. dpc # "returned"
      BY <1>7 DEF EngineStep, FetchDescriptor, MoveElement, Delivering
    <3>7. Delivering
      OBVIOUS
    <3> HIDE DEF DmaInv
    <3> QED
      BY <2>1, <3>2, <3>3, <3>5, <3>6, <3>7 DEF Delivering
  <2>3. CASE dpc \notin Streaming
    BY <2>1, <2>3 DEF Streaming, Delivering
  <2> QED
    BY <2>2, <2>3
<1>8. CASE \E n \in Loads, reps \in Repetitions : StartDma(n, reps)
  BY <1>2, <1>8 DEF StartDma
<1>9. CASE SelectFifo \/ SelectDma \/ HasRoom \/ StartRest \/ WaitDone \/ StallTimeout
           \/ BusyTimeout \/ EndDma \/ Jam \/ UNCHANGED dmaVars
  <2> USE DEF dmaProgram, Engine
  <2>1. CASE SelectFifo \/ SelectDma
    BY <1>1, <2>1 DEF SelectFifo, SelectDma
  <2>2. CASE HasRoom
    BY <1>1, <2>2 DEF HasRoom
  <2>3. CASE StartRest \/ WaitDone
    <3>1. UNCHANGED <<job, cnt, queue, engine, received, buffer>>
      BY <2>3 DEF StartRest, WaitDone
    <3>2. (dpc = "start" /\ dpc' = "wait") \/ (dpc = "wait" /\ dpc' = "returned" /\ ~busy)
      BY <2>3 DEF StartRest, WaitDone
    <3> QED
      BY <1>1, <3>1, <3>2
  <2>4. CASE StallTimeout \/ BusyTimeout
    BY <1>1, <2>4 DEF StallTimeout, BusyTimeout
  <2>5. CASE EndDma \/ Jam \/ UNCHANGED dmaVars
    BY <1>1, <2>5 DEF EndDma, Jam, dmaVars
  <2> QED
    BY <1>9, <2>1, <2>2, <2>3, <2>4, <2>5
<1>10. CASE ResetStreamer \/ ResetDma \/ prepare
  BY <1>2, <1>10 DEF ResetStreamer, ResetDma, prepare, Delivering
<1> QED
  BY <1>3, <1>4, <1>5, <1>6, <1>7, <1>8, <1>9, <1>10 DEF DmaNext, DmaStep

\* Before the first job there is nothing to deliver.
LEMMA DmaStart == DmaInit => DmaInv
<1> SUFFICES ASSUME DmaInit PROVE DmaInv
  OBVIOUS
<1>1. Len(queue) = 0 /\ queue \in Seq(Descriptors)
  BY DEF DmaInit
<1> QED
  BY <1>1, DmaAssumption
  DEF DmaInit, DmaInv, DmaTypes, DmaPcs, BroughtUp, Delivering, Room, Streaming, Nothing

\* The descriptors, the engine and what the streamer has received agree in every
\* reachable state of a DMA transfer.
THEOREM DmaInvariance == DmaSpec => []DmaInv
<1>1. DmaInv /\ [DmaNext]_dmaVars => DmaInv'
  BY DmaTypesStep, BroughtUpStep, DeliveringStep, RoomStep DEF DmaInv
<1> QED
  BY <1>1, DmaStart, PTL DEF DmaSpec

\* What is delivered so far is the beginning of what was asked for.
LEMMA DeliveredSoFar ==
  ASSUME DmaTypes, NEW last \in {0, 1}, Repeating(last), last = 1 => cnt = job.reps
  PROVE  IsPrefix(received, ExpectedDelivery(job.reps))
<1> DEFINE total == Rounds(job.reps)
           t == Terminator(job.p)
<1>1. PICK f \in Nat : f = cnt + last - Len(queue)
  BY DEF Repeating
<1>2. /\ total \in Seq(DmaElement) /\ t \in DmaElement /\ job.reps \in Nat /\ cnt \in Nat
      /\ cnt <= job.reps /\ ExpectedDelivery(job.reps) = Append(total, t)
  BY RoundsAre DEF DmaTypes, Terminator, DmaElement, ExpectedDelivery, Repeating
<1> HIDE DEF t, total
<1>3. \A s \in Seq(DmaElement) :
        (\E u \in Seq(DmaElement) : total = s \o u) => IsPrefix(s, Append(total, t))
  BY <1>2 DEF IsPrefix
<1>4. \A k \in Nat : k <= job.reps => IsPrefix(Rounds(k), Append(total, t))
  BY <1>2, <1>3, RoundsPrefix, RoundsAre DEF total
<1>5. CASE f <= cnt /\ Between(f)
  BY <1>2, <1>4, <1>5 DEF Between
<1>6. CASE f <= cnt /\ f > 0 /\ Moving(f)
  <2>1. PICK j \in 0 .. job.n - 1 : received = Rounds(f - 1) \o SubSeq(OneLoad, 1, j)
    BY <1>6 DEF Moving
  <2>2. PICK r \in Seq(DmaElement), l \in Seq(DmaElement) :
          r = Rounds(f - 1) /\ l = OneLoad /\ Len(l) = job.n /\ Rounds(f) = r \o l
    <3>1. f - 1 \in Nat /\ (f - 1) + 1 = f
      BY <1>6
    <3>2. OneLoad \in Seq(DmaElement) /\ Len(OneLoad) = job.n
      BY LoadType DEF OneLoad, DmaTypes
    <3> QED
      BY <3>1, <3>2, RoundsAre
  <2>3. PICK u \in Seq(DmaElement) : total = (r \o l) \o u
    <3>1. f <= job.reps
      BY <1>2, <1>6
    <3>2. \E u \in Seq(DmaElement) : Rounds(job.reps) = Rounds(f) \o u
      BY <1>2, <3>1, RoundsPrefix
    <3> QED
      BY <2>2, <3>2 DEF total
  <2>4. IsPrefix(r \o SubSeq(l, 1, j), Append((r \o l) \o u, t))
    <3>1. j \in Nat /\ j <= Len(l) /\ t \in DmaElement
      BY <1>2, <2>2, SMTT(60) DEF DmaTypes
    <3> QED
      BY <3>1, PrefixOfRound
  <2> QED
    BY <1>2, <2>1, <2>2, <2>3, <2>4
<1>7. CASE f = cnt + 1 /\ received = Rounds(cnt)
  BY <1>2, <1>4, <1>7
<1>8. CASE f = cnt + 1 /\ received = ExpectedDelivery(cnt)
  <2>1. cnt = job.reps
    BY <1>1, <1>2, <1>8 DEF DmaTypes
  <2>2. IsPrefix(Append(total, t), Append(total, t))
    BY <1>2 DEF IsPrefix
  <2> QED
    BY <1>2, <1>8, <2>1, <2>2
<1> QED
  BY <1>1, <1>2, <1>5, <1>6, <1>7, <1>8 DEF Repeating

\* What a transfer of a single descriptor has delivered is a beginning of what it should.
LEMMA AtOnceSoFar ==
  ASSUME DmaTypes, AtOnce, buffer = Append(OneLoad, Terminator(job.p))
  PROVE  buffer = ExpectedDelivery(job.reps) /\ IsPrefix(received, ExpectedDelivery(job.reps))
<1>1. OneLoad \in Seq(DmaElement) /\ Rounds(1) = OneLoad /\ Terminator(job.p) \in DmaElement
      /\ Len(OneLoad) = job.n /\ job.n \in Nat
  <2>1. Rounds(0 + 1) = Rounds(0) \o OneLoad /\ Rounds(0) = <<>>
    BY RoundsAre
  <2>2. OneLoad \in Seq(DmaElement) /\ Len(OneLoad) = job.n
    BY LoadType DEF OneLoad, DmaTypes
  <2>3. Rounds(1) = OneLoad
    BY <2>1, <2>2, WholeSequence
  <2> QED
    BY <2>2, <2>3 DEF DmaTypes, Terminator, DmaElement
<1>2. buffer = ExpectedDelivery(job.reps)
  BY <1>1 DEF AtOnce, ExpectedDelivery
<1>3. buffer \in Seq(DmaElement) /\ Len(buffer) = job.n + 1
  BY <1>1
<1>4. received = <<>> \/ received = buffer \/ \E j \in 0 .. job.n : received = SubSeq(buffer, 1, j)
  BY DEF AtOnce
<1>5. IsPrefix(received, buffer)
  BY <1>1, <1>3, <1>4 DEF IsPrefix
<1> QED
  BY <1>2, <1>5

\* Whatever the program before it left, a DMA transfer delivers what was asked
\* for, and never waits for itself.
THEOREM DmaAlwaysDelivers == DmaSpec => []DmaDelivers
<1>1. DmaInv => RepetitionsArrive
  <2> SUFFICES ASSUME DmaInv PROVE RepetitionsArrive
    OBVIOUS
  <2> USE DEF DmaInv
  <2>1. ASSUME dpc \in Streaming, job.reps > 0
        PROVE  IsPrefix(received, ExpectedDelivery(job.reps))
    <3>1. Repeating(0) \/ Complete
      BY <2>1 DEF Delivering, Streaming, Complete
    <3>2. Repeating(0) \/ (Repeating(1) /\ cnt = job.reps) \/ AtOnce
      BY <3>1 DEF Complete
    <3> QED
      BY <2>1, <3>2, DeliveredSoFar, AtOnceSoFar DEF BroughtUp
  <2>2. ASSUME dpc = "transfer"
        PROVE  IsPrefix(received, ExpectedDelivery(job.reps))
    <3>1. received = <<>> /\ Rounds(job.reps) \in Seq(DmaElement)
          /\ Terminator(job.p) \in DmaElement
      BY <2>2, RoundsAre DEF BroughtUp, DmaTypes, Terminator, DmaElement
    <3> QED
      BY <3>1 DEF IsPrefix, ExpectedDelivery
  <2>3. ASSUME dpc = "returned" PROVE received = ExpectedDelivery(job.reps)
    <3>1. Complete /\ queue = <<>> /\ engine = Idle /\ job.n \in Nat /\ cnt \in Nat
      BY <2>3 DEF Delivering, DmaTypes
    <3>2. CASE AtOnce
      <4>1. \A j \in 0 .. job.n : <<j + 1, job.n + 1 - j>> # Idle
        BY <3>1 DEF Idle
      <4>2. <<<<1, job.n + 1>>>> # <<>>
        OBVIOUS
      <4>3. received = buffer
        BY <3>1, <3>2, <4>1, <4>2 DEF AtOnce
      <4> QED
        BY <2>3, <3>2, <4>3, AtOnceSoFar DEF BroughtUp, Streaming
    <3>3. CASE Repeating(1) /\ cnt = job.reps
      <4>1. cnt + 1 - Len(queue) = cnt + 1
        BY <3>1
      <4>2. <<job.n + 1, 1>> # Idle /\ ~ (cnt + 1 <= cnt)
        BY <3>1 DEF Idle
      <4> QED
        BY <3>1, <3>3, <4>1, <4>2 DEF Repeating
    <3> QED
      BY <3>1, <3>2, <3>3 DEF Complete
  <2> QED
    BY <2>1, <2>2, <2>3 DEF RepetitionsArrive, Streaming
<1>2. DmaInv => NeverWaitsForItself
  <2> SUFFICES ASSUME DmaInv PROVE NeverWaitsForItself
    OBVIOUS
  <2>1. Len(queue) \in Nat /\ cnt \in Nat
    BY DEF DmaInv, DmaTypes
  <2> QED
    BY <2>1, DmaAssumption DEF DmaInv, Room, NeverWaitsForItself, room, read_fill
<1> QED
  BY <1>1, <1>2, DmaInvariance, PTL DEF DmaDelivers
-----------------------------------------------------------------------------
(***************************************************************************)
(* What the web interface shows is what the hardware has: for every set of *)
(* requests, command lines and server threads, and whatever fails half     *)
(* way.  A controller's method takes and gives a state of the controller;  *)
(* the lemmas say what each does to it.                                    *)
(***************************************************************************)
WebSpec == WebInit /\ [][WebNext]_webVars

WebWords ==
  Routes \cup {"idle", "none", "OK", "TIMEOUT", "ERROR_CHECK", "stream failed", "bad_request",
              "exception"}
WebHw ==
  [sel : Nat, core : Profiles, internal : Profiles, oe : BOOLEAN, done_mask : {0, 1},
   comb : CombConfig, trig : TriggerConfig, qout : Nat, done : BOOLEAN]
Snapshots ==
  [tracked : ClockConfig, measured : Nat, trigger : TriggerConfig, base : CombConfig,
   override : [enabled : BOOLEAN, value : Nat], qout : Nat, qout_streamer : Nat, seqno : Nat,
   stream_rc : WebWords, last_action : WebWords, last_error : WebWords]
Controllers ==
  [ok : BOOLEAN, hw : WebHw, snap : Snapshots, degraded : BOOLEAN, synced : BOOLEAN]
HandlerStates == {"idle", "parsed", "bad_request", "exception", "done", "failed"}

WebTypes ==
  /\ hw \in WebHw /\ snapshot \in Snapshots /\ degraded \in BOOLEAN /\ synced \in BOOLEAN
  /\ \A w \in Handlers : handler[w].at # "idle" =>
       /\ handler[w].req \in 1..NWebRequests
       /\ handler[w].at = "parsed" => well_formed(Request(w))
  /\ handler \in [Handlers -> [at : HandlerStates, req : Nat]]

\* The status is true of a state of the controller.
Truthful(s) ==
  /\ s.hw.comb = Effective(s.snap.base, s.snap.override)
  /\ s.synced => s.hw.trig = s.snap.trigger
  /\ s.hw.oe
  /\ s.snap.tracked.source = "int" => s.hw.sel = sel_int
  /\ s.snap.tracked.source = "ext" => s.hw.sel = sel_ext
  /\ s.snap.tracked.core # "" => s.hw.core = s.snap.tracked.core
  /\ s.snap.tracked.internal # "" => s.hw.internal = s.snap.tracked.internal

\* Nothing the browser is shown as applied differs.
SameConfig(p, q) ==
  /\ q.tracked = p.tracked /\ q.trigger = p.trigger /\ q.base = p.base
  /\ q.override = p.override /\ q.qout = p.qout /\ q.qout_streamer = p.qout_streamer

WebInv == WebTypes /\ WebTruthful
-----------------------------------------------------------------------------
\* A reset of the fabric clears no clock setting.
LEMMA FabricResetType ==
  ASSUME NEW h \in WebHw
  PROVE  /\ FabricReset(h) \in WebHw /\ FabricReset(h).sel = h.sel
         /\ FabricReset(h).core = h.core /\ FabricReset(h).internal = h.internal
<1>1. PassThrough \in CombConfig
  BY DEF PassThrough, CombConfig, CombModes
<1>2. TriggerAtReset \in TriggerConfig
  BY DEF TriggerAtReset, TriggerConfig
<1>3. initial_value \in Nat
  BY DEF initial_value
<1> QED
  BY <1>1, <1>2, <1>3 DEF FabricReset, WebHw

\* FPGA::set_clk selects a clock and touches neither the profiles nor the snapshot.
LEMMA SetClk ==
  ASSUME NEW s \in Controllers, NEW source
  PROVE  LET t == set_clk(s, source)
         IN  /\ t \in Controllers /\ t.ok = s.ok /\ t.snap = s.snap
             /\ source = "int" => t.hw.sel = sel_int
             /\ source = "ext" => t.hw.sel = sel_ext
<1> DEFINE h == FabricReset(s.hw)
           e == [h EXCEPT !.sel = sel_ext]
           i == [h EXCEPT !.sel = sel_int]
<1>1. s.hw \in WebHw
  BY DEF Controllers
<1>2. h \in WebHw
  BY <1>1, FabricResetType
<1> HIDE DEF h
<1>3. e \in WebHw /\ i \in WebHw /\ e.sel = sel_ext /\ i.sel = sel_int
  BY <1>2 DEF WebHw, sel_ext, sel_int
<1> HIDE DEF e, i
<1>4. set_clk(s, source) = CASE source = "keep" /\ s.hw.sel \in {sel_ext, sel_int} -> s
                             [] source = "ext" -> [s EXCEPT !.hw = e]
                             [] OTHER -> [s EXCEPT !.hw = i]
  BY DEF set_clk, h, e, i
<1>5. \A x \in WebHw : LET t == [s EXCEPT !.hw = x]
                       IN  t \in Controllers /\ t.ok = s.ok /\ t.snap = s.snap /\ t.hw = x
  BY DEF Controllers
<1> QED
  BY <1>3, <1>4, <1>5

\* set_pll writes the one PLL it is asked to and tracks its profile.
LEMMA SetPll ==
  ASSUME NEW s \in Controllers, NEW part \in {"core", "int"}, NEW profile \in Profiles
  PROVE  LET t == set_pll(s, part, profile)
         IN  /\ t \in Controllers /\ t.snap = s.snap /\ t.hw.sel = s.hw.sel
             /\ part = "core" => t.hw.internal = s.hw.internal
             /\ part = "int" => t.hw.core = s.hw.core
             /\ t.ok /\ profile # "" =>
                  /\ part = "core" => t.hw.core = profile
                  /\ part = "int" => t.hw.internal = profile
<1> DEFINE sc == [s.hw EXCEPT !.core = profile]
           i == [s.hw EXCEPT !.internal = profile]
<1>1. s.hw \in WebHw
  BY DEF Controllers
<1>2. /\ sc \in WebHw /\ sc.sel = s.hw.sel /\ sc.core = profile /\ sc.internal = s.hw.internal
      /\ i \in WebHw /\ i.sel = s.hw.sel /\ i.internal = profile /\ i.core = s.hw.core
  BY <1>1 DEF WebHw
<1>3. set_pll(s, part, profile) =
        CASE ~s.ok \/ profile = "" -> s
          [] s.ok /\ profile = "out_of_range" -> [s EXCEPT !.ok = FALSE]
          [] OTHER -> [s EXCEPT !.hw = IF part = "core" THEN sc ELSE i]
  BY DEF set_pll, Fails, Controllers
<1> HIDE DEF sc, i
<1>4. \A x \in WebHw : LET t == [s EXCEPT !.hw = x]
                       IN  t \in Controllers /\ t.ok = s.ok /\ t.snap = s.snap /\ t.hw = x
  BY DEF Controllers
<1>5. LET t == [s EXCEPT !.ok = FALSE]
      IN  t \in Controllers /\ ~t.ok /\ t.snap = s.snap /\ t.hw = s.hw
  BY DEF Controllers
<1>6. s.ok \in BOOLEAN
  BY DEF Controllers
<1> QED
  BY <1>2, <1>3, <1>4, <1>5, <1>6, ZenonT(60)

\* measure_clocks_locked changes no configuration.
LEMMA MeasureClocks ==
  ASSUME NEW s \in Controllers
  PROVE  LET t == measure_clocks_locked(s)
         IN  /\ t \in Controllers /\ t.hw = s.hw /\ (t.ok => s.ok)
             /\ t.degraded = s.degraded /\ t.synced = s.synced
             /\ SameConfig(s.snap, t.snap)
<1> DEFINE m == [s.snap EXCEPT !.measured = s.hw.sel]
<1>1. s.snap \in Snapshots /\ s.hw \in WebHw /\ s.hw.sel \in Nat /\ s.ok \in BOOLEAN
  BY DEF Controllers, WebHw
<1>2. m \in Snapshots /\ SameConfig(s.snap, m) /\ SameConfig(s.snap, s.snap)
  BY <1>1 DEF Snapshots, SameConfig
<1> HIDE DEF m
<1>3. LET t == [s EXCEPT !.snap = m]
      IN  t \in Controllers /\ t.hw = s.hw /\ t.ok = s.ok /\ t.snap = m
          /\ t.degraded = s.degraded /\ t.synced = s.synced
  BY <1>2 DEF Controllers
<1>4. LET t == [s EXCEPT !.ok = FALSE]
      IN  t \in Controllers /\ ~t.ok /\ t.snap = s.snap /\ t.hw = s.hw
          /\ t.degraded = s.degraded /\ t.synced = s.synced
  BY DEF Controllers
<1>5. measure_clocks_locked(s) =
        CASE ~s.ok -> s
          [] s.ok /\ ~StreamerClockRuns(s.hw) -> [s EXCEPT !.ok = FALSE]
          [] OTHER -> [s EXCEPT !.snap = m]
  BY DEF measure_clocks_locked, Fails, Controllers, m
<1> QED
  BY <1>1, <1>2, <1>3, <1>4, <1>5

\* What the clock configuration promises.
ClockTrue(s) ==
  /\ s.snap.tracked.source = "int" => s.hw.sel = sel_int
  /\ s.snap.tracked.source = "ext" => s.hw.sel = sel_ext
  /\ s.snap.tracked.core # "" => s.hw.core = s.snap.tracked.core
  /\ s.snap.tracked.internal # "" => s.hw.internal = s.snap.tracked.internal

\* apply_clock_config_locked leaves the hardware at the clocks the snapshot names.
LEMMA ApplyClock ==
  ASSUME NEW s \in Controllers, NEW state \in ClockConfig, s.ok
  PROVE  LET t == apply_clock_config_locked(s, state)
         IN  t \in Controllers /\ (t.ok => ClockTrue(t))
<1> DEFINE a == set_clk(s, state.source)
           sb == set_pll(a, "core", state.core)
           sc == set_pll(sb, "int", state.internal)
           d == [sc EXCEPT !.snap.tracked = state]
           e == measure_clocks_locked(d)
<1>1. state.core \in Profiles /\ state.internal \in Profiles
  BY DEF ClockConfig
<1>2. /\ a \in Controllers
      /\ state.source = "int" => a.hw.sel = sel_int
      /\ state.source = "ext" => a.hw.sel = sel_ext
  BY SetClk
<1> HIDE DEF a
<1>3. /\ sb \in Controllers /\ sb.hw.sel = a.hw.sel
      /\ sb.ok /\ state.core # "" => sb.hw.core = state.core
  BY <1>1, <1>2, SetPll
<1> HIDE DEF sb
<1>4. /\ sc \in Controllers /\ sc.hw.sel = sb.hw.sel /\ sc.hw.core = sb.hw.core
      /\ sc.ok /\ state.internal # "" => sc.hw.internal = state.internal
  BY <1>1, <1>3, SetPll
<1>5. sc.ok => sb.ok
  BY <1>1, <1>3 DEF set_pll
<1> HIDE DEF sc
<1>6. d \in Controllers /\ d.snap.tracked = state /\ d.hw = sc.hw
  <2>1. sc.snap \in Snapshots
    BY <1>4 DEF Controllers
  <2> DEFINE p == [sc.snap EXCEPT !.tracked = state]
  <2>2. p \in Snapshots /\ p.tracked = state
    BY <2>1 DEF Snapshots
  <2>3. d = [sc EXCEPT !.snap = p]
    BY <1>4 DEF Controllers
  <2> HIDE DEF p, d
  <2> QED
    BY <1>4, <2>2, <2>3 DEF Controllers
<1> HIDE DEF d
<1>7. e \in Controllers /\ e.hw = d.hw /\ e.snap.tracked = state
  BY <1>6, MeasureClocks DEF SameConfig
<1> HIDE DEF e
<1>8. apply_clock_config_locked(s, state) =
        IF ~ValidProfile(state.core) \/ ~ValidProfile(state.internal) THEN Fails(s)
        ELSE IF ~sc.ok THEN sc ELSE e
  BY DEF apply_clock_config_locked, a, sb, sc, d, e
<1>9. Fails(s) \in Controllers /\ ~Fails(s).ok
  BY DEF Fails, Controllers
<1>10. sc.ok => ClockTrue(e)
  BY <1>2, <1>3, <1>4, <1>5, <1>6, <1>7 DEF ClockTrue
<1> QED
  BY <1>4, <1>7, <1>8, <1>9, <1>10

\* apply_trigger_config_locked writes the trigger the snapshot names, and nothing else.
LEMMA ApplyTrigger ==
  ASSUME NEW s \in Controllers, NEW state \in TriggerConfig
  PROVE  LET t == apply_trigger_config_locked(s, state)
         IN  /\ t \in Controllers /\ t.ok = s.ok /\ t.degraded = s.degraded /\ t.synced
             /\ t.hw.trig = state /\ t.snap.trigger = state
             /\ t.hw.comb = s.hw.comb /\ t.hw.oe = s.hw.oe /\ t.snap.base = s.snap.base
             /\ t.snap.override = s.snap.override
             /\ (ClockTrue(s) => ClockTrue(t))
<1> DEFINE h == [s.hw EXCEPT !.trig = state]
           p == [s.snap EXCEPT !.trigger = state]
<1>1. s.hw \in WebHw /\ s.snap \in Snapshots
  BY DEF Controllers
<1>2. /\ h \in WebHw /\ h.trig = state /\ h.comb = s.hw.comb /\ h.oe = s.hw.oe
      /\ h.sel = s.hw.sel /\ h.core = s.hw.core /\ h.internal = s.hw.internal
  BY <1>1 DEF WebHw
<1>3. /\ p \in Snapshots /\ p.trigger = state /\ p.base = s.snap.base
      /\ p.override = s.snap.override /\ p.tracked = s.snap.tracked
  BY <1>1 DEF Snapshots
<1>4. apply_trigger_config_locked(s, state) = [s EXCEPT !.hw = h, !.snap = p, !.synced = TRUE]
  BY DEF apply_trigger_config_locked, Controllers
<1> HIDE DEF h, p
<1> DEFINE t == [s EXCEPT !.hw = h, !.snap = p, !.synced = TRUE]
<1>5. /\ t \in Controllers /\ t.ok = s.ok /\ t.degraded = s.degraded /\ t.synced
      /\ t.hw = h /\ t.snap = p
  BY <1>2, <1>3 DEF Controllers
<1> HIDE DEF t
<1>6. ClockTrue(s) => ClockTrue(t)
  BY <1>2, <1>3, <1>5 DEF ClockTrue
<1> QED
  BY <1>2, <1>3, <1>4, <1>5, <1>6 DEF t

Overrides == [enabled : BOOLEAN, value : Nat]

\* The combiner's effective setting is a setting, and forces nothing by itself.
LEMMA EffectiveType ==
  ASSUME NEW base \in CombConfig, NEW override \in Overrides
  PROVE  /\ Effective(base, override) \in CombConfig
         /\ ~override.enabled /\ ~base.force => ~Effective(base, override).force
BY DEF Effective, CombConfig, Overrides

\* apply_combiner_config_locked writes the request under the override in force.
LEMMA ApplyCombiner ==
  ASSUME NEW s \in Controllers, NEW request \in CombConfig
  PROVE  LET t == apply_combiner_config_locked(s, request)
         IN  /\ t \in Controllers /\ t.ok = s.ok /\ t.degraded = s.degraded /\ t.synced = s.synced
             /\ t.hw.trig = s.hw.trig /\ t.snap.trigger = s.snap.trigger
             /\ t.hw.comb = Effective(request, s.snap.override) /\ t.hw.oe = s.hw.oe
             /\ t.snap.base = request /\ t.snap.override = s.snap.override
             /\ (ClockTrue(s) => ClockTrue(t))
<1> DEFINE sc == Effective(request, s.snap.override)
           h == [s.hw EXCEPT !.comb = sc]
           p == [s.snap EXCEPT !.base = request]
<1>1. s.hw \in WebHw /\ s.snap \in Snapshots /\ s.snap.override \in Overrides
  BY DEF Controllers, Snapshots, Overrides
<1>2. sc \in CombConfig
  BY <1>1, EffectiveType
<1> HIDE DEF sc
<1>3. /\ h \in WebHw /\ h.trig = s.hw.trig /\ h.comb = sc /\ h.oe = s.hw.oe
      /\ h.sel = s.hw.sel /\ h.core = s.hw.core /\ h.internal = s.hw.internal
  BY <1>1, <1>2 DEF WebHw
<1>4. /\ p \in Snapshots /\ p.trigger = s.snap.trigger /\ p.base = request
      /\ p.override = s.snap.override /\ p.tracked = s.snap.tracked
  BY <1>1 DEF Snapshots
<1>5. apply_combiner_config_locked(s, request) = [s EXCEPT !.hw = h, !.snap = p]
  BY DEF apply_combiner_config_locked, Controllers, sc
<1> HIDE DEF h, p
<1> DEFINE t == [s EXCEPT !.hw = h, !.snap = p]
<1>6. /\ t \in Controllers /\ t.ok = s.ok /\ t.degraded = s.degraded /\ t.synced = s.synced
      /\ t.hw = h /\ t.snap = p
  BY <1>3, <1>4 DEF Controllers
<1> HIDE DEF t
<1>7. ClockTrue(s) => ClockTrue(t)
  BY <1>3, <1>4, <1>6 DEF ClockTrue
<1> QED
  BY <1>3, <1>4, <1>5, <1>6, <1>7 DEF t, sc

\* apply_streamer_override_locked writes the base setting under the new override.
LEMMA ApplyOverride ==
  ASSUME NEW s \in Controllers, NEW state \in Overrides
  PROVE  LET t == apply_streamer_override_locked(s, state)
         IN  /\ t \in Controllers /\ t.ok = s.ok /\ t.degraded = s.degraded /\ t.synced = s.synced
             /\ t.hw.trig = s.hw.trig /\ t.snap.trigger = s.snap.trigger
             /\ t.hw.comb = Effective(s.snap.base, state) /\ t.hw.oe = s.hw.oe
             /\ t.snap.base = s.snap.base /\ t.snap.override = state
             /\ (ClockTrue(s) => ClockTrue(t))
<1> DEFINE q == IF state.enabled THEN state.value ELSE s.snap.qout_streamer
           p == [s.snap EXCEPT !.override = state, !.qout = q]
           x == [s EXCEPT !.snap = p]
<1>1. s.snap \in Snapshots /\ q \in Nat /\ s.snap.base \in CombConfig
  BY DEF Controllers, Snapshots, Overrides
<1> HIDE DEF q
<1>2. /\ p \in Snapshots /\ p.trigger = s.snap.trigger /\ p.base = s.snap.base
      /\ p.override = state /\ p.tracked = s.snap.tracked
  BY <1>1 DEF Snapshots, Overrides
<1>3. apply_streamer_override_locked(s, state) = apply_combiner_config_locked(x, s.snap.base)
  <2>1. x = [s EXCEPT !.snap.override = state,
              !.snap.qout = IF state.enabled THEN state.value ELSE s.snap.qout_streamer]
    BY DEF Controllers, q
  <2> HIDE DEF x, p
  <2> QED
    BY <2>1 DEF apply_streamer_override_locked
<1> HIDE DEF p
<1>4. /\ x \in Controllers /\ x.ok = s.ok /\ x.degraded = s.degraded /\ x.synced = s.synced
      /\ x.hw = s.hw /\ x.snap = p
  BY <1>2 DEF Controllers
<1> HIDE DEF x
<1>5. ClockTrue(s) => ClockTrue(x)
  BY <1>2, <1>4 DEF ClockTrue
<1> QED
  BY <1>1, <1>2, <1>3, <1>4, <1>5, ApplyCombiner

\* reset_playback_locked enables the outputs and keeps the clocks.
LEMMA ResetPlayback ==
  ASSUME NEW s \in Controllers
  PROVE  LET t == reset_playback_locked(s)
         IN  t \in Controllers /\ t.ok = s.ok /\ t.hw.oe /\ (ClockTrue(s) => ClockTrue(t))
<1> DEFINE h == [s.hw EXCEPT !.oe = TRUE, !.qout = initial_value, !.done = FALSE]
           p == [s.snap EXCEPT !.qout_streamer = initial_value]
           t == [s EXCEPT !.hw = h, !.snap = p]
<1>1. s.hw \in WebHw /\ s.snap \in Snapshots
  BY DEF Controllers
<1>2. /\ h \in WebHw /\ h.oe /\ h.sel = s.hw.sel /\ h.core = s.hw.core
      /\ h.internal = s.hw.internal
  BY <1>1 DEF WebHw, initial_value
<1>3. p \in Snapshots /\ p.tracked = s.snap.tracked
  BY <1>1 DEF Snapshots, initial_value
<1>4. reset_playback_locked(s) = t
  BY DEF reset_playback_locked, Controllers
<1> HIDE DEF h, p
<1>5. t \in Controllers /\ t.ok = s.ok /\ t.hw = h /\ t.snap = p
  BY <1>2, <1>3 DEF Controllers
<1> HIDE DEF t
<1>6. ClockTrue(s) => ClockTrue(t)
  BY <1>2, <1>3, <1>5 DEF ClockTrue
<1> QED
  BY <1>2, <1>4, <1>5, <1>6

\* A reset that does not throw leaves the hardware as the snapshot says.
LEMMA ResetHardware ==
  ASSUME NEW s \in Controllers, s.ok, NEW clocking \in ClockConfig, NEW trigger \in TriggerConfig,
         NEW combiner \in CombConfig, NEW override \in Overrides
  PROVE  LET t == reset_hardware_locked(s, clocking, trigger, combiner, override)
         IN  /\ t \in Controllers
             /\ t.ok => /\ Truthful(t) /\ ~t.degraded
                        /\ t.snap.base = combiner /\ t.snap.override = override
<1> DEFINE a == apply_clock_config_locked(s, clocking)
           sb == reset_playback_locked(a)
           sc == apply_trigger_config_locked(sb, trigger)
           d == apply_combiner_config_locked(sc, combiner)
           e == apply_streamer_override_locked(d, override)
           f == [e EXCEPT !.degraded = FALSE]
<1>1. a \in Controllers /\ (a.ok => ClockTrue(a))
  BY ApplyClock
<1> HIDE DEF a
<1>2. sb \in Controllers /\ sb.hw.oe /\ (ClockTrue(a) => ClockTrue(sb))
  BY <1>1, ResetPlayback
<1> HIDE DEF sb
<1>3. /\ sc \in Controllers /\ sc.hw.oe /\ sc.hw.trig = trigger /\ sc.snap.trigger = trigger
      /\ (ClockTrue(sb) => ClockTrue(sc))
  BY <1>2, ApplyTrigger
<1> HIDE DEF sc
<1>4. /\ d \in Controllers /\ d.hw.oe /\ d.hw.trig = trigger /\ d.snap.trigger = trigger
      /\ d.snap.base = combiner /\ (ClockTrue(sc) => ClockTrue(d))
  BY <1>3, ApplyCombiner
<1> HIDE DEF d
<1>5. /\ e \in Controllers /\ e.hw.oe /\ e.hw.trig = trigger /\ e.snap.trigger = trigger
      /\ e.snap.base = combiner /\ e.snap.override = override
      /\ e.hw.comb = Effective(combiner, override) /\ (ClockTrue(d) => ClockTrue(e))
  BY <1>4, ApplyOverride
<1> HIDE DEF e
<1>6. f \in Controllers /\ ~f.degraded /\ f.hw = e.hw /\ f.snap = e.snap
  BY <1>5 DEF Controllers
<1>7. reset_hardware_locked(s, clocking, trigger, combiner, override) = IF ~a.ok THEN a ELSE f
  BY DEF reset_hardware_locked, a, sb, sc, d, e, f
<1> HIDE DEF f
<1>8. a.ok => Truthful(f)
  BY <1>1, <1>2, <1>3, <1>4, <1>5, <1>6 DEF Truthful, ClockTrue
<1> QED
  BY <1>1, <1>5, <1>6, <1>7, <1>8

\* A change of the configuration takes place, or what was there before does, or
\* the controller is degraded.
LEMMA ReconfigureIs ==
  ASSUME NEW s \in Controllers, s.ok, NEW clocking \in ClockConfig
  PROVE  LET t == Reconfigure(s, clocking)
         IN  /\ t \in Controllers /\ (~t.degraded => Truthful(t))
             /\ t.ok => /\ Truthful(t)
                        /\ t.snap.base = s.snap.base /\ t.snap.override = s.snap.override
<1> DEFINE a == reset_hardware_locked(s, clocking, s.snap.trigger, s.snap.base, s.snap.override)
           sb == [a EXCEPT !.ok = TRUE]
           sc == reset_hardware_locked(sb, s.snap.tracked, s.snap.trigger, s.snap.base,
                                      s.snap.override)
           d == [sc EXCEPT !.ok = FALSE, !.degraded = ~sc.ok]
<1>1. /\ s.snap.tracked \in ClockConfig /\ s.snap.trigger \in TriggerConfig
      /\ s.snap.base \in CombConfig /\ s.snap.override \in Overrides
  BY DEF Controllers, Snapshots, Overrides
<1>2. /\ a \in Controllers
      /\ a.ok => /\ Truthful(a) /\ ~a.degraded
                 /\ a.snap.base = s.snap.base /\ a.snap.override = s.snap.override
  BY <1>1, ResetHardware
<1>3. Reconfigure(s, clocking) = IF a.ok THEN a ELSE d
  BY DEF Reconfigure, restore_known_good_state_locked
<1> HIDE DEF a
<1>4. sb \in Controllers /\ sb.ok
  BY <1>2 DEF Controllers
<1> HIDE DEF sb
<1>5. sc \in Controllers /\ (sc.ok => Truthful(sc))
  BY <1>1, <1>4, ResetHardware
<1> HIDE DEF sc
<1>6. /\ d \in Controllers /\ ~d.ok /\ d.hw = sc.hw /\ d.snap = sc.snap /\ d.synced = sc.synced
      /\ d.degraded = ~sc.ok
  BY <1>5 DEF Controllers
<1> HIDE DEF d
<1>7. Truthful(sc) => Truthful(d)
  BY <1>6 DEF Truthful
<1>8. a.ok \in BOOLEAN /\ sc.ok \in BOOLEAN
  BY <1>2, <1>5 DEF Controllers
<1> QED
  BY <1>2, <1>3, <1>5, <1>6, <1>7, <1>8
-----------------------------------------------------------------------------
\* A snapshot stays truthful when the configuration and the hardware do.
LEMMA TruthfulSame ==
  ASSUME NEW s, NEW t, t.hw = s.hw, SameConfig(s.snap, t.snap), t.synced = s.synced, Truthful(s)
  PROVE  Truthful(t)
BY DEF Truthful, SameConfig

\* The controller's present state, as the operations take it.
LEMMA NowType ==
  ASSUME WebTypes
  PROVE  /\ Now \in Controllers /\ Now.ok /\ Now.hw = hw /\ Now.snap = snapshot
         /\ Now.degraded = degraded /\ Now.synced = synced
BY DEF WebTypes, Now, Controllers

\* Publishing an action or a result changes no configuration.
LEMMA Publish ==
  ASSUME NEW s \in Controllers, NEW action \in WebWords, NEW err \in WebWords,
         NEW run_rc \in WebWords
  PROVE  \A t \in {publish_action(s, action, err), publish_stream_result(s, action, err, run_rc)} :
           /\ t \in Controllers /\ t.ok = s.ok /\ t.hw = s.hw /\ SameConfig(s.snap, t.snap)
           /\ t.degraded = s.degraded /\ t.synced = s.synced
<1> DEFINE p == [s.snap EXCEPT !.seqno = @ + 1, !.last_action = action, !.last_error = err]
           q == [p EXCEPT !.stream_rc = run_rc]
           t == [s EXCEPT !.snap = p]
           u == [s EXCEPT !.snap = q]
<1>1. s.snap \in Snapshots
  BY DEF Controllers
<1>2. p \in Snapshots /\ SameConfig(s.snap, p)
  <2>1. s.snap.seqno + 1 \in Nat
    BY <1>1 DEF Snapshots
  <2>2. p \in Snapshots
    BY <1>1, <2>1 DEF Snapshots
  <2>3. SameConfig(s.snap, p)
    BY <1>1 DEF Snapshots, SameConfig
  <2> QED
    BY <2>2, <2>3
<1>3. publish_action(s, action, err) = t
  BY DEF publish_action, Controllers
<1> HIDE DEF p
<1>4. q \in Snapshots /\ SameConfig(s.snap, q)
  BY <1>2 DEF Snapshots, SameConfig
<1>5. publish_stream_result(s, action, err, run_rc) = u
  BY <1>3 DEF publish_stream_result, Controllers
<1> HIDE DEF q
<1> QED
  BY <1>2, <1>3, <1>4, <1>5 DEF Controllers

\* Publishing the outcome of a run (publish_stream_result) alone.
LEMMA PublishStream ==
  ASSUME NEW s \in Controllers, NEW action \in WebWords, NEW err \in WebWords,
         NEW run_rc \in WebWords
  PROVE  /\ publish_stream_result(s, action, err, run_rc) \in Controllers
         /\ publish_stream_result(s, action, err, run_rc).hw = s.hw
         /\ SameConfig(s.snap, publish_stream_result(s, action, err, run_rc).snap)
         /\ publish_stream_result(s, action, err, run_rc).degraded = s.degraded
         /\ publish_stream_result(s, action, err, run_rc).synced = s.synced
BY Publish

\* Every well-formed request leaves the snapshot truthful or the controller degraded.
LEMMA OperationIs ==
  ASSUME WebTypes, ~degraded => Truthful(Now), NEW n \in 1..NWebRequests,
         WebRequests(n).kind # "stream", well_formed(WebRequests(n))
  PROVE  LET t == Operation(WebRequests(n))
         IN  t \in Controllers /\ (~t.degraded => Truthful(t))
<1> DEFINE r == WebRequests(n)
<1>1. /\ Now \in Controllers /\ Now.ok /\ (~Now.degraded => Truthful(Now))
      /\ snapshot.tracked \in ClockConfig /\ snapshot.trigger \in TriggerConfig
      /\ Now.snap = snapshot /\ Now.degraded = degraded
  BY NowType DEF WebTypes, Snapshots
<1>2. CASE r.kind = "status"
  BY <1>1, <1>2 DEF Operation
<1>3. CASE r.kind = "qout"
  <2> DEFINE ov == [enabled |-> r.enabled, value |-> r.value]
  <2>1. ov \in Overrides
    BY <1>3 DEF well_formed, parse_streamer_override_request, parse_u32_literal, Overrides, MAX_U32
  <2>2. Operation(r) = apply_streamer_override_locked(Now, ov)
    BY <1>3 DEF Operation, apply_streamer_override
  <2> HIDE DEF ov
  <2> DEFINE t == apply_streamer_override_locked(Now, ov)
  <2>3. /\ t \in Controllers /\ t.degraded = Now.degraded
        /\ (ClockTrue(Now) => ClockTrue(t)) /\ t.hw.oe = Now.hw.oe
        /\ t.hw.comb = Effective(t.snap.base, t.snap.override)
        /\ t.hw.trig = Now.hw.trig /\ t.snap.trigger = Now.snap.trigger /\ t.synced = Now.synced
    BY <1>1, <2>1, ApplyOverride
  <2> HIDE DEF t
  <2>4. Truthful(Now) => Truthful(t)
    BY <2>3 DEF Truthful, ClockTrue
  <2> QED
    BY <1>1, <2>2, <2>3, <2>4 DEF t
<1>4. CASE r.kind = "clocking"
  <2> DEFINE sc == [source |-> r.source, core |-> r.core, internal |-> r.internal]
  <2>1. sc \in ClockConfig
    BY <1>4, WebAssumption DEF well_formed, parse_clock_config_request, clock_source_from_string,
                               ClockConfig
  <2>2. Operation(r) \in {Reconfigure(Now, sc), Fails(Now)}
    BY <1>4 DEF Operation, apply_clock_config, clock_config_from_request
  <2>3. Fails(Now) \in Controllers /\ Fails(Now).hw = Now.hw /\ Fails(Now).snap = Now.snap
        /\ Fails(Now).degraded = Now.degraded /\ Fails(Now).synced = Now.synced
    BY <1>1 DEF Fails, Controllers
  <2>4. ~Fails(Now).degraded => Truthful(Fails(Now))
    BY <1>1, <2>3 DEF Truthful
  <2> HIDE DEF sc
  <2> QED
    BY <1>1, <2>1, <2>2, <2>3, <2>4, ReconfigureIs
<1>5. CASE r.kind = "measure"
  <2>1. Operation(r) = measure_clocks_locked(Now)
    BY <1>5 DEF Operation, measure_clocks
  <2> QED
    BY <1>1, <2>1, MeasureClocks, TruthfulSame
<1>6. CASE r.kind = "trigger"
  <2> DEFINE sc == trigger_config_from_request(r)
  <2>1. sc \in TriggerConfig
    BY <1>1, <1>6 DEF well_formed, parse_trigger_config_request, trigger_mode_from_string,
      parse_u32_literal, MAX_U32, trigger_config_from_request, TriggerConfig
  <2>2. Operation(r) = apply_trigger_config_locked(Now, sc)
    BY <1>6 DEF Operation, apply_trigger_config
  <2> HIDE DEF sc
  <2> DEFINE t == apply_trigger_config_locked(Now, sc)
  <2>3. /\ t \in Controllers /\ t.degraded = Now.degraded
        /\ (ClockTrue(Now) => ClockTrue(t)) /\ t.hw.oe = Now.hw.oe
        /\ t.hw.comb = Now.hw.comb /\ t.snap.base = Now.snap.base
        /\ t.snap.override = Now.snap.override /\ t.hw.trig = t.snap.trigger
    BY <1>1, <2>1, ApplyTrigger
  <2> HIDE DEF t
  <2>4. Truthful(Now) => Truthful(t)
    BY <2>3 DEF Truthful, ClockTrue
  <2> QED
    BY <1>1, <2>2, <2>3, <2>4 DEF t
<1>7. CASE r.kind = "combiner"
  <2> DEFINE sc == [mode |-> r.mode, force |-> r.force, value |-> r.value]
  <2>1. sc \in CombConfig
    BY <1>7 DEF well_formed, parse_combiner_request, comb_mode_from_string, parse_u32_literal,
                MAX_U32, CombConfig
  <2>2. Operation(r) = apply_combiner_config_locked(Now, sc)
    BY <1>7 DEF Operation, apply_combiner_config
  <2> HIDE DEF sc
  <2> DEFINE t == apply_combiner_config_locked(Now, sc)
  <2>3. /\ t \in Controllers /\ t.degraded = Now.degraded
        /\ (ClockTrue(Now) => ClockTrue(t)) /\ t.hw.oe = Now.hw.oe
        /\ t.hw.comb = Effective(t.snap.base, t.snap.override)
        /\ t.hw.trig = Now.hw.trig /\ t.snap.trigger = Now.snap.trigger /\ t.synced = Now.synced
    BY <1>1, <2>1, ApplyCombiner
  <2> HIDE DEF t
  <2>4. Truthful(Now) => Truthful(t)
    BY <2>3 DEF Truthful, ClockTrue
  <2> QED
    BY <1>1, <2>2, <2>3, <2>4 DEF t
<1>8. CASE r.kind = "reset"
  <2>1. Operation(r) = Reconfigure(Now, snapshot.tracked)
    BY <1>8 DEF Operation, reset_hardware
  <2> QED
    BY <1>1, <2>1, ReconfigureIs
<1> QED
  BY <1>2, <1>3, <1>4, <1>5, <1>6, <1>7, <1>8, WebAssumption DEF Routes

\* The controller's state after a step that leaves the handlers' types alone.
LEMMA AfterStep ==
  ASSUME NEW t \in Controllers, ~t.degraded => Truthful(t),
         hw' = t.hw, SameConfig(t.snap, snapshot'), snapshot' \in Snapshots,
         degraded' = t.degraded, synced' = t.synced
  PROVE  /\ hw' \in WebHw /\ degraded' \in BOOLEAN /\ synced' \in BOOLEAN
         /\ StatusTruthful'
BY DEF StatusTruthful, Truthful, SameConfig, Controllers

\* StatusTruthful is about the present state.
LEMMA StatusIs == StatusTruthful <=> (~degraded => Truthful(Now))
BY DEF StatusTruthful, Truthful, Now

\* A step of one thread that ends at a named place with its request.
LEMMA HandlerMoves ==
  ASSUME WebTypes, NEW w \in Handlers, handler[w].at # "idle",
         NEW at \in {"bad_request", "exception", "done", "failed"},
         handler' = [handler EXCEPT ![w].at = at]
  PROVE  /\ handler' \in [Handlers -> [at : HandlerStates, req : Nat]]
         /\ \A v \in Handlers : handler'[v].at # "idle" =>
              /\ handler'[v].req \in 1..NWebRequests
              /\ handler'[v].at = "parsed" => well_formed(WebRequests(handler'[v].req))
<1>1. handler[w] \in [at : HandlerStates, req : Nat]
  BY DEF WebTypes
<1> DEFINE x == [handler[w] EXCEPT !.at = at]
<1>2. x \in [at : HandlerStates, req : Nat] /\ x.at = at /\ x.req = handler[w].req
  BY <1>1 DEF HandlerStates
<1>3. handler' = [handler EXCEPT ![w] = x]
  BY DEF WebTypes
<1> HIDE DEF x
<1>4. handler' \in [Handlers -> [at : HandlerStates, req : Nat]] /\ handler'[w] = x
      /\ \A v \in Handlers : v # w => handler'[v] = handler[v]
  BY <1>2, <1>3 DEF WebTypes
<1> QED
  BY <1>2, <1>4 DEF WebTypes, Request

\* The types after a step, part by part.
LEMMA WebTypesNext ==
  ASSUME handler' \in [Handlers -> [at : HandlerStates, req : Nat]],
         \A v \in Handlers : handler'[v].at # "idle" =>
              /\ handler'[v].req \in 1..NWebRequests
              /\ handler'[v].at = "parsed" => well_formed(WebRequests(handler'[v].req)),
         hw' \in WebHw, snapshot' \in Snapshots, degraded' \in BOOLEAN, synced' \in BOOLEAN
  PROVE  WebTypes'
BY DEF WebTypes, Request

\* A request that is served keeps the snapshot truthful.
LEMMA ServeStep ==
  ASSUME WebInv, NEW w \in Handlers, Serve(w)
  PROVE  WebInv'
<1> DEFINE n == handler[w].req
           t == Operation(WebRequests(n))
           p == publish_action(t, WebRequests(n).kind, "none")
<1>1. /\ handler[w].at = "parsed" /\ n \in 1..NWebRequests /\ WebRequests(n).kind # "stream"
      /\ well_formed(WebRequests(n))
  BY DEF Serve, WebInv, WebTypes, Request
<1>2. t \in Controllers /\ (~t.degraded => Truthful(t))
  BY <1>1, OperationIs, StatusIs DEF WebInv, WebTruthful
<1>3. p.snap \in Snapshots /\ SameConfig(t.snap, p.snap)
  <2>1. WebRequests(n).kind \in WebWords /\ "none" \in WebWords
    BY <1>1, WebAssumption DEF WebWords
  <2>2. p \in Controllers /\ SameConfig(t.snap, p.snap)
    BY <1>2, <2>1, Publish
  <2> QED
    BY <2>2 DEF Controllers
<1>4. /\ hw' = t.hw /\ degraded' = t.degraded /\ synced' = t.synced /\ lastRun' = lastRun
      /\ snapshot' \in {p.snap, t.snap}
      /\ handler' = [handler EXCEPT ![w].at = IF t.ok THEN "done" ELSE "failed"]
  BY DEF Serve, Commit, Request
<1> HIDE DEF t, p, n
<1>5. snapshot' \in Snapshots /\ SameConfig(t.snap, snapshot')
  BY <1>2, <1>3, <1>4 DEF Controllers, SameConfig
<1>6. /\ hw' \in WebHw /\ degraded' \in BOOLEAN /\ synced' \in BOOLEAN /\ StatusTruthful'
  BY <1>2, <1>4, <1>5, AfterStep
<1>7. WebTypes'
  BY <1>1, <1>4, <1>5, <1>6, HandlerMoves, WebTypesNext DEF WebInv
<1> QED
  BY <1>4, <1>6, <1>7 DEF WebInv, WebTruthful, StreamReachesPins

\* A stream that fails before it runs keeps the snapshot truthful.
LEMMA StreamFailsStep ==
  ASSUME WebInv, NEW w \in Handlers, StreamFails(w)
  PROVE  WebInv'
<1> DEFINE t == Reconfigure(Now, snapshot.tracked)
<1>1. t \in Controllers /\ (~t.degraded => Truthful(t))
  BY NowType, ReconfigureIs DEF WebInv, WebTypes, Snapshots
<1>2. \/ UNCHANGED <<hw, snapshot, webHistory>>
      \/ /\ hw' = t.hw /\ snapshot' = t.snap /\ degraded' = t.degraded /\ synced' = t.synced
         /\ lastRun' = lastRun
  BY DEF StreamFails, prepared
<1>3. PICK at \in {"bad_request", "exception"} : handler' = [handler EXCEPT ![w].at = at]
  BY DEF StreamFails
<1>4. handler[w].at = "parsed"
  BY DEF StreamFails
<1> HIDE DEF t
<1>5. /\ hw' \in WebHw /\ snapshot' \in Snapshots /\ degraded' \in BOOLEAN /\ synced' \in BOOLEAN
      /\ StatusTruthful' /\ lastRun' = lastRun
  <2>1. CASE UNCHANGED <<hw, snapshot, webHistory>>
    BY <2>1 DEF WebInv, WebTypes, WebTruthful, StatusTruthful, webHistory
  <2>2. CASE /\ hw' = t.hw /\ snapshot' = t.snap /\ degraded' = t.degraded
             /\ synced' = t.synced /\ lastRun' = lastRun
    <3>1. snapshot' \in Snapshots /\ SameConfig(t.snap, snapshot')
      BY <1>1, <2>2 DEF Controllers, SameConfig
    <3> QED
      BY <1>1, <2>2, <3>1, AfterStep
  <2> QED
    BY <1>2, <2>1, <2>2
<1>6. WebTypes'
  BY <1>3, <1>4, <1>5, HandlerMoves, WebTypesNext DEF WebInv
<1> QED
  BY <1>5, <1>6 DEF WebInv, WebTruthful, StreamReachesPins

\* A stream's result is published truthfully.
LEMMA StreamResult ==
  ASSUME NEW s \in Controllers, NEW run_rc \in {"OK", "TIMEOUT", "ERROR_CHECK"}
  PROVE  LET t == stream_result(s, run_rc)
         IN  /\ t \in Controllers /\ (Truthful(s) => Truthful(t)) /\ t.degraded = s.degraded
             /\ t.synced = s.synced
             /\ run_rc = "OK" => /\ t.hw.qout = s.snap.qout_streamer
                                 /\ ~s.snap.override.enabled => t.snap.qout = s.snap.qout_streamer
<1> DEFINE a == IF run_rc = "OK" THEN s.snap.qout_streamer ELSE s.hw.qout
           sb == run_rc = "OK" /\ s.hw.done_mask = 1
           sc == IF run_rc = "OK" /\ ~s.snap.override.enabled
                   THEN s.snap.qout_streamer ELSE s.snap.qout
           h == [s.hw EXCEPT !.qout = a, !.done = sb]
           p == [s.snap EXCEPT !.qout = sc]
           x == [s EXCEPT !.hw = h, !.snap = p]
<1>1. s.hw \in WebHw /\ s.snap \in Snapshots
  BY DEF Controllers
<1>2. a \in Nat /\ sb \in BOOLEAN /\ sc \in Nat
  BY <1>1 DEF WebHw, Snapshots
<1>3. x = [s EXCEPT !.hw.qout = IF run_rc = "OK" THEN s.snap.qout_streamer ELSE @,
                    !.hw.done = run_rc = "OK" /\ s.hw.done_mask = 1,
                    !.snap.qout = IF run_rc = "OK" /\ ~s.snap.override.enabled
                                    THEN s.snap.qout_streamer ELSE @]
  BY DEF Controllers, WebHw, Snapshots
<1>4. (run_rc = "OK" => a = s.snap.qout_streamer)
      /\ (run_rc = "OK" /\ ~s.snap.override.enabled => sc = s.snap.qout_streamer)
  OBVIOUS
<1> HIDE DEF a, sb, sc
<1>5. /\ h \in WebHw /\ h.qout = a /\ h.comb = s.hw.comb /\ h.trig = s.hw.trig /\ h.oe = s.hw.oe
      /\ h.sel = s.hw.sel /\ h.core = s.hw.core /\ h.internal = s.hw.internal
  BY <1>1, <1>2 DEF WebHw
<1>6. /\ p \in Snapshots /\ p.qout = sc /\ p.tracked = s.snap.tracked /\ p.base = s.snap.base
      /\ p.override = s.snap.override /\ p.trigger = s.snap.trigger
  BY <1>1, <1>2 DEF Snapshots
<1> DEFINE act == IF run_rc = "OK" THEN "stream" ELSE "stream failed"
           err == IF run_rc = "OK" THEN "none" ELSE run_rc
<1>7. stream_result(s, run_rc) = publish_stream_result(x, act, err, run_rc)
  <2> HIDE DEF x
  <2> QED
    BY <1>3 DEF stream_result
<1> HIDE DEF h, p
<1>8. /\ x \in Controllers /\ x.hw = h /\ x.snap = p /\ x.degraded = s.degraded
      /\ x.synced = s.synced
  BY <1>5, <1>6 DEF Controllers
<1>9. act \in WebWords /\ err \in WebWords /\ run_rc \in WebWords
  BY DEF WebWords, Routes
<1> HIDE DEF x, act, err
<1> DEFINE t == publish_stream_result(x, act, err, run_rc)
<1>10. /\ t \in Controllers /\ t.hw = x.hw /\ SameConfig(x.snap, t.snap)
       /\ t.degraded = x.degraded /\ t.synced = x.synced
  <2>1. \A sx \in Controllers, e, f, run \in WebWords :
          /\ publish_stream_result(sx, e, f, run) \in Controllers
          /\ publish_stream_result(sx, e, f, run).hw = sx.hw
          /\ SameConfig(sx.snap, publish_stream_result(sx, e, f, run).snap)
          /\ publish_stream_result(sx, e, f, run).degraded = sx.degraded
          /\ publish_stream_result(sx, e, f, run).synced = sx.synced
    BY PublishStream
  <2>2. x \in Controllers /\ act \in WebWords /\ err \in WebWords /\ run_rc \in WebWords
    BY <1>8, <1>9
  <2>3. t = publish_stream_result(x, act, err, run_rc)
    OBVIOUS
  <2>4. publish_stream_result(x, act, err, run_rc) \in Controllers
    BY <2>1, <2>2
  <2>5. publish_stream_result(x, act, err, run_rc).hw = x.hw
    BY <2>1, <2>2
  <2>6. SameConfig(x.snap, publish_stream_result(x, act, err, run_rc).snap)
    BY <2>1, <2>2
  <2>7. publish_stream_result(x, act, err, run_rc).degraded = x.degraded
    BY <2>1, <2>2
  <2>8. publish_stream_result(x, act, err, run_rc).synced = x.synced
    BY <2>1, <2>2
  <2> HIDE DEF t
  <2> QED
    BY <2>3, <2>4, <2>5, <2>6, <2>7, <2>8
<1> HIDE DEF t
<1>11. Truthful(s) => Truthful(t)
  <2>1. Truthful(s) => Truthful(x)
    BY <1>5, <1>6, <1>8 DEF Truthful
  <2> QED
    BY <2>1, <1>10, TruthfulSame
<1>12. t.hw.qout = a /\ t.snap.qout = sc
  BY <1>5, <1>6, <1>8, <1>10 DEF SameConfig
<1> QED
  BY <1>4, <1>7, <1>8, <1>10, <1>11, <1>12 DEF t

\* A stream request that runs keeps the snapshot truthful.
LEMMA StreamStep ==
  ASSUME WebInv, NEW w \in Handlers, NEW run_rc \in {"OK", "TIMEOUT", "ERROR_CHECK"},
         Stream(w, run_rc)
  PROVE  WebInv'
<1> DEFINE t == Reconfigure(Now, snapshot.tracked)
           u == stream_result(t, run_rc)
<1>1. t \in Controllers /\ Truthful(t) /\ t.snap.base = snapshot.base
      /\ t.snap.override = snapshot.override
  <2>1. Reconfigure(Now, snapshot.tracked).ok
    BY DEF Stream, prepared
  <2> QED
    BY <2>1, NowType, ReconfigureIs DEF WebInv, WebTypes, Snapshots
<1>2. /\ hw' = u.hw /\ snapshot' = u.snap /\ degraded' = t.degraded /\ synced' = t.synced
      /\ lastRun'.rc = run_rc /\ lastRun'.forced = t.hw.comb.force /\ lastRun'.final = u.hw.qout
      /\ lastRun'.shown = u.snap.qout
      /\ handler[w].at = "parsed" /\ handler' = [handler EXCEPT ![w].at = "done"]
      /\ ~snapshot.override.enabled /\ ~snapshot.base.force
  BY DEF Stream, prepared, OutputForced
<1> HIDE DEF t
<1>3. /\ u \in Controllers /\ Truthful(u) /\ u.degraded = t.degraded /\ u.synced = t.synced
      /\ run_rc = "OK" => u.hw.qout = t.snap.qout_streamer /\ u.snap.qout = t.snap.qout_streamer
  BY <1>1, <1>2, StreamResult
<1> HIDE DEF u
<1>4. snapshot' \in Snapshots /\ SameConfig(u.snap, snapshot')
  BY <1>2, <1>3 DEF Controllers, SameConfig
<1>5. /\ hw' \in WebHw /\ degraded' \in BOOLEAN /\ synced' \in BOOLEAN /\ StatusTruthful'
  BY <1>2, <1>3, <1>4, AfterStep
<1>6. WebTypes'
  BY <1>2, <1>4, <1>5, HandlerMoves, WebTypesNext DEF WebInv
<1>7. StreamReachesPins'
  <2>1. snapshot.base \in CombConfig /\ snapshot.override \in Overrides
    BY DEF WebInv, WebTypes, Snapshots, Overrides
  <2>2. ~t.hw.comb.force
    BY <1>1, <1>2, <2>1, EffectiveType DEF Truthful
  <2> QED
    BY <1>2, <1>3, <2>2 DEF StreamReachesPins
<1> QED
  BY <1>5, <1>6, <1>7 DEF WebInv, WebTruthful

\* A failure that is published keeps the snapshot truthful.
LEMMA PublishFailureStep ==
  ASSUME WebInv, NEW w \in Handlers, PublishFailure(w)
  PROVE  WebInv'
<1> DEFINE t == publish_stream_result(Now, "stream failed", handler[w].at, handler[w].at)
<1>1. handler[w].at \in WebWords /\ handler[w].at # "idle" /\ "stream failed" \in WebWords
  BY DEF PublishFailure, WebWords
<1>2. t \in Controllers /\ SameConfig(snapshot, t.snap)
  BY <1>1, NowType, Publish, ZenonT(60) DEF WebInv
<1>3. /\ hw' = hw /\ snapshot' = t.snap /\ degraded' = degraded /\ synced' = synced
      /\ lastRun' = lastRun /\ handler' = [handler EXCEPT ![w].at = "failed"]
  BY DEF PublishFailure, webHistory
<1> HIDE DEF t
<1>4. snapshot' \in Snapshots /\ StatusTruthful'
  BY <1>2, <1>3 DEF Controllers, WebInv, WebTruthful, StatusTruthful, SameConfig
<1>5. WebTypes'
  BY <1>1, <1>3, <1>4, HandlerMoves, WebTypesNext DEF WebInv, WebTypes
<1> QED
  BY <1>3, <1>4, <1>5 DEF WebInv, WebTruthful, StreamReachesPins

\* An answer changes nothing of the controller.
LEMMA AnswerStep ==
  ASSUME WebInv, NEW w \in Handlers, Answer(w)
  PROVE  WebInv'
<1> DEFINE k == Request(w).kind
           p == [snapshot EXCEPT !.last_error = k, !.seqno = @ + 1]
<1>1. /\ snapshot \in Snapshots /\ k \in WebWords
  BY WebAssumption DEF WebInv, WebTypes, Answer, Request, WebWords
<1> HIDE DEF k
<1>2. p \in Snapshots /\ SameConfig(snapshot, p) /\ SameConfig(snapshot, snapshot)
  <2>1. snapshot.seqno + 1 \in Nat
    BY <1>1 DEF Snapshots
  <2>2. p \in Snapshots
    BY <1>1, <2>1 DEF Snapshots
  <2>3. SameConfig(snapshot, p) /\ SameConfig(snapshot, snapshot)
    BY <1>1 DEF Snapshots, SameConfig
  <2> QED
    BY <2>2, <2>3
<1>3. /\ hw' = hw /\ snapshot' \in {p, snapshot} /\ degraded' = degraded /\ synced' = synced
      /\ lastRun' = lastRun /\ handler' = [handler EXCEPT ![w] = IdleHandler]
  BY DEF Answer, webHistory, k
<1> HIDE DEF p
<1>4. snapshot' \in Snapshots /\ StatusTruthful'
  BY <1>1, <1>2, <1>3 DEF WebInv, WebTruthful, StatusTruthful, SameConfig
<1>5. WebTypes'
  <2>1. IdleHandler \in [at : HandlerStates, req : Nat] /\ IdleHandler.at = "idle"
    BY DEF IdleHandler, HandlerStates
  <2>2. /\ handler' \in [Handlers -> [at : HandlerStates, req : Nat]]
        /\ \A v \in Handlers : handler'[v] = handler[v] \/ handler'[v].at = "idle"
    BY <1>3, <2>1 DEF WebInv, WebTypes
  <2> QED
    BY <1>3, <1>4, <2>2, WebTypesNext DEF WebInv, WebTypes, Request
<1> QED
  BY <1>3, <1>4, <1>5 DEF WebInv, WebTruthful, StreamReachesPins

\* A request that arrives changes nothing of the controller.
LEMMA ReceiveStep ==
  ASSUME WebInv, NEW w \in Handlers, NEW n \in 1..NWebRequests, Receive(w, n)
  PROVE  WebInv'
<1> DEFINE x == [at |-> IF well_formed(WebRequests(n)) THEN "parsed" ELSE "failed", req |-> n]
<1>1. /\ hw' = hw /\ snapshot' = snapshot /\ degraded' = degraded /\ synced' = synced
      /\ lastRun' = lastRun /\ handler' = [handler EXCEPT ![w] = x]
  BY DEF Receive, webHistory
<1>2. /\ x \in [at : HandlerStates, req : Nat] /\ x.req = n
      /\ x.at = "parsed" => well_formed(WebRequests(n))
  BY WebAssumption DEF HandlerStates
<1> HIDE DEF x
<1>3. /\ handler' \in [Handlers -> [at : HandlerStates, req : Nat]] /\ handler'[w] = x
      /\ \A v \in Handlers : v # w => handler'[v] = handler[v]
  BY <1>1, <1>2 DEF WebInv, WebTypes
<1>4. WebTypes'
  BY <1>1, <1>2, <1>3, WebTypesNext DEF WebInv, WebTypes, Request
<1> QED
  BY <1>1, <1>4 DEF WebInv, WebTruthful, StatusTruthful, StreamReachesPins

\* The controller starts with a truthful snapshot.
LEMMA WebStart == WebInit => WebInv
<1> SUFFICES ASSUME WebInit PROVE WebInv
  OBVIOUS
<1>1. PICK n \in 1..NWebConfigs, lines \in {0, 1} : ControllerStarts(WebConfigs(n), lines)
  BY DEF WebInit
<1> DEFINE conf == WebConfigs(n)
           h == BoardAtStart(conf, lines)
           p == SnapshotAtStart(conf)
           a == [ok |-> TRUE, hw |-> h, snap |-> p, degraded |-> FALSE, synced |-> FALSE]
<1>2. /\ conf.clock \in ClockConfig /\ conf.trigger \in TriggerConfig /\ conf.comb \in CombConfig
      /\ conf.clock.core \in Profiles /\ conf.clock.internal \in Profiles
      /\ conf.clock.source \in {"keep", "int", "ext"}
      /\ conf.trigger.mode \in {"INT", "EXT", "MISC", "OR", "AND"}
  BY WebAssumption DEF ClockConfig, TriggerConfig
<1> HIDE DEF conf
<1>3. /\ h \in WebHw /\ h.sel = IF conf.clock.source = "ext" THEN sel_ext ELSE sel_int
      /\ h.oe
  <2>1. PassThrough \in CombConfig
    BY DEF PassThrough, CombConfig, CombModes
  <2>2. [mode |-> conf.trigger.mode, lines |-> lines, aux |-> 0] \in TriggerConfig
    BY <1>2 DEF TriggerConfig
  <2> QED
    BY <2>1, <2>2, WebAssumption DEF BoardAtStart, WebHw, sel_ext, sel_int, initial_value
<1>4. p \in Snapshots /\ p.tracked = conf.clock /\ p.base = conf.comb /\ p.override = NoOverride
  <2>1. NoOverride \in [enabled : BOOLEAN, value : Nat]
    BY DEF NoOverride
  <2>2. "OK" \in WebWords /\ "idle" \in WebWords /\ "none" \in WebWords /\ initial_value \in Nat
    BY DEF WebWords, initial_value
  <2> QED
    BY <1>2, <2>1, <2>2 DEF SnapshotAtStart, Snapshots
<1> DEFINE sb == set_pll(a, "core", conf.clock.core)
           sc == set_pll(sb, "int", conf.clock.internal)
           d == apply_combiner_config_locked(sc, conf.comb)
           e == measure_clocks_locked(d)
<1>5. e.ok /\ hw = e.hw /\ snapshot = e.snap
  BY <1>1 DEF ControllerStarts, conf
<1> HIDE DEF h, p
<1>6. a \in Controllers /\ a.ok /\ a.hw = h /\ a.snap = p
  BY <1>3, <1>4 DEF Controllers
<1> HIDE DEF a
<1>7. /\ sb \in Controllers /\ sb.snap = p /\ sb.hw.sel = h.sel
      /\ sb.ok /\ conf.clock.core # "" => sb.hw.core = conf.clock.core
  BY <1>2, <1>6, SetPll, ZenonT(60)
<1>8. /\ sb.hw.oe
  BY <1>2, <1>3, <1>6 DEF set_pll, Controllers, WebHw, Fails
<1>9. sc.ok => sb.ok
  BY <1>2, <1>7 DEF set_pll
<1> HIDE DEF sb
<1>10. /\ sc \in Controllers /\ sc.snap = p /\ sc.hw.sel = h.sel /\ sc.hw.core = sb.hw.core
       /\ sc.ok /\ conf.clock.internal # "" => sc.hw.internal = conf.clock.internal
  BY <1>2, <1>7, SetPll
<1>11. sc.hw.oe
  BY <1>2, <1>7, <1>8 DEF set_pll, Controllers, WebHw, Fails
<1> HIDE DEF sc
<1>12. sc.ok => ClockTrue(sc)
  BY <1>2, <1>3, <1>4, <1>7, <1>9, <1>10 DEF ClockTrue
<1>13. /\ d \in Controllers /\ d.ok = sc.ok /\ d.hw.comb = Effective(conf.comb, d.snap.override)
       /\ d.hw.oe /\ d.snap.base = conf.comb /\ (ClockTrue(sc) => ClockTrue(d))
  <2>1. sc \in Controllers /\ conf.comb \in CombConfig
    BY <1>2, <1>10
  <2>2. /\ d \in Controllers /\ d.ok = sc.ok /\ d.hw.comb = Effective(conf.comb, sc.snap.override)
        /\ d.hw.oe = sc.hw.oe /\ d.snap.base = conf.comb /\ d.snap.override = sc.snap.override
        /\ (ClockTrue(sc) => ClockTrue(d))
    BY <2>1, ApplyCombiner
  <2> QED
    BY <1>11, <2>2
<1> HIDE DEF d
<1>14. e \in Controllers /\ e.hw = d.hw /\ (e.ok => d.ok) /\ SameConfig(d.snap, e.snap)
  BY <1>13, MeasureClocks
<1> HIDE DEF e
<1>15. StatusTruthful
  BY <1>5, <1>12, <1>13, <1>14 DEF WebInit, StatusTruthful, ClockTrue, SameConfig
<1>16. hw \in WebHw /\ snapshot \in Snapshots
  BY <1>5, <1>14 DEF Controllers
<1>17. /\ handler \in [Handlers -> [at : HandlerStates, req : Nat]]
       /\ \A w \in Handlers : handler[w].at = "idle"
  BY DEF WebInit, IdleHandler, HandlerStates
<1> QED
  BY <1>15, <1>16, <1>17 DEF WebInit, WebInv, WebTypes, WebTruthful, StreamReachesPins

\* What the browser shows is so, whatever failed and whoever else was served.
THEOREM WebAlwaysTruthful == WebSpec => []WebTruthful
<1>1. WebInv /\ [WebNext]_webVars => WebInv'
  <2> SUFFICES ASSUME WebInv, [WebNext]_webVars PROVE WebInv'
    OBVIOUS
  <2>1. CASE PlugExt
    BY <2>1 DEF PlugExt, webHistory, WebInv, WebTypes, WebTruthful, StatusTruthful,
                StreamReachesPins, Request
  <2>2. CASE UNCHANGED webVars
    BY <2>2 DEF webVars, WebInv, WebTypes, WebTruthful, StatusTruthful, StreamReachesPins, Request
  <2> QED
    BY <2>1, <2>2, ReceiveStep, ServeStep, StreamFailsStep, StreamStep, PublishFailureStep,
       AnswerStep DEF WebNext
<1>2. WebInv => WebTruthful
  BY DEF WebInv
<1> QED
  BY <1>1, <1>2, WebStart, PTL DEF WebSpec
-----------------------------------------------------------------------------
(***************************************************************************)
(* A client of the SCPI server gets every reply, in order, and a sequence  *)
(* that did not parse is never replaced by the one before it: for every    *)
(* set of sessions and lines and every order of reads and writes.          *)
(*                                                                         *)
(* A line is handled one command after the other; the table of the states  *)
(* between them exists because a command leaves the session well-formed.   *)
(***************************************************************************)
ScpiSpec == ScpiInit /\ [][ScpiNext]_scpiVars

ScpiErrors ==
  {"rc", "exception", "bad boolean", "not queryable", "Query form required", "no action",
   "unknown token"}
ScpiReplies ==
  ScpiErrors \cup {"IDN", "1", "SESR", "STB", "STB_MAV", "No error", "Hz", "SUCCESS", "FAILURE",
                   "LOADED", "TRUE", "FALSE", "ERROR"}
EventBits ==
  {"POWER_ON", "OPERATION_COMPLETE", "EXECUTION_ERROR", "QUERY_ERROR", "COMMAND_ERROR"}
Connections ==
  [state : {"none", "open", "eof", "closed"}, elements : Nat, check : BOOLEAN,
   errors : Seq(ScpiErrors), sesr : SUBSET EventBits, gen : Nat,
   write_queue : Seq(ScpiReplies), write_in_progress : BOOLEAN, close_after_writes : BOOLEAN,
   produced : Seq(ScpiReplies), delivered : Seq(ScpiReplies),
   cause : {"none", "eof", "client", "error"}]

\* Nothing is lost while the connection is there, and no write is forgotten.
Flows(ses) ==
  /\ ses.cause = "none" /\ ses.delivered \o ses.write_queue = ses.produced
  /\ ses.write_in_progress <=> ses.write_queue # <<>>
Kept(ses) ==
  /\ ses.state \in {"open", "eof"} => Flows(ses)
  /\ IsPrefix(ses.delivered, ses.produced)
  /\ ses.cause = "eof" => ses.delivered = ses.produced
  /\ ses.state = "closed" => ses.cause # "none"
  /\ ses.write_in_progress => ses.write_queue # <<>>

ScpiInv ==
  /\ session \in [Sessions -> Connections] /\ \A s \in Sessions : Kept(session[s])
  /\ StaleNeverPlays

\* The state in which a command of a line is handled.
CleanPlays == [elements : Int, check : BOOLEAN, dirty : {FALSE}]
Handling ==
  [ses : Connections, play : Seq(CleanPlays), resp : ScpiReplies \cup {""},
   act : {"continue_reading", "close_session", "stop_server"}, dirty : BOOLEAN]
\* A handler leaves the connection alone.
SameConnection(p, q) ==
  /\ q.state = p.state /\ q.write_queue = p.write_queue /\ q.produced = p.produced
  /\ q.write_in_progress = p.write_in_progress /\ q.delivered = p.delivered /\ q.cause = p.cause
-----------------------------------------------------------------------------
\* push_error puts one error in the queue and counts it.
LEMMA PushError ==
  ASSUME NEW x \in Handling, NEW err \in ScpiErrors, NEW bit \in EventBits
  PROVE  LET t == push_error(x, err, bit)
         IN  /\ t \in Handling /\ SameConnection(x.ses, t.ses) /\ t.ses.gen = x.ses.gen + 1
             /\ t.dirty = x.dirty
<1>1. x.ses \in Connections
  BY DEF Handling
<1> DEFINE es == Append(IF Len(x.ses.errors) > MAX_QUEUED THEN Tail(x.ses.errors)
                          ELSE x.ses.errors, err)
           bits == x.ses.sesr \cup {bit}
           n == x.ses.gen + 1
           p == [x.ses EXCEPT !.errors = es, !.sesr = bits, !.gen = n]
           t == [x EXCEPT !.ses = p]
<1>2. es \in Seq(ScpiErrors)
  <2>1. x.ses.errors \in Seq(ScpiErrors)
    BY <1>1 DEF Connections
  <2>2. Len(x.ses.errors) > MAX_QUEUED => x.ses.errors # <<>>
    BY <2>1 DEF MAX_QUEUED
  <2> QED
    BY <2>1, <2>2
<1>3. bits \in SUBSET EventBits /\ n \in Nat
  BY <1>1 DEF Connections
<1>4. push_error(x, err, bit) = t
  BY DEF push_error, Handling, Connections
<1> HIDE DEF es, bits, n
<1>5. p \in Connections /\ SameConnection(x.ses, p) /\ p.gen = n
  BY <1>1, <1>2, <1>3 DEF Connections, SameConnection
<1> HIDE DEF p
<1>6. t \in Handling /\ t.ses = p /\ t.dirty = x.dirty
  BY <1>5 DEF Handling
<1> QED
  BY <1>4, <1>5, <1>6 DEF n

\* A playback is recorded with what is played, and its failure is an error.
LEMMA PlayIs ==
  ASSUME NEW x \in Handling, NEW k \in Int, NEW ck \in BOOLEAN, NEW code, ~x.dirty
  PROVE  LET t == Play(x, k, ck, code)
         IN  t \in Handling /\ SameConnection(x.ses, t.ses) /\ ~t.dirty
<1> DEFINE e == [elements |-> k, check |-> ck, dirty |-> x.dirty]
           pl == Append(x.play, e)
           p == [x EXCEPT !.play = pl]
           Answered(r) == [p EXCEPT !.resp = r]
<1>1. e \in CleanPlays
  <2>1. x.dirty = FALSE
    BY DEF Handling
  <2> QED
    BY <2>1 DEF CleanPlays
<1>2. x.play \in Seq(CleanPlays) /\ x.ses \in Connections
  BY DEF Handling
<1>3. Play(x, k, ck, code) \in {Answered("SUCCESS"), Faulty(p),
                               push_error(Answered("FAILURE"), "rc", "EXECUTION_ERROR")}
  BY DEF Play
<1> HIDE DEF e
<1>4. pl \in Seq(CleanPlays)
  BY <1>1, <1>2
<1> HIDE DEF pl
<1>5. p \in Handling /\ p.ses = x.ses /\ ~p.dirty
  BY <1>4 DEF Handling
<1> HIDE DEF p
<1>6. ASSUME NEW r \in {"SUCCESS", "FAILURE"}
      PROVE  Answered(r) \in Handling /\ Answered(r).ses = x.ses /\ ~Answered(r).dirty
  BY <1>5 DEF Handling, ScpiReplies
<1> HIDE DEF Answered
<1>7. ASSUME NEW w \in Handling, w.ses = x.ses, ~w.dirty, NEW err \in {"rc", "exception"}
      PROVE  LET t == push_error(w, err, "EXECUTION_ERROR")
             IN  t \in Handling /\ SameConnection(x.ses, t.ses) /\ ~t.dirty
  <2>1. err \in ScpiErrors /\ "EXECUTION_ERROR" \in EventBits
    BY DEF ScpiErrors, EventBits
  <2>2. LET t == push_error(w, err, "EXECUTION_ERROR")
        IN  t \in Handling /\ SameConnection(w.ses, t.ses) /\ t.dirty = w.dirty
    BY <2>1, PushError
  <2> QED
    BY <1>7, <2>2
<1>8. SameConnection(x.ses, x.ses)
  BY DEF SameConnection
<1>9. LET t == Faulty(p) IN t \in Handling /\ SameConnection(x.ses, t.ses) /\ ~t.dirty
  BY <1>5, <1>7 DEF Faulty
<1>10. LET t == push_error(Answered("FAILURE"), "rc", "EXECUTION_ERROR")
       IN  t \in Handling /\ SameConnection(x.ses, t.ses) /\ ~t.dirty
  BY <1>6, <1>7
<1>11. LET t == Answered("SUCCESS") IN t \in Handling /\ SameConnection(x.ses, t.ses) /\ ~t.dirty
  BY <1>6, <1>8
<1> QED
  BY <1>3, <1>9, <1>10, <1>11

\* What a handler does to the state: it may answer, count an error, play.
HandledWell(x, t) ==
  t \in Handling /\ SameConnection(x.ses, t.ses) /\ t.dirty = x.dirty

\* A handler that only answers.
LEMMA Answering ==
  ASSUME NEW x \in Handling, NEW r \in ScpiReplies \cup {""}
  PROVE  HandledWell(x, [x EXCEPT !.resp = r])
BY DEF HandledWell, Handling, SameConnection

\* A handler that changes what the session keeps for its client.
LEMMA Keeping ==
  ASSUME NEW x \in Handling, NEW p \in Connections, SameConnection(x.ses, p),
         NEW r \in ScpiReplies \cup {""}
  PROVE  HandledWell(x, [x EXCEPT !.ses = p, !.resp = r])
BY DEF HandledWell, Handling
\* A command that changes its connection without an answer is handled well.
LEMMA KeepingSilent ==
  ASSUME NEW x \in Handling, NEW p \in Connections, SameConnection(x.ses, p)
  PROVE  HandledWell(x, [x EXCEPT !.ses = p])
BY DEF HandledWell, Handling

\* An error, an end and a playback are handled well.
LEMMA Erring ==
  ASSUME NEW x \in Handling, NEW err \in ScpiErrors, NEW bit \in EventBits
  PROVE  HandledWell(x, push_error(x, err, bit))
BY PushError DEF HandledWell

\* Every command is handled well, and only a new sequence starts a new generation.
LEMMA HandlerIs ==
  ASSUME NEW x \in Handling, NEW cmd, cmd.arg \in Nat, NEW code,
         x.dirty => cmd.c = "SEQ" /\ cmd.arg = 0
  PROVE  /\ HandledWell(x, Handler(x, cmd, code))
         /\ cmd.c = "SEQ" /\ cmd.arg = 0 => Handler(x, cmd, code).ses.gen = x.ses.gen + 1
<1> DEFINE H == Handler(x, cmd, code)
           s == x.ses
<1>0. s \in Connections /\ x.resp \in ScpiReplies \cup {""}
  BY DEF Handling
<1>1. CASE \/ cmd.c \in {"*IDN?", "*OPC?", "*STB?", "CHECK?"}
           \/ cmd.c = "CLOCK:STREAMER?" /\ code # 2
           \/ (cmd.c = "SYST:ERR?" /\ s.errors = <<>>)
  <2> DEFINE r == CASE cmd.c = "*IDN?" -> "IDN" [] cmd.c = "*OPC?" -> "1"
                    [] cmd.c = "*STB?" -> IF s.errors = <<>> THEN "STB" ELSE "STB_MAV"
                    [] cmd.c = "CLOCK:STREAMER?" -> "Hz"
                    [] cmd.c = "CHECK?" -> IF s.check THEN "TRUE" ELSE "FALSE"
                    [] cmd.c = "SYST:ERR?" -> "No error"
  <2>1. r \in ScpiReplies \cup {""}
    BY <1>1 DEF ScpiReplies
  <2>2. H = [x EXCEPT !.resp = r] /\ cmd.c # "SEQ"
    BY <1>1 DEF Handler
  <2> HIDE DEF r, H
  <2> QED
    BY <2>1, <2>2, Answering DEF H
<1>2. CASE \/ cmd.c \in {"*RST", "*CLS", "*OPC", "*ESR?"}
           \/ cmd.c = "SYST:ERR?" /\ s.errors # <<>>
           \/ cmd.c = "SEQ" /\ cmd.arg # 0
           \/ cmd.c = "CHECK" /\ cmd.arg # 2
  <2>0. /\ s.errors \in Seq(ScpiErrors) /\ s.sesr \cup {"OPERATION_COMPLETE"} \in SUBSET EventBits
        /\ s.errors # <<>> => Head(s.errors) \in ScpiErrors /\ Tail(s.errors) \in Seq(ScpiErrors)
        /\ {} \in SUBSET EventBits /\ <<>> \in Seq(ScpiErrors)
    <3>1. s.errors \in Seq(ScpiErrors) /\ s.sesr \in SUBSET EventBits
      BY <1>0 DEF Connections
    <3>2. s.errors # <<>> => Head(s.errors) \in ScpiErrors /\ Tail(s.errors) \in Seq(ScpiErrors)
      BY <3>1
    <3> QED
      BY <3>1, <3>2 DEF EventBits
  <2>1. CASE cmd.c = "*RST"
    <3> DEFINE p == [s EXCEPT !.elements = 0, !.check = FALSE]
    <3> DEFINE t == [x EXCEPT !.ses = p]
    <3>1. H = IF code = 2 THEN Faulty(t) ELSE t
      BY <1>0, <2>1 DEF Handler, Handling, Connections, reset_session_state
    <3>2. p \in Connections /\ SameConnection(s, p)
      BY <1>0, <2>0, <2>1 DEF Connections, SameConnection
    <3> HIDE DEF p, H
    <3>3. HandledWell(x, t) /\ t.ses = p
      BY <3>2, KeepingSilent DEF Handling
    <3> HIDE DEF t
    <3>4. HandledWell(x, Faulty(t))
      <4>1. "exception" \in ScpiErrors /\ "EXECUTION_ERROR" \in EventBits
        BY DEF ScpiErrors, EventBits
      <4>2. HandledWell(t, Faulty(t))
        BY <3>3, <4>1, Erring DEF Faulty, HandledWell
      <4> QED
        BY <3>3, <4>2 DEF HandledWell, SameConnection
    <3>5. HandledWell(x, H) /\ ~(cmd.c = "SEQ" /\ cmd.arg = 0)
      BY <2>1, <3>1, <3>3, <3>4
    <3> QED
      BY <3>5 DEF H
  <2>2. CASE cmd.c = "*CLS"
    <3> DEFINE p == [s EXCEPT !.errors = <<>>, !.sesr = {}]
    <3>1. H = [x EXCEPT !.ses = p]
      BY <1>0, <2>2 DEF Handler, Handling, Connections, clear_status
    <3>2. p \in Connections /\ SameConnection(s, p)
      BY <1>0, <2>0, <2>2 DEF Connections, SameConnection
    <3> HIDE DEF p, H
    <3>4. HandledWell(x, H) /\ ~(cmd.c = "SEQ" /\ cmd.arg = 0)
      BY <2>2, <3>1, <3>2, KeepingSilent
    <3> QED
      BY <3>4 DEF H
  <2>3. CASE cmd.c = "*OPC"
    <3> DEFINE p == [s EXCEPT !.sesr = s.sesr \cup {"OPERATION_COMPLETE"}]
    <3>1. H = [x EXCEPT !.ses = p]
      BY <1>0, <2>3 DEF Handler, Handling, Connections
    <3>2. p \in Connections /\ SameConnection(s, p)
      BY <1>0, <2>0, <2>3 DEF Connections, SameConnection
    <3> HIDE DEF p, H
    <3>4. HandledWell(x, H) /\ ~(cmd.c = "SEQ" /\ cmd.arg = 0)
      BY <2>3, <3>1, <3>2, KeepingSilent
    <3> QED
      BY <3>4 DEF H
  <2>4. CASE cmd.c = "*ESR?"
    <3> DEFINE p == [s EXCEPT !.sesr = {}]
    <3>1. H = [x EXCEPT !.ses = p, !.resp = "SESR"]
      BY <1>0, <2>4 DEF Handler, Handling, Connections
    <3>2. p \in Connections /\ SameConnection(s, p)
      BY <1>0, <2>0, <2>4 DEF Connections, SameConnection
    <3>3. "SESR" \in ScpiReplies \cup {""}
      BY <2>0, <2>4 DEF ScpiReplies
    <3> HIDE DEF p, H
    <3>4. HandledWell(x, H) /\ ~(cmd.c = "SEQ" /\ cmd.arg = 0)
      BY <2>4, <3>1, <3>2, <3>3, Keeping
    <3> QED
      BY <3>4 DEF H
  <2>5. CASE cmd.c = "SYST:ERR?" /\ s.errors # <<>>
    <3> DEFINE p == [s EXCEPT !.errors = Tail(s.errors)]
    <3>1. H = [x EXCEPT !.ses = p, !.resp = Head(s.errors)]
      BY <1>0, <2>5 DEF Handler, Handling, Connections
    <3>2. p \in Connections /\ SameConnection(s, p)
      BY <1>0, <2>0, <2>5 DEF Connections, SameConnection
    <3>3. Head(s.errors) \in ScpiReplies \cup {""}
      BY <2>0, <2>5 DEF ScpiReplies
    <3> HIDE DEF p, H
    <3>4. HandledWell(x, H) /\ ~(cmd.c = "SEQ" /\ cmd.arg = 0)
      BY <2>5, <3>1, <3>2, <3>3, Keeping
    <3> QED
      BY <3>4 DEF H
  <2>6. CASE cmd.c = "SEQ" /\ cmd.arg # 0
    <3> DEFINE p == [s EXCEPT !.elements = cmd.arg]
    <3>1. H = [x EXCEPT !.ses = p, !.resp = "LOADED"]
      BY <1>0, <2>6 DEF Handler, Handling, Connections
    <3>2. p \in Connections /\ SameConnection(s, p)
      BY <1>0, <2>0, <2>6 DEF Connections, SameConnection
    <3>3. "LOADED" \in ScpiReplies \cup {""}
      BY <2>0, <2>6 DEF ScpiReplies
    <3> HIDE DEF p, H
    <3>4. HandledWell(x, H) /\ ~(cmd.c = "SEQ" /\ cmd.arg = 0)
      BY <2>6, <3>1, <3>2, <3>3, Keeping
    <3> QED
      BY <3>4 DEF H
  <2>7. CASE cmd.c = "CHECK" /\ cmd.arg # 2
    <3> DEFINE p == [s EXCEPT !.check = (cmd.arg = 1)]
    <3>1. H = [x EXCEPT !.ses = p]
      BY <1>0, <2>7 DEF Handler, Handling, Connections
    <3>2. p \in Connections /\ SameConnection(s, p)
      BY <1>0, <2>0, <2>7 DEF Connections, SameConnection
    <3> HIDE DEF p, H
    <3>4. HandledWell(x, H) /\ ~(cmd.c = "SEQ" /\ cmd.arg = 0)
      BY <2>7, <3>1, <3>2, KeepingSilent
    <3> QED
      BY <3>4 DEF H
  <2> QED
    BY <1>2, <2>1, <2>2, <2>3, <2>4, <2>5, <2>6, <2>7
<1>3. CASE \/ cmd.c \in {"*RST?", "*IDN", "SYST"}
           \/ cmd.c = "SEQ" /\ cmd.arg = 0
           \/ cmd.c = "CHECK" /\ cmd.arg = 2
           \/ cmd.c = "CLOCK:STREAMER?" /\ code = 2
  <2> DEFINE err == CASE cmd.c = "*RST?" -> "not queryable" [] cmd.c = "*IDN" -> "Query form required"
                      [] cmd.c = "SYST" -> "no action" [] cmd.c \in {"SEQ", "CLOCK:STREAMER?"} -> "exception"
                      [] cmd.c = "CHECK" -> "bad boolean"
             bit == CASE cmd.c \in {"*RST?", "*IDN"} -> "QUERY_ERROR" [] cmd.c = "SYST" -> "COMMAND_ERROR"
                      [] OTHER -> "EXECUTION_ERROR"
  <2>1. err \in ScpiErrors /\ bit \in EventBits
    BY <1>3 DEF ScpiErrors, EventBits
  <2>2. H = push_error(x, err, bit)
    BY <1>3 DEF Handler, Faulty
  <2> HIDE DEF err, bit, H
  <2>3. HandledWell(x, H) /\ H.ses.gen = x.ses.gen + 1
    BY <2>1, <2>2, Erring, PushError
  <2> QED
    BY <2>3 DEF H
<1>4. CASE cmd.c \in {"TEST1", "STREAM"}
  <2>0. ~x.dirty
    BY <1>4
  <2> DEFINE k == IF cmd.c = "TEST1" THEN -1 ELSE s.elements
             ck == IF cmd.c = "TEST1" THEN TRUE ELSE s.check
             t == Play(x, k, ck, code)
             bits == t.ses.sesr \cup {"OPERATION_COMPLETE"}
             p == [t.ses EXCEPT !.sesr = bits]
             u == [t EXCEPT !.ses = p]
  <2>1. k \in Int /\ ck \in BOOLEAN
    <3>1. s.elements \in Nat /\ s.check \in BOOLEAN
      BY <1>0 DEF Connections
    <3>2. -1 \in Int /\ s.elements \in Int
      BY <3>1
    <3> QED
      BY <3>1, <3>2
  <2>2. H = IF cmd.c = "TEST1" \/ code = 2 THEN t ELSE u
    BY <1>4 DEF Handler
  <2> HIDE DEF k, ck, H
  <2>3. t \in Handling /\ SameConnection(s, t.ses) /\ ~t.dirty
    BY <2>0, <2>1, PlayIs
  <2> HIDE DEF t
  <2>4. t.ses \in Connections
    BY <2>3 DEF Handling
  <2>5. bits \in SUBSET EventBits
    BY <2>4 DEF Connections, EventBits
  <2> HIDE DEF bits
  <2>6. p \in Connections /\ SameConnection(t.ses, p)
    BY <2>4, <2>5 DEF Connections, SameConnection
  <2> HIDE DEF p
  <2>7. u \in Handling /\ u.ses = p /\ u.dirty = t.dirty
    BY <2>3, <2>6 DEF Handling
  <2> HIDE DEF u
  <2>8. SameConnection(s, p)
    BY <2>3, <2>6 DEF SameConnection
  <2>9. t.dirty = x.dirty
    BY <2>0, <2>3 DEF Handling
  <2> QED
    BY <1>4, <2>2, <2>3, <2>7, <2>8, <2>9 DEF HandledWell, H
<1>5. CASE cmd.c \in {"*WAI", "DISCONNECT", "TERMINATE"}
  <2> DEFINE a == CASE cmd.c = "*WAI" -> x.act [] cmd.c = "DISCONNECT" -> "close_session"
                    [] cmd.c = "TERMINATE" -> "stop_server"
             t == [x EXCEPT !.act = a]
  <2>1. H = t
    BY <1>5 DEF Handler, Handling
  <2>2. a \in {"continue_reading", "close_session", "stop_server"}
    BY <1>5 DEF Handling
  <2> HIDE DEF a, H
  <2>3. t \in Handling /\ t.ses = s /\ t.dirty = x.dirty
    BY <2>2 DEF Handling
  <2> QED
    BY <1>5, <2>1, <2>3 DEF HandledWell, SameConnection, H
<1>6. CASE cmd.c \notin {"*IDN?", "*OPC?", "*STB?", "CLOCK:STREAMER?", "CHECK?", "SYST:ERR?", "*RST",
                        "*CLS", "*OPC", "*ESR?", "SEQ", "CHECK", "*RST?", "*IDN", "SYST", "TEST1",
                        "STREAM", "*WAI", "DISCONNECT", "TERMINATE"}
  <2>1. H = push_error(x, "unknown token", "COMMAND_ERROR")
    BY <1>6 DEF Handler
  <2>2. "unknown token" \in ScpiErrors /\ "COMMAND_ERROR" \in EventBits
    BY DEF ScpiErrors, EventBits
  <2> HIDE DEF H
  <2> QED
    BY <1>6, <2>1, <2>2, Erring DEF H
<1> QED
  BY <1>1, <1>2, <1>3, <1>4, <1>5, <1>6
-----------------------------------------------------------------------------

\* A reply goes to the end of the queue.
LEMMA WriteReply ==
  ASSUME NEW p \in Connections, Flows(p), p.state = "open", NEW msg \in ScpiReplies
  PROVE  LET q == write(p, msg)
         IN  q \in Connections /\ Flows(q) /\ q.state = "open" /\ q.gen = p.gen
<1> DEFINE wq == Append(p.write_queue, msg)
           pr == Append(p.produced, msg)
           q == [p EXCEPT !.write_queue = wq, !.write_in_progress = TRUE, !.produced = pr]
<1>1. /\ p.write_queue \in Seq(ScpiReplies) /\ p.produced \in Seq(ScpiReplies)
      /\ p.delivered \in Seq(ScpiReplies)
  BY DEF Connections
<1>2. wq \in Seq(ScpiReplies) /\ pr \in Seq(ScpiReplies) /\ wq # <<>>
      /\ p.delivered \o wq = pr
  <2>1. p.delivered \o Append(p.write_queue, msg) = Append(p.delivered \o p.write_queue, msg)
        /\ Append(p.write_queue, msg) # <<>>
    BY <1>1, AppendSecond
  <2>2. p.delivered \o p.write_queue = p.produced
    BY DEF Flows
  <2> QED
    BY <1>1, <2>1, <2>2
<1>3. write(p, msg) = q
  BY DEF write
<1> HIDE DEF wq, pr
<1>4. /\ q \in Connections /\ q.write_queue = wq /\ q.produced = pr /\ q.write_in_progress
      /\ q.delivered = p.delivered /\ q.state = p.state /\ q.gen = p.gen /\ q.cause = p.cause
  BY <1>2 DEF Connections
<1> HIDE DEF q
<1> QED
  BY <1>2, <1>3, <1>4 DEF Flows

\* One command of a line: its reply is queued, and a sequence that does not
\* parse ends the line.
LEMMA SingleCommand ==
  ASSUME NEW x \in Handling, ~x.dirty, x.ses.state = "open", Flows(x.ses),
         NEW cmd, cmd.arg \in Nat, NEW code
  PROVE  LET t == handle_single_command(x, cmd, code)
         IN  /\ t \in Handling /\ t.ses.state = "open" /\ Flows(t.ses)
             /\ EndsLine(x, t) \/ ~t.dirty
<1> DEFINE bad == cmd.c = "SEQ" /\ cmd.arg = 0
           v == [x EXCEPT !.resp = "", !.dirty = x.dirty \/ bad]
           u == Handler(v, cmd, code)
           r == IF u.resp = "" /\ u.ses.gen # x.ses.gen THEN "ERROR" ELSE u.resp
           w == write(u.ses, r)
           t == [u EXCEPT !.ses = w]
<1>1. v \in Handling /\ v.ses = x.ses /\ (v.dirty <=> bad)
  BY DEF Handling
<1>2. handle_single_command(x, cmd, code) = IF u.act # "continue_reading" \/ r = "" THEN u ELSE t
  BY DEF handle_single_command
<1> HIDE DEF v
<1>3. HandledWell(v, u) /\ (bad => u.ses.gen = v.ses.gen + 1)
  BY <1>1, HandlerIs
<1> HIDE DEF u, bad
<1>4. u \in Handling /\ u.ses \in Connections /\ u.ses.state = "open" /\ Flows(u.ses)
      /\ u.dirty = v.dirty
  <2>1. u \in Handling /\ SameConnection(x.ses, u.ses) /\ u.dirty = v.dirty
    BY <1>1, <1>3 DEF HandledWell
  <2>2. u.ses \in Connections
    BY <2>1 DEF Handling
  <2>3. Flows(u.ses) /\ u.ses.state = "open"
    BY <2>1 DEF SameConnection, Flows
  <2> QED
    BY <2>1, <2>2, <2>3
<1>5. r \in ScpiReplies \cup {""}
  BY <1>4 DEF Handling, ScpiReplies
<1> HIDE DEF r
<1>6. r # "" => /\ w \in Connections /\ Flows(w) /\ w.state = "open" /\ w.gen = u.ses.gen
  BY <1>4, <1>5, WriteReply
<1> HIDE DEF w
<1>7. r # "" => t \in Handling /\ t.ses = w /\ t.dirty = u.dirty
  BY <1>4, <1>6 DEF Handling
<1> HIDE DEF t
<1>8. bad => u.ses.gen # x.ses.gen
  <2>1. x.ses.gen \in Nat
    BY DEF Handling, Connections
  <2> QED
    BY <1>1, <1>3, <2>1
<1>9. CASE u.act # "continue_reading" \/ r = ""
  BY <1>1, <1>2, <1>4, <1>8, <1>9 DEF EndsLine
<1>10. CASE ~(u.act # "continue_reading" \/ r = "")
  BY <1>1, <1>2, <1>4, <1>6, <1>7, <1>8, <1>10 DEF EndsLine
<1> QED
  BY <1>9, <1>10

\* The states between the commands of a line.
LineStates ==
  {lst \in [x : Handling, over : BOOLEAN] :
     lst.x.ses.state = "open" /\ Flows(lst.x.ses) /\ (lst.over \/ ~lst.x.dirty)}
LineStep(lst, cmd, code) ==
  IF lst.over THEN lst
  ELSE [x |-> handle_single_command(lst.x, cmd, code),
        over |-> EndsLine(lst.x, handle_single_command(lst.x, cmd, code))]

\* One command of a line keeps the types.
LEMMA LineStepType ==
  ASSUME NEW lst \in LineStates, NEW cmd, cmd.arg \in Nat, NEW code
  PROVE  LineStep(lst, cmd, code) \in LineStates
<1>1. CASE lst.over
  BY <1>1 DEF LineStep
<1>2. CASE ~lst.over
  <2> DEFINE t == handle_single_command(lst.x, cmd, code)
             e == EndsLine(lst.x, t)
  <2>1. lst.x \in Handling /\ ~lst.x.dirty /\ lst.x.ses.state = "open" /\ Flows(lst.x.ses)
    BY <1>2 DEF LineStates
  <2>2. t \in Handling /\ t.ses.state = "open" /\ Flows(t.ses) /\ (e \/ ~t.dirty)
    BY <2>1, SingleCommand
  <2>3. e \in BOOLEAN
    BY DEF EndsLine
  <2>4. LineStep(lst, cmd, code) = [x |-> t, over |-> e]
    BY <1>2 DEF LineStep
  <2> HIDE DEF t, e
  <2> QED
    BY <2>2, <2>3, <2>4 DEF LineStates
<1> QED
  BY <1>1, <1>2

\* A line is handled to its end or to the first error.
LEMMA CommandLine ==
  ASSUME NEW x \in Handling, ~x.dirty, x.ses.state = "open", Flows(x.ses),
         NEW line, Len(line) \in Nat, \A i \in 1 .. Len(line) : line[i].arg \in Nat, NEW code
  PROVE  LET t == handle_command(x, line, code)
         IN  t \in Handling /\ t.ses.state = "open" /\ Flows(t.ses)
<1> DEFINE n == Len(line)
           begin == [x |-> x, over |-> FALSE]
           step == [p \in LineStates \X (1 .. n) |-> LineStep(p[1], line[p[2]], code)]
           Body(f) == [i \in 0 .. n |-> IF i = 0 THEN begin ELSE LineStep(f[i - 1], line[i], code)]
           after == CHOOSE f : f = Body(f)
<1>1. begin \in LineStates
  BY DEF LineStates
<1>2. step \in [LineStates \X (1 .. n) -> LineStates]
  <2>1. ASSUME NEW p \in LineStates \X (1 .. n) PROVE LineStep(p[1], line[p[2]], code) \in LineStates
    BY LineStepType
  <2> QED
    BY <2>1
<1>3. \A l \in LineStates, i \in 1 .. n : step[<<l, i>>] = LineStep(l, line[i], code)
  OBVIOUS
<1> HIDE DEF step, begin
<1>4. PICK f \in [0 .. n -> LineStates] : Table(f, begin, step, n)
  BY <1>1, <1>2, TableExists
<1>5. f = Body(f)
  <2>1. ASSUME NEW i \in 0 .. n PROVE f[i] = Body(f)[i]
    <3>1. CASE i = 0
      BY <1>4, <3>1 DEF Table
    <3>2. CASE i # 0
      <4>1. i \in 1 .. n /\ i - 1 \in 0 .. n
        BY <3>2
      <4> QED
        BY <1>3, <1>4, <3>2, <4>1 DEF Table
    <3> QED
      BY <3>1, <3>2
  <2> QED
    BY <1>4, <2>1
<1>6. after = Body(after)
  BY <1>5
<1>7. handle_command(x, line, code) = after[n].x
  BY DEF handle_command, LineStep, begin
<1> DEFINE S == {k \in Nat : k <= n => after[k] \in LineStates}
<1> HIDE DEF after
<1>8. 0 \in S
  BY <1>1, <1>6
<1>9. ASSUME NEW k \in Nat, k \in S PROVE k + 1 \in S
  <2> SUFFICES ASSUME k + 1 <= n PROVE after[k + 1] \in LineStates
    OBVIOUS
  <2>1. k + 1 \in 1 .. n /\ k + 1 \in 0 .. n /\ k + 1 # 0 /\ (k + 1) - 1 = k /\ k <= n
    OBVIOUS
  <2>2. after[k + 1] = LineStep(after[k], line[k + 1], code)
    BY <1>6, <2>1
  <2> QED
    BY <1>9, <2>1, <2>2, LineStepType
<1> HIDE DEF S
<1>10. n \in S
  BY <1>8, <1>9, NatInductive
<1>11. after[n] \in LineStates
  BY <1>10 DEF S
<1> QED
  BY <1>7, <1>11 DEF LineStates
-----------------------------------------------------------------------------
\* A connection that flows has delivered a prefix of what was produced.
LEMMA FlowsPrefix ==
  ASSUME NEW p \in Connections, Flows(p)
  PROVE  /\ IsPrefix(p.delivered, p.produced)
         /\ p.write_queue = <<>> => p.delivered = p.produced
<1>1. /\ p.write_queue \in Seq(ScpiReplies) /\ p.delivered \in Seq(ScpiReplies)
      /\ p.produced = p.delivered \o p.write_queue
  BY DEF Connections, Flows
<1>2. IsPrefix(p.delivered, p.delivered \o p.write_queue)
  BY <1>1, PartIsPrefix
<1>3. p.delivered \o <<>> = p.delivered
  BY <1>1
<1> QED
  BY <1>1, <1>2, <1>3

\* Closing keeps what the connection has delivered, and the first cause.
LEMMA CloseIs ==
  ASSUME NEW p \in Connections, NEW why \in {"eof", "client", "error"},
         IsPrefix(p.delivered, p.produced), p.cause = "eof" => p.delivered = p.produced,
         why = "eof" => p.delivered = p.produced, p.write_in_progress => p.write_queue # <<>>
  PROVE  close_session(p, why) \in Connections /\ Kept(close_session(p, why))
<1> DEFINE w == IF p.cause = "none" THEN why ELSE p.cause
           q == [p EXCEPT !.state = "closed", !.cause = w]
<1>1. close_session(p, why) = q
  BY DEF close_session
<1>2. w \in {"none", "eof", "client", "error"} /\ w # "none" /\ (w = "eof" => p.delivered = p.produced)
  BY DEF Connections
<1> HIDE DEF w
<1>3. /\ q \in Connections /\ q.state = "closed" /\ q.cause = w /\ q.delivered = p.delivered
      /\ q.produced = p.produced /\ q.write_in_progress = p.write_in_progress
      /\ q.write_queue = p.write_queue
  BY <1>2 DEF Connections
<1> HIDE DEF q
<1> QED
  BY <1>1, <1>2, <1>3 DEF Kept

\* A connection that flows is kept.
LEMMA FlowsKept ==
  ASSUME NEW p \in Connections, Flows(p), p.state \in {"open", "eof"}
  PROVE  Kept(p)
BY FlowsPrefix DEF Kept, Flows

\* A callback changes one session.
LEMMA OneSession ==
  ASSUME ScpiInv, NEW s \in Sessions, NEW p \in Connections, Kept(p),
         session' = [session EXCEPT ![s] = p], ~lastPlay'.dirty
  PROVE  ScpiInv'
BY DEF ScpiInv, StaleNeverPlays

\* A line that is read and executed keeps the sessions.
LEMMA ReadLineStep ==
  ASSUME ScpiInv, NEW s \in Sessions, NEW n \in 1 .. NScpiLines, NEW code \in 0 .. 2,
         ReadLine(s, n, code)
  PROVE  ScpiInv'
<1> DEFINE v == [ses |-> session[s], play |-> <<>>, resp |-> "", act |-> "continue_reading",
                 dirty |-> FALSE]
           x == handle_command(v, ScpiLines(n), code)
           p == IF x.act = "continue_reading" THEN x.ses ELSE close_session(x.ses, "client")
<1>1. session[s] \in Connections /\ session[s].state = "open" /\ Flows(session[s])
  BY DEF ScpiInv, ReadLine, Kept
<1>2. v \in Handling /\ ~v.dirty /\ v.ses = session[s]
  BY <1>1 DEF Handling
<1>3. /\ session' = [session EXCEPT ![s] = p]
      /\ lastPlay' = IF x.play = <<>> THEN lastPlay ELSE Last(x.play)
  BY DEF ReadLine
<1> HIDE DEF v
<1>4. x \in Handling /\ x.ses.state = "open" /\ Flows(x.ses)
  <2>1. Len(ScpiLines(n)) \in Nat /\ \A i \in 1 .. Len(ScpiLines(n)) : ScpiLines(n)[i].arg \in Nat
    BY ScpiAssumption
  <2> QED
    BY <1>1, <1>2, <2>1, CommandLine
<1> HIDE DEF x
<1>5. x.ses \in Connections /\ x.play \in Seq(CleanPlays)
  BY <1>4 DEF Handling
<1>6. ~lastPlay'.dirty
  <2>1. CASE x.play = <<>>
    BY <1>3, <2>1 DEF ScpiInv, StaleNeverPlays
  <2>2. CASE x.play # <<>>
    <3>1. Last(x.play) \in CleanPlays
      BY <1>5, <2>2 DEF Last
    <3> QED
      BY <1>3, <2>2, <3>1 DEF CleanPlays
  <2> QED
    BY <2>1, <2>2
<1>7. p \in Connections /\ Kept(p)
  <2>1. IsPrefix(x.ses.delivered, x.ses.produced) /\ x.ses.cause = "none"
    BY <1>4, <1>5, FlowsPrefix DEF Flows
  <2>2. close_session(x.ses, "client") \in Connections /\ Kept(close_session(x.ses, "client"))
    BY <1>4, <1>5, <2>1, CloseIs DEF Flows
  <2>3. Kept(x.ses)
    BY <1>4, <1>5, FlowsKept
  <2> QED
    BY <1>5, <2>2, <2>3
<1> HIDE DEF p
<1> QED
  BY <1>3, <1>6, <1>7, OneSession

\* A connection that is accepted starts a session of its own.
LEMMA AcceptStep ==
  ASSUME ScpiInv, NEW s \in Sessions, AcceptSession(s)
  PROVE  ScpiInv'
<1>1. NewSession \in Connections /\ NewSession.state = "open" /\ NewSession.cause = "none"
      /\ NewSession.delivered = <<>> /\ NewSession.produced = <<>>
      /\ NewSession.write_queue = <<>> /\ NewSession.write_in_progress = FALSE
  <2>1. <<>> \in Seq(ScpiErrors) /\ <<>> \in Seq(ScpiReplies) /\ {"POWER_ON"} \in SUBSET EventBits
    BY DEF EventBits
  <2>2. NewSession = [NoSession EXCEPT !.state = "open", !.sesr = {"POWER_ON"}]
    BY DEF NewSession
  <2> QED
    BY <2>1, <2>2 DEF NoSession, Connections
<1>2. <<>> \o <<>> = <<>>
  OBVIOUS
<1>3. Flows(NewSession)
  BY <1>1, <1>2 DEF Flows
<1>4. Kept(NewSession)
  BY <1>1, <1>3, FlowsKept
<1>5. session' = [session EXCEPT ![s] = NewSession] /\ ~lastPlay'.dirty
  BY DEF AcceptSession, ScpiInv, StaleNeverPlays
<1> QED
  BY <1>1, <1>4, <1>5, OneSession

\* At the end of its input a session sends its responses, then closes.
LEMMA EofStep ==
  ASSUME ScpiInv, NEW s \in Sessions, Eof(s)
  PROVE  ScpiInv'
<1> DEFINE p == session[s]
           q == [p EXCEPT !.state = "eof", !.close_after_writes = TRUE]
           t == IF p.write_in_progress \/ p.write_queue # <<>> THEN q ELSE close_session(p, "eof")
<1>1. p \in Connections /\ p.state = "open" /\ Flows(p)
  BY DEF ScpiInv, Eof, Kept
<1>2. session' = [session EXCEPT ![s] = t] /\ ~lastPlay'.dirty
  BY DEF Eof, close_after_writes, ScpiInv, StaleNeverPlays
<1> HIDE DEF p
<1>3. q \in Connections /\ Kept(q)
  <2>1. q \in Connections /\ q.state = "eof" /\ SameConnection(p, [q EXCEPT !.state = "open"])
    BY <1>1 DEF Connections, SameConnection
  <2>2. Flows(q)
    BY <1>1 DEF Connections, Flows
  <2> HIDE DEF q
  <2> QED
    BY <2>1, <2>2, FlowsKept
<1>4. p.write_queue = <<>> => close_session(p, "eof") \in Connections /\ Kept(close_session(p, "eof"))
  BY <1>1, FlowsPrefix, CloseIs DEF Flows
<1> HIDE DEF q
<1>5. t \in Connections /\ Kept(t)
  BY <1>3, <1>4
<1> HIDE DEF t
<1> QED
  BY <1>2, <1>5, OneSession

\* A read error ends the session.
LEMMA ReadErrorStep ==
  ASSUME ScpiInv, NEW s \in Sessions, ReadError(s)
  PROVE  ScpiInv'
<1> DEFINE p == session[s]
           t == close_session(p, "error")
<1>1. p \in Connections /\ p.state = "open" /\ Flows(p)
  BY DEF ScpiInv, ReadError, Kept
<1>2. session' = [session EXCEPT ![s] = t] /\ ~lastPlay'.dirty
  BY DEF ReadError, ScpiInv, StaleNeverPlays
<1> HIDE DEF p
<1>3. p.cause = "none"
  BY <1>1 DEF Flows
<1>4. t \in Connections /\ Kept(t)
  BY <1>1, <1>3, FlowsPrefix, CloseIs DEF Flows
<1> HIDE DEF t
<1> QED
  BY <1>2, <1>4, OneSession

\* A response that is written keeps the sessions.
LEMMA WriteDoneStep ==
  ASSUME ScpiInv, NEW s \in Sessions, WriteDone(s)
  PROVE  ScpiInv'
<1> DEFINE p == session[s]
           d == Append(p.delivered, Head(p.write_queue))
           wq == Tail(p.write_queue)
           q == [p EXCEPT !.delivered = d, !.write_queue = wq]
           t == start_next_write(q)
<1>1. p \in Connections /\ p.state \in {"open", "eof"} /\ Flows(p) /\ p.write_in_progress
  BY DEF ScpiInv, WriteDone, Kept
<1>2. session' = [session EXCEPT ![s] = t] /\ ~lastPlay'.dirty
  <2> DEFINE u == [p EXCEPT !.delivered = Append(@, Head(session[s].write_queue)),
                            !.write_queue = Tail(@)]
  <2>1. session' = [session EXCEPT ![s] = start_next_write(u)] /\ ~lastPlay'.dirty
    BY DEF WriteDone, ScpiInv, StaleNeverPlays
  <2>2. u = q
    BY <1>1 DEF Connections
  <2> QED
    BY <2>1, <2>2
<1> HIDE DEF p
<1>3. /\ p.write_queue # <<>> /\ p.write_queue \in Seq(ScpiReplies) /\ p.cause = "none"
      /\ p.delivered \in Seq(ScpiReplies) /\ p.delivered \o p.write_queue = p.produced
  BY <1>1 DEF Flows, Connections
<1>4. d \o wq = p.produced /\ d \in Seq(ScpiReplies) /\ wq \in Seq(ScpiReplies)
  <2>1. /\ Append(p.delivered, Head(p.write_queue)) \o Tail(p.write_queue)
              = p.delivered \o p.write_queue
        /\ Append(p.delivered, Head(p.write_queue)) \in Seq(ScpiReplies)
        /\ Tail(p.write_queue) \in Seq(ScpiReplies)
    BY <1>3, MoveElementOver
  <2> QED
    BY <1>3, <2>1
<1> HIDE DEF d, wq
<1>5. /\ q \in Connections /\ q.delivered = d /\ q.write_queue = wq /\ q.state = p.state
      /\ q.produced = p.produced /\ q.cause = p.cause
  BY <1>1, <1>4 DEF Connections
<1> HIDE DEF q
<1>6. CASE wq # <<>> \/ ~q.close_after_writes
  <2> DEFINE w == wq # <<>>
             u == [q EXCEPT !.write_in_progress = w]
  <2>1. w \in BOOLEAN
    OBVIOUS
  <2>2. t = u
    BY <1>5, <1>6 DEF start_next_write
  <2>3. w <=> wq # <<>>
    OBVIOUS
  <2> HIDE DEF w, t
  <2>4. /\ u \in Connections /\ u.delivered = d /\ u.write_queue = wq /\ u.state = p.state
        /\ u.produced = p.produced /\ u.cause = p.cause /\ u.write_in_progress = w
    BY <1>5, <2>1 DEF Connections
  <2> HIDE DEF u
  <2>5. Flows(u)
    BY <1>3, <1>4, <2>1, <2>3, <2>4 DEF Flows
  <2>6. t \in Connections /\ Kept(t)
    BY <1>1, <2>2, <2>4, <2>5, FlowsKept
  <2> QED
    BY <1>2, <2>6, OneSession
<1>7. CASE wq = <<>> /\ q.close_after_writes
  <2> DEFINE u == [q EXCEPT !.write_in_progress = FALSE, !.close_after_writes = FALSE]
  <2>1. t = close_session(u, "eof")
    BY <1>5, <1>7 DEF start_next_write
  <2> HIDE DEF t
  <2>2. /\ u \in Connections /\ u.delivered = d /\ u.write_queue = wq /\ u.state = p.state
        /\ u.produced = p.produced /\ u.cause = p.cause /\ u.write_in_progress = FALSE
    BY <1>5 DEF Connections
  <2> HIDE DEF u
  <2>3. Flows(u)
    BY <1>3, <1>4, <1>7, <2>2 DEF Flows
  <2>4. t \in Connections /\ Kept(t)
    BY <1>7, <2>1, <2>2, <2>3, FlowsPrefix, CloseIs
  <2> QED
    BY <1>2, <2>4, OneSession
<1> QED
  BY <1>6, <1>7

\* A response that cannot be written ends the session.
LEMMA WriteFailsStep ==
  ASSUME ScpiInv, NEW s \in Sessions, WriteFails(s)
  PROVE  ScpiInv'
<1> DEFINE p == session[s]
           wq == Tail(p.write_queue)
           q == [p EXCEPT !.write_queue = wq, !.write_in_progress = FALSE]
           t == close_session(q, "error")
<1>1. p \in Connections /\ Kept(p) /\ p.write_in_progress
  BY DEF ScpiInv, WriteFails
<1>2. session' = [session EXCEPT ![s] = t] /\ ~lastPlay'.dirty
  <2> DEFINE u == [p EXCEPT !.write_queue = Tail(@), !.write_in_progress = FALSE]
  <2>1. session' = [session EXCEPT ![s] = close_session(u, "error")] /\ ~lastPlay'.dirty
    BY DEF WriteFails, ScpiInv, StaleNeverPlays
  <2>2. u = q
    BY <1>1 DEF Connections
  <2> QED
    BY <2>1, <2>2
<1> HIDE DEF p
<1>3. wq \in Seq(ScpiReplies)
  <2>1. p.write_queue \in Seq(ScpiReplies) /\ p.write_queue # <<>>
    BY <1>1 DEF Connections, Kept
  <2> QED
    BY <2>1
<1> HIDE DEF wq
<1>4. /\ q \in Connections /\ q.delivered = p.delivered /\ q.produced = p.produced
      /\ q.cause = p.cause /\ ~q.write_in_progress
  BY <1>1, <1>3 DEF Connections
<1> HIDE DEF q
<1>5. t \in Connections /\ Kept(t)
  BY <1>1, <1>4, CloseIs DEF Kept
<1> HIDE DEF t
<1> QED
  BY <1>2, <1>5, OneSession

\* The server starts without sessions.
LEMMA ScpiStart == ScpiInit => ScpiInv
<1> SUFFICES ASSUME ScpiInit PROVE ScpiInv
  OBVIOUS
<1>1. <<>> \in Seq(ScpiErrors) /\ <<>> \in Seq(ScpiReplies) /\ {} \in SUBSET EventBits
  OBVIOUS
<1>2. NoSession \in Connections
  BY <1>1 DEF NoSession, Connections
<1>3. IsPrefix(<<>>, <<>>)
  BY DEF IsPrefix
<1>4. Kept(NoSession)
  BY <1>3 DEF NoSession, Kept
<1> QED
  BY <1>2, <1>4 DEF ScpiInit, ScpiInv, StaleNeverPlays

\* The client gets its replies in order and loses none, and only a sequence
\* that parsed is played.
THEOREM SessionsAlwaysKept == ScpiSpec => []SessionsKept
<1>1. ScpiInv /\ [ScpiNext]_scpiVars => ScpiInv'
  <2> SUFFICES ASSUME ScpiInv, [ScpiNext]_scpiVars PROVE ScpiInv'
    OBVIOUS
  <2>1. CASE UNCHANGED scpiVars
    BY <2>1 DEF ScpiInv, scpiVars, StaleNeverPlays
  <2>2. CASE ScpiNext
    BY <2>2, AcceptStep, EofStep, ReadErrorStep, WriteDoneStep, WriteFailsStep, ReadLineStep
       DEF ScpiNext
  <2> QED
    BY <2>1, <2>2
<1>2. ScpiInv => SessionsKept
  BY DEF ScpiInv, SessionsKept, RepliesArrive, Kept, Flows
<1> QED
  BY <1>1, <1>2, ScpiStart, PTL DEF ScpiSpec
-----------------------------------------------------------------------------
(***************************************************************************)
(* A program that is up has its clock, and a PLL set from a frequency runs *)
(* within the limits of the device: for every option, every set of         *)
(* frequencies and any number of processes killed on the way.              *)
(*                                                                         *)
(* The second needs that the search finds a best candidate, that is, that  *)
(* is_better orders the candidates linearly: it compares errors as         *)
(* fractions, then the counters.                                           *)
(***************************************************************************)

BootSpec == BootInit /\ [][BootNext]_bootVars
-----------------------------------------------------------------------------
\* Multiplying by a positive number keeps an order.
LEMMA TimesKeeps ==
  ASSUME NEW m \in Nat, NEW n \in Nat, NEW k \in Nat \ {0}
  PROVE  m <= n <=> m * k <= n * k
<1>1. ASSUME m <= n PROVE m * k <= n * k
  <2>1. n * k = m * k + (n - m) * k
    OBVIOUS
  <2>2. (n - m) * k >= 0
    BY <1>1
  <2> QED
    BY <2>1, <2>2
<1>2. ASSUME n < m PROVE n * k < m * k
  <2>1. m * k = n * k + (m - n) * k
    OBVIOUS
  <2>2. (m - n) * k > 0
    BY <1>2
  <2> QED
    BY <2>1, <2>2
<1> QED
  BY <1>1, <1>2

\* Comparing fractions is transitive, strictly where one of the two is.
LEMMA FractionsOrder ==
  ASSUME NEW ea \in Nat, NEW eb \in Nat, NEW ec \in Nat,
         NEW da \in Nat \ {0}, NEW db \in Nat \ {0}, NEW dc \in Nat \ {0},
         ea * db <= eb * da, eb * dc <= ec * db
  PROVE  /\ ea * dc <= ec * da
         /\ ea * db < eb * da \/ eb * dc < ec * db => ea * dc < ec * da
<1> DEFINE lhs == ea * dc
           rhs == ec * da
<1>1. /\ ea * db \in Nat /\ eb * da \in Nat /\ eb * dc \in Nat /\ ec * db \in Nat
      /\ lhs \in Nat /\ rhs \in Nat
  OBVIOUS
<1>2. (ea * db) * dc <= (eb * da) * dc /\ (eb * dc) * da <= (ec * db) * da
  BY <1>1, TimesKeeps
<1>3. /\ ea * db < eb * da => (ea * db) * dc < (eb * da) * dc
      /\ eb * dc < ec * db => (eb * dc) * da < (ec * db) * da
  BY <1>1, TimesKeeps
<1>4. (ea * db) * dc = lhs * db /\ (eb * da) * dc = (eb * dc) * da /\ (ec * db) * da = rhs * db
  OBVIOUS
<1>5. lhs * db <= rhs * db /\ (ea * db < eb * da \/ eb * dc < ec * db => lhs * db < rhs * db)
  <2>1. (ea * db) * dc \in Nat /\ (eb * da) * dc \in Nat /\ (ec * db) * da \in Nat
    BY <1>1
  <2> QED
    BY <1>2, <1>3, <1>4, <2>1
<1>6. lhs <= rhs
  BY <1>1, <1>5, TimesKeeps
<1>7. lhs * db < rhs * db => lhs < rhs
  BY <1>1, <1>6, TimesKeeps
<1> QED
  BY <1>5, <1>6, <1>7

-----------------------------------------------------------------------------
Triples == (1 .. CALC_MAX) \X (1 .. CALC_MAX) \X (1 .. CALC_MAX)

\* A candidate is a triple of counters, and within the limits.
LEMMA CandidateIs ==
  ASSUME NEW t \in candidates
  PROVE  /\ t \in Triples /\ t = <<t[1], t[2], t[3]>> /\ is_strict(t)
         /\ t[1] \in Nat \ {0} /\ t[2] \in Nat \ {0} /\ t[3] \in Nat \ {0}
<1>1. t \in Triples
  BY DEF candidates, Triples
<1>2. t = <<t[1], t[2], t[3]>> /\ \A k \in 1 .. 3 : t[k] \in 1 .. CALC_MAX
  BY <1>1 DEF Triples
<1>3. \A k \in 1 .. 3 : t[k] \in 1 .. 510 /\ t[k] \in Nat \ {0}
  <2>1. \A x \in 1 .. CALC_MAX : x \in 1 .. 510 /\ x \in Nat \ {0}
    BY CalcAssumption
  <2> QED
    BY <1>2, <2>1
<1> QED
  BY <1>1, <1>2, <1>3 DEF candidates, is_strict

\* The divider search has finitely many candidates.
LEMMA FiniteCandidates == IsFiniteSet(candidates)
<1> DEFINE I == 1 .. CALC_MAX
           f == [p \in (I \X I) \X I |-> <<p[1][1], p[1][2], p[2]>>]
<1>1. IsFiniteSet(I)
  BY FS_Interval, CalcAssumption
<1>2. IsFiniteSet((I \X I) \X I)
  BY <1>1, FS_Product
<1>3. f \in Surjection((I \X I) \X I, Triples)
  <2> HIDE DEF I
  <2>1. Triples = I \X I \X I
    BY DEF Triples, I
  <2>2. f \in [(I \X I) \X I -> Triples]
    BY <2>1
  <2>3. ASSUME NEW t \in Triples PROVE \E p \in (I \X I) \X I : f[p] = t
    <3>1. /\ t = <<t[1], t[2], t[3]>> /\ t[1] \in I /\ t[2] \in I /\ t[3] \in I
      BY <2>1
    <3>2. <<<<t[1], t[2]>>, t[3]>> \in (I \X I) \X I
      BY <3>1
    <3>3. f[<<<<t[1], t[2]>>, t[3]>>] = <<t[1], t[2], t[3]>>
      BY <3>2
    <3> QED
      BY <3>1, <3>2, <3>3
  <2> QED
    BY <2>2, <2>3 DEF Surjection
<1>4. IsFiniteSet(Triples)
  <2> HIDE DEF I, f
  <2> QED
    BY <1>2, <1>3, FS_Surjection
<1>5. candidates \in SUBSET Triples
  BY DEF candidates, Triples
<1> QED
  BY <1>4, <1>5, FS_Subset

\* The terms is_better compares.
ErrorTimes(t, u, f) == error(t, f) * (u[1] * u[3])
FromCentre(t) == Abs(reference * t[2] - 1000 * t[1])
Tie(t, u) ==
  \/ t[1] < u[1]
  \/ /\ t[1] = u[1]
     /\ \/ FromCentre(t) < FromCentre(u)
        \/ FromCentre(t) = FromCentre(u) /\ (t[2] < u[2] \/ (t[2] = u[2] /\ t[3] < u[3]))

\* The search's order in whole numbers: the error first, then the tie-breaks.
LEMMA BetterIs ==
  ASSUME NEW t \in candidates, NEW u \in candidates, NEW f \in Nat
  PROVE  /\ is_better(t, u, f) <=>
              \/ ErrorTimes(t, u, f) < ErrorTimes(u, t, f)
              \/ ErrorTimes(t, u, f) = ErrorTimes(u, t, f) /\ Tie(t, u)
         /\ error(t, f) \in Nat /\ FromCentre(t) \in Nat
         /\ t[1] * t[3] \in Nat \ {0} /\ ErrorTimes(t, u, f) \in Nat
<1>1. /\ t[1] \in Nat \ {0} /\ t[2] \in Nat \ {0} /\ t[3] \in Nat \ {0}
      /\ u[1] \in Nat \ {0} /\ u[2] \in Nat \ {0} /\ u[3] \in Nat \ {0}
  BY CandidateIs
<1>2. error(t, f) \in Nat /\ error(u, f) \in Nat /\ FromCentre(t) \in Nat
  <2>1. \A x \in Int : Abs(x) \in Nat
    BY DEF Abs
  <2>2. /\ reference * t[2] - f * t[1] * t[3] \in Int
        /\ reference * u[2] - f * u[1] * u[3] \in Int
        /\ reference * t[2] - 1000 * t[1] \in Int
    BY <1>1 DEF reference
  <2> QED
    BY <2>1, <2>2 DEF error, FromCentre
<1>3. /\ error(t, f) * u[1] * u[3] = ErrorTimes(t, u, f)
      /\ error(u, f) * t[1] * t[3] = ErrorTimes(u, t, f)
  BY <1>1, <1>2 DEF ErrorTimes
<1>4. t[1] * t[3] \in Nat \ {0} /\ u[1] * u[3] \in Nat
  BY <1>1
<1>5. ErrorTimes(t, u, f) \in Nat
  BY <1>2, <1>4 DEF ErrorTimes
<1> QED
  BY <1>2, <1>3, <1>4, <1>5 DEF is_better, Tie, FromCentre

\* Of two candidates one is better, and better is transitive.
LEMMA BetterOrders ==
  ASSUME NEW f \in Nat
  PROVE  /\ \A t, u \in candidates : t = u \/ is_better(t, u, f) \/ is_better(u, t, f)
         /\ \A t, u, v \in candidates :
              is_better(t, u, f) /\ is_better(u, v, f) => is_better(t, v, f)
<1>1. ASSUME NEW t \in candidates, NEW u \in candidates
      PROVE  t = u \/ is_better(t, u, f) \/ is_better(u, t, f)
  <2>1. t = u \/ Tie(t, u) \/ Tie(u, t)
    <3>1. /\ t = <<t[1], t[2], t[3]>> /\ u = <<u[1], u[2], u[3]>>
          /\ t[1] \in Nat /\ t[2] \in Nat /\ t[3] \in Nat
          /\ u[1] \in Nat /\ u[2] \in Nat /\ u[3] \in Nat
      BY CandidateIs
    <3>2. FromCentre(t) \in Nat /\ FromCentre(u) \in Nat
      BY BetterIs
    <3>3. t[1] = u[1] /\ t[2] = u[2] /\ t[3] = u[3] => t = u
      BY <3>1
    <3> QED
      BY <3>1, <3>2, <3>3 DEF Tie
  <2>2. ErrorTimes(t, u, f) \in Nat /\ ErrorTimes(u, t, f) \in Nat
    BY BetterIs
  <2>3. is_better(t, u, f) <=> \/ ErrorTimes(t, u, f) < ErrorTimes(u, t, f)
                               \/ ErrorTimes(t, u, f) = ErrorTimes(u, t, f) /\ Tie(t, u)
    BY BetterIs, Zenon
  <2>4. is_better(u, t, f) <=> \/ ErrorTimes(u, t, f) < ErrorTimes(t, u, f)
                               \/ ErrorTimes(u, t, f) = ErrorTimes(t, u, f) /\ Tie(u, t)
    BY BetterIs, Zenon
  <2> QED
    BY <2>1, <2>2, <2>3, <2>4
<1>2. ASSUME NEW t \in candidates, NEW u \in candidates, NEW v \in candidates,
             is_better(t, u, f), is_better(u, v, f)
      PROVE  is_better(t, v, f)
  <2> DEFINE ea == error(t, f)
             eb == error(u, f)
             ec == error(v, f)
             da == t[1] * t[3]
             db == u[1] * u[3]
             dc == v[1] * v[3]
  <2>1. /\ ea \in Nat /\ eb \in Nat /\ ec \in Nat
        /\ da \in Nat \ {0} /\ db \in Nat \ {0} /\ dc \in Nat \ {0}
    BY BetterIs
  <2>2. /\ ErrorTimes(t, u, f) = ea * db /\ ErrorTimes(u, t, f) = eb * da
        /\ ErrorTimes(u, v, f) = eb * dc /\ ErrorTimes(v, u, f) = ec * db
        /\ ErrorTimes(t, v, f) = ea * dc /\ ErrorTimes(v, t, f) = ec * da
    BY DEF ErrorTimes
  <2>3. /\ ea * db < eb * da \/ (ea * db = eb * da /\ Tie(t, u))
        /\ eb * dc < ec * db \/ (eb * dc = ec * db /\ Tie(u, v))
        /\ is_better(t, v, f) <=> ea * dc < ec * da \/ (ea * dc = ec * da /\ Tie(t, v))
    <3>1. \/ ErrorTimes(t, u, f) < ErrorTimes(u, t, f)
          \/ ErrorTimes(t, u, f) = ErrorTimes(u, t, f) /\ Tie(t, u)
      BY <1>2, BetterIs, Zenon
    <3>2. \/ ErrorTimes(u, v, f) < ErrorTimes(v, u, f)
          \/ ErrorTimes(u, v, f) = ErrorTimes(v, u, f) /\ Tie(u, v)
      BY <1>2, BetterIs, Zenon
    <3>3. is_better(t, v, f) <=> \/ ErrorTimes(t, v, f) < ErrorTimes(v, t, f)
                                 \/ ErrorTimes(t, v, f) = ErrorTimes(v, t, f) /\ Tie(t, v)
      BY BetterIs, Zenon
    <3> QED
      BY <3>1, <3>2, <3>3, <2>2, Zenon
  <2>4. Tie(t, u) /\ Tie(u, v) => Tie(t, v)
    <3>1. /\ t[1] \in Nat /\ t[2] \in Nat /\ t[3] \in Nat
          /\ u[1] \in Nat /\ u[2] \in Nat /\ u[3] \in Nat
          /\ v[1] \in Nat /\ v[2] \in Nat /\ v[3] \in Nat
      BY CandidateIs
    <3>2. FromCentre(t) \in Nat /\ FromCentre(u) \in Nat /\ FromCentre(v) \in Nat
      BY BetterIs
    <3> QED
      BY <3>1, <3>2 DEF Tie
  <2> HIDE DEF ea, eb, ec, da, db, dc
  <2>5. ea * db <= eb * da /\ eb * dc <= ec * db
    BY <2>1, <2>3
  <2>6. /\ ea * dc <= ec * da
        /\ ea * db < eb * da \/ eb * dc < ec * db => ea * dc < ec * da
    BY <2>1, <2>5, FractionsOrder
  <2>7. ea * dc \in Nat /\ ec * da \in Nat
    BY <2>1
  <2> QED
    BY <2>3, <2>4, <2>6, <2>7
<1> QED
  BY <1>1, <1>2

\* What the search returns is one of the triples it met.
LEMMA CalculateIs ==
  ASSUME NEW f \in Nat
  PROVE  calculate(f) = <<>> \/ calculate(f) \in candidates
<1> DEFINE R == {p \in candidates \X candidates : is_better(p[1], p[2], f)}
<1>1. \A t, u \in candidates : <<t, u>> \in R <=> is_better(t, u, f)
  OBVIOUS
<1>2. <<1, 12, 1>> \in candidates
  BY CalcAssumption DEF candidates, reference
<1>3. \E t \in candidates : \A u \in candidates : u = t \/ <<t, u>> \in R
  <2> HIDE DEF R
  <2>1. /\ \A t, u \in candidates : t = u \/ <<t, u>> \in R \/ <<u, t>> \in R
        /\ \A t, u, v \in candidates : <<t, u>> \in R /\ <<u, v>> \in R => <<t, v>> \in R
    BY <1>1, BetterOrders
  <2>2. candidates # {} /\ IsFiniteSet(candidates)
    BY <1>2, FiniteCandidates
  <2> QED
    BY <2>1, <2>2, FirstExists
<1>4. \E t \in candidates : \A u \in candidates : u = t \/ is_better(t, u, f)
  BY <1>1, <1>3
<1> QED
  BY <1>4 DEF calculate

-----------------------------------------------------------------------------
BootPcs == {"none", "start", "open", "policy", "clock", "select", "release", "core", "core_pump",
            "int", "int_pump", "meter", "up", "reset", "streaming"}
BootTypes ==
  /\ bpc \in BootPcs /\ (bpc # "none" => boot \in 1 .. NBootOptions)
  /\ held_in_reset \in BOOLEAN /\ torn \in BOOLEAN
  /\ DOMAIN preg = Which /\ preg = [w \in Which |-> preg[w]]
  /\ DOMAIN pll = Which /\ pll = [w \in Which |-> pll[w]]
  /\ DOMAIN profile_kind = Which /\ profile_kind = [w \in Which |-> profile_kind[w]]
Up == {"up", "reset", "streaming"}
\* The scheduler and the copy of the configuration, since each was set.
Prepared ==
  /\ bpc \notin {"none", "start"} => sched.policy = "FIFO"
  /\ bpc \notin {"none", "start", "open"} => gp_out = cfg_copy
\* The measured clock still runs.
ClockKnown == bpc \in Up => streamer_clk = ActualClock /\ streamer_clk # NoClock
OutputsOn ==
  /\ bpc = "reset" => pio_cfg = [oe |-> TRUE, active |-> 0, live |-> 0]
  /\ bpc = "streaming" => pio_cfg.oe /\ pio_cfg.active = resolve_done_masks[1]
\* Unless an update was cut short, a PLL runs on the counters written to it,
\* and those of a frequency are a triple the search met.
CountersWhole ==
  ~torn => \A w \in Which :
    /\ pll[w] = preg[w]
    /\ profile_kind[w] = "frequency" =>
         \E t \in candidates : preg[w] = [k \in 1 .. 3 |-> encode(t[k])]
BootInv == BootTypes /\ Prepared /\ ClockKnown /\ OutputsOn /\ CountersWhole

\* The end of a process keeps the invariant, however it comes.
LEMMA EndsStep ==
  ASSUME NEW cut \in BOOLEAN, BootInv, Ends(cut)
  PROVE  BootInv'
BY DEF BootInv, BootTypes, BootPcs, Prepared, ClockKnown, OutputsOn, CountersWhole, Up, Ends, Hw, candidates

\* Steps that leave the counters and the history alone.
LEMMA CountersStay ==
  ASSUME BootInv, UNCHANGED <<preg, pll, profile_kind, torn>>
  PROVE  CountersWhole'
BY DEF BootInv, CountersWhole

\* The clock of the fabric depends on four settings only.
LEMMA ClockStays ==
  ASSUME UNCHANGED <<gp_out, held_in_reset, pll, ext_clk>>
  PROVE  ActualClock' = ActualClock
BY DEF ActualClock

\* From the start to the selected clock.
LEMMA BeginStep ==
  ASSUME BootInv,
         \/ \E n \in 1 .. NBootOptions : StartBoot(n)
         \/ RealtimeScheduler \/ OpenFpga \/ Policy
         \/ KeepClock \/ HoldReset \/ SelClk \/ ReleaseReset
  PROVE  BootInv'
<1> USE DEF BootInv, BootTypes, BootPcs, Prepared, ClockKnown, OutputsOn, Up, Hw, History
<1>1. CASE \E n \in 1 .. NBootOptions : StartBoot(n)
  <2>1. CountersWhole'
    BY <1>1, CountersStay DEF StartBoot
  <2> QED
    BY <1>1, <2>1 DEF StartBoot
<1>2. CASE RealtimeScheduler
  <2>1. CountersWhole'
    BY <1>2, CountersStay DEF RealtimeScheduler
  <2> QED
    BY <1>2, <2>1 DEF RealtimeScheduler
<1>3. CASE OpenFpga
  <2>1. CASE bopt.version_ok
    <3>1. CountersWhole'
      BY <1>3, <2>1, CountersStay DEF OpenFpga
    <3> QED
      BY <1>3, <2>1, <3>1 DEF OpenFpga
  <2>2. CASE ~bopt.version_ok
    BY <1>3, <2>2, EndsStep DEF OpenFpga
  <2> QED
    BY <2>1, <2>2
<1>4. CASE Policy
  <2>1. CountersWhole'
    BY <1>4, CountersStay DEF Policy
  <2>2. gp_out' = cfg_copy'
    BY <1>4 DEF Policy
  <2> QED
    BY <1>4, <2>1, <2>2 DEF Policy
<1>5. CASE KeepClock
  <2>1. CountersWhole'
    BY <1>5, CountersStay DEF KeepClock
  <2> QED
    BY <1>5, <2>1 DEF KeepClock
<1>6. CASE HoldReset
  <2>1. CASE resolve_clock_selection = "raw_select" /\ bopt.clk > 3
    BY <1>6, <2>1, EndsStep DEF HoldReset
  <2>2. CASE ~(resolve_clock_selection = "raw_select" /\ bopt.clk > 3)
    <3>1. CountersWhole'
      BY <1>6, <2>2, CountersStay DEF HoldReset
    <3> QED
      BY <1>6, <2>2, <3>1 DEF HoldReset
  <2> QED
    BY <2>1, <2>2
<1>7. CASE SelClk
  <2>1. CountersWhole'
    BY <1>7, CountersStay DEF SelClk
  <2> QED
    BY <1>7, <2>1 DEF SelClk
<1>8. CASE ReleaseReset
  <2>1. CountersWhole'
    BY <1>8, CountersStay DEF ReleaseReset
  <2> QED
    BY <1>8, <2>1 DEF ReleaseReset
<1> QED
  BY <1>1, <1>2, <1>3, <1>4, <1>5, <1>6, <1>7, <1>8

\* A PLL is set, or its update is cut short.
LEMMA WriteStep ==
  ASSUME BootInv, NEW w \in Which, WriteCountersOf(w)
  PROVE  BootInv'
<1> DEFINE t == resolve_profile(Profile(w))
<1>1. CASE t = <<>> /\ Ends(FALSE)
  BY <1>1, EndsStep
<1>2. CASE ~(t = <<>> /\ Ends(FALSE))
  <2>1. PICK k \in 0 .. 3 :
          /\ t # <<>>
          /\ preg' = [preg EXCEPT ![w] = [j \in 1 .. 3 |-> IF j <= k THEN encode(t[j]) ELSE @[j]]]
          /\ profile_kind' = [profile_kind EXCEPT ![w] = Profile(w).kind]
          /\ IF k = 3
               THEN /\ pll' = [pll EXCEPT ![w] = preg'[w]]
                    /\ bpc' = Pump(w) /\ UNCHANGED <<torn, sched>>
               ELSE /\ bpc' = "none" /\ torn' = TRUE
                    /\ sched' = [policy |-> "OTHER", orig |-> {}]
                    /\ UNCHANGED pll
          /\ UNCHANGED <<gp_out, cfg_copy, held_in_reset, ext_clk, pio_cfg, streamer_clk, boot, boots>>
    BY <1>2 DEF WriteCountersOf
  <2>2. bpc = w /\ bpc \in {"core", "int"} /\ w \in {"core", "int"}
    BY DEF WriteCountersOf, Which
  <2>3. CASE k # 3
    <3>1. bpc' = "none" /\ torn' = TRUE /\ pll' = pll /\ held_in_reset' = held_in_reset
      BY <2>1, <2>3
    <3>2. BootTypes'
      BY <2>1, <3>1 DEF BootInv, BootTypes, BootPcs
    <3> QED
      BY <3>1, <3>2 DEF BootInv, Prepared, ClockKnown, OutputsOn, CountersWhole, Up
  <2>4. CASE k = 3
    <3>1. /\ pll' = [pll EXCEPT ![w] = preg'[w]] /\ bpc' = Pump(w) /\ bpc' \in {"core_pump", "int_pump"}
          /\ torn' = torn /\ sched' = sched
          /\ UNCHANGED <<gp_out, cfg_copy, held_in_reset, boot>>
      BY <2>1, <2>4 DEF Pump
    <3>2. BootTypes'
      BY <2>1, <2>2, <3>1 DEF BootInv, BootTypes, BootPcs
    <3>3. Prepared' /\ ClockKnown' /\ OutputsOn'
      BY <2>2, <3>1 DEF BootInv, Prepared, ClockKnown, OutputsOn, Up
    <3>4. preg'[w] = [j \in 1 .. 3 |-> encode(t[j])] /\ pll'[w] = preg'[w]
      BY <2>1, <2>4, <3>1 DEF BootInv, BootTypes
    <3>5. Profile(w).kind = "frequency" => t \in candidates
      <4> SUFFICES ASSUME Profile(w).kind = "frequency" PROVE t \in candidates
        OBVIOUS
      <4>1. boot \in 1 .. NBootOptions
        BY <2>2 DEF BootInv, BootTypes
      <4>2. Profile(w).mhz \in Frequencies
        BY <4>1, BootAssumption DEF Profile, bopt
      <4>3. t = calculate(Profile(w).mhz)
        BY <4>2 DEF resolve_profile, calculated
      <4>4. Profile(w).mhz \in Nat
        BY <4>2, BootAssumption
      <4> QED
        BY <2>1, <4>3, <4>4, CalculateIs
    <3>6. ASSUME ~torn', NEW v \in Which
          PROVE  /\ pll'[v] = preg'[v]
                 /\ profile_kind'[v] = "frequency" =>
                      \E u \in candidates : preg'[v] = [j \in 1 .. 3 |-> encode(u[j])]
      <4>1. CASE v = w
        <5>1. profile_kind'[v] = Profile(w).kind
          BY <2>1, <4>1 DEF BootInv, BootTypes
        <5> QED
          BY <3>4, <3>5, <4>1, <5>1
      <4>2. CASE v # w
        <5>1. pll'[v] = pll[v] /\ preg'[v] = preg[v] /\ profile_kind'[v] = profile_kind[v]
          BY <2>1, <3>1, <4>2 DEF BootInv, BootTypes
        <5> QED
          BY <3>1, <3>6, <5>1 DEF BootInv, CountersWhole
      <4> QED
        BY <4>1, <4>2
    <3>7. CountersWhole'
      BY <3>6 DEF CountersWhole
    <3> QED
      BY <3>2, <3>3, <3>7 DEF BootInv
  <2> QED
    BY <2>3, <2>4
<1> QED
  BY <1>1, <1>2

\* The other steps of the PLLs.
LEMMA PumpStep ==
  ASSUME BootInv, NEW w \in Which, KeepCountersOf(w) \/ set_charge_pump(w)
  PROVE  BootInv'
<1> USE DEF BootInv, BootTypes, BootPcs, Prepared, ClockKnown, OutputsOn, Up, Hw, History, Which
<1>1. CASE KeepCountersOf(w)
  <2>1. CountersWhole'
    BY <1>1, CountersStay DEF KeepCountersOf
  <2> QED
    BY <1>1, <2>1 DEF KeepCountersOf, Pump
<1>2. CASE set_charge_pump(w)
  <2>1. /\ preg' = preg /\ profile_kind' = profile_kind /\ torn' = torn
        /\ pll' = pll \/ pll' = [pll EXCEPT ![w] = preg[w]]
    BY <1>2 DEF set_charge_pump
  <2>2. \A v \in Which : pll'[v] = pll[v] \/ pll'[v] = preg[v]
    BY <2>1
  <2>3. DOMAIN pll' = Which /\ pll' = [v \in Which |-> pll'[v]]
    BY <2>1
  <2>4. CountersWhole'
    <3>1. ASSUME ~torn, NEW v \in Which PROVE pll'[v] = preg'[v]
      BY <2>1, <2>2, <3>1 DEF CountersWhole
    <3>2. ASSUME ~torn, NEW v \in Which, profile_kind[v] = "frequency"
          PROVE  \E t \in candidates : preg[v] = [k \in 1 .. 3 |-> encode(t[k])]
      BY <3>2 DEF CountersWhole
    <3> QED
      BY <2>1, <3>1, <3>2, ZenonT(60) DEF CountersWhole
  <2> QED
    BY <1>2, <2>3, <2>4 DEF set_charge_pump, Pump, After
<1> QED
  BY <1>1, <1>2

\* The measurement, the streamer, and the ends.
LEMMA UpStep ==
  ASSUME BootInv, refresh_streamer_clk \/ StreamerOff \/ StreamerOn \/ EndBoot \/ KillBoot
  PROVE  BootInv'
<1> USE DEF BootInv, BootTypes, BootPcs, Prepared, ClockKnown, OutputsOn, Up, Hw, History
<1>1. CASE refresh_streamer_clk
  <2>1. CASE ActualClock = NoClock
    BY <1>1, <2>1, EndsStep DEF refresh_streamer_clk
  <2>2. CASE ActualClock # NoClock
    <3>1. CountersWhole' /\ ActualClock' = ActualClock
      BY <1>1, <2>2, CountersStay, ClockStays DEF refresh_streamer_clk
    <3> QED
      BY <1>1, <2>2, <3>1 DEF refresh_streamer_clk
  <2> QED
    BY <2>1, <2>2
<1>2. CASE StreamerOff
  <2>1. CASE resolve_done_masks = <<>>
    BY <1>2, <2>1, EndsStep DEF StreamerOff
  <2>2. CASE resolve_done_masks # <<>>
    <3>1. CountersWhole' /\ ActualClock' = ActualClock
      BY <1>2, <2>2, CountersStay, ClockStays DEF StreamerOff
    <3> QED
      BY <1>2, <2>2, <3>1 DEF StreamerOff
  <2> QED
    BY <2>1, <2>2
<1>3. CASE StreamerOn
  <2>1. CountersWhole' /\ ActualClock' = ActualClock
    BY <1>3, CountersStay, ClockStays DEF StreamerOn
  <2>2. resolve_done_masks' = resolve_done_masks
    BY <1>3 DEF StreamerOn, resolve_done_masks, bopt
  <2>3. pio_cfg'.oe /\ pio_cfg'.active = resolve_done_masks[1]
    <3>1. pio_cfg = [oe |-> TRUE, active |-> 0, live |-> 0]
      BY <1>3 DEF StreamerOn
    <3>2. pio_cfg' = [pio_cfg EXCEPT !.active = resolve_done_masks[1], !.live = resolve_done_masks[2]]
      BY <1>3 DEF StreamerOn
    <3>3. pio_cfg' = [oe |-> TRUE, active |-> resolve_done_masks[1], live |-> resolve_done_masks[2]]
      BY <3>1, <3>2
    <3> QED
      BY <3>3
  <2> QED
    BY <1>3, <2>1, <2>2, <2>3 DEF StreamerOn
<1>4. CASE EndBoot \/ KillBoot
  BY <1>4, EndsStep DEF EndBoot, KillBoot
<1> QED
  BY <1>1, <1>2, <1>3, <1>4

\* Power-up establishes the invariant of the start-up.
LEMMA BootStart == BootInit => BootInv
BY DEF BootInit, BootInv, BootTypes, BootPcs, Prepared, ClockKnown, OutputsOn, CountersWhole, Up, Which

\* Other programs leave the start-up alone.
LEMMA BootIdle == BootInv /\ UNCHANGED bootVars => BootInv'
<1> SUFFICES ASSUME BootInv, UNCHANGED bootVars PROVE BootInv'
  OBVIOUS
<1>1. CountersWhole' /\ ActualClock' = ActualClock
  BY CountersStay, ClockStays DEF bootVars
<1>2. resolve_done_masks' = resolve_done_masks
  BY DEF bootVars, resolve_done_masks, bopt
<1> QED
  BY <1>1, <1>2 DEF bootVars, BootInv, BootTypes, Prepared, ClockKnown, OutputsOn

\* A counter of up to 510 survives its two fields.
LEMMA EncodeKeeps ==
  ASSUME NEW v \in 1 .. 510
  PROVE  convert(encode(v)) = v
BY DEF convert, encode

\* The invariant of the start-up says that up means ready.
LEMMA UpIsReady == BootInv => UpMeansReady
<1> SUFFICES ASSUME BootInv PROVE BoardReady /\ PllLegal
  BY DEF UpMeansReady
<1>1. BoardReady
  <2>1. ActualClock # NoClock => ~held_in_reset
    BY DEF ActualClock, BootInv, BootTypes
  <2> QED
    BY <2>1 DEF BoardReady, BootInv, Prepared, ClockKnown, OutputsOn, Up
<1>2. ASSUME ~torn, NEW w \in Which, profile_kind[w] = "frequency"
      PROVE  is_strict(CountersOf(w))
  <2>1. PICK t \in candidates : pll[w] = [k \in 1 .. 3 |-> encode(t[k])]
    BY <1>2 DEF BootInv, CountersWhole
  <2>2. is_strict(t)
    BY CandidateIs
  <2>3. \A k \in 1 .. 3 : convert(pll[w][k]) = t[k]
    <3>1. \A k \in 1 .. 3 : t[k] \in 1 .. 510
      BY <2>2 DEF is_strict
    <3>2. \A k \in 1 .. 3 : pll[w][k] = encode(t[k])
      BY <2>1
    <3>3. \A v \in 1 .. 510 : convert(encode(v)) = v
      BY EncodeKeeps
    <3> TAKE k \in 1 .. 3
    <3>4. pll[w][k] = encode(t[k]) /\ t[k] \in 1 .. 510
      BY <3>1, <3>2
    <3>5. convert(encode(t[k])) = t[k]
      BY <3>3, <3>4
    <3> QED
      BY <3>4, <3>5, Zenon
  <2>4. CountersOf(w)[1] = t[1] /\ CountersOf(w)[2] = t[2] /\ CountersOf(w)[3] = t[3]
    BY <2>3 DEF CountersOf
  <2> QED
    BY <2>2, <2>4 DEF is_strict
<1> QED
  BY <1>1, <1>2 DEF PllLegal

\* A process that is up runs in realtime, knows the clock its streamer really
\* has, and runs its PLLs within the limits of the device.
THEOREM AlwaysReady == BootSpec => []UpMeansReady
<1>1. BootInv /\ [BootNext]_bootVars => BootInv'
  BY BootIdle, BeginStep, WriteStep, PumpStep, UpStep DEF BootNext
<1> QED
  BY <1>1, BootStart, UpIsReady, PTL DEF BootSpec
-----------------------------------------------------------------------------
(***************************************************************************)
(* The board.                                                              *)
(***************************************************************************)

\* Every step of the board is a step of the time stamps or stutters on them.
LEMMA BoardTimestamps == [Next]_vars => [TsNext]_tsVars
BY DEF Next, vars, FlowRuns, DmaRuns, TsRuns, PathRuns, BootRuns, CounterRuns, WebRuns, ScpiRuns,
       LineRuns

\* The programs' composition runs the time-stamp tools as specified on their own.
LEMMA BoardTsSpec == Spec => TsSpec
<1>1. Init => TsInit
  BY DEF Init
<1> QED
  BY <1>1, BoardTimestamps, PTL DEF Spec, TsSpec

\* The control loop of ppgpsdo is called with the k-th stamp of one channel
\* and the k-th of the other.
THEOREM BoardPairsMatch == Spec => []PairsMatch
BY BoardTsSpec, PairsAlwaysMatch, PTL

\* The return code of ppts and ppgpsdo tells what went wrong and nothing else.
THEOREM BoardCodeTells == Spec => []CodeTellsCause
BY BoardTsSpec, CodeAlwaysTells, PTL

\* The same of the transfers.
LEMMA BoardDma == Spec => DmaSpec
<1>1. Init => DmaInit
  BY DEF Init
<1>2. [Next]_vars => [DmaNext]_dmaVars
  BY DEF Next, vars, FlowRuns, DmaRuns, TsRuns, PathRuns, BootRuns, CounterRuns, WebRuns, ScpiRuns,
         LineRuns
<1> QED
  BY <1>1, <1>2, PTL DEF Spec, DmaSpec

\* And of the web interface.
LEMMA BoardWeb == Spec => WebSpec
<1>1. Init => WebInit
  BY DEF Init
<1>2. [Next]_vars => [WebNext]_webVars
  BY DEF Next, vars, FlowRuns, DmaRuns, TsRuns, PathRuns, BootRuns, CounterRuns, WebRuns, ScpiRuns,
         LineRuns
<1> QED
  BY <1>1, <1>2, PTL DEF Spec, WebSpec

\* A transfer delivers its load as often as asked for, and the terminator once.
THEOREM BoardDmaDelivers == Spec => []DmaDelivers
BY BoardDma, DmaAlwaysDelivers, PTL

\* The browser is shown what the hardware has, unless it is told of a failure.
THEOREM BoardWebTruthful == Spec => []WebTruthful
BY BoardWeb, WebAlwaysTruthful, PTL

\* And of the SCPI server.
LEMMA BoardScpi == Spec => ScpiSpec
<1>1. Init => ScpiInit
  BY DEF Init
<1>2. [Next]_vars => [ScpiNext]_scpiVars
  BY DEF Next, vars, FlowRuns, DmaRuns, TsRuns, PathRuns, BootRuns, CounterRuns, WebRuns, ScpiRuns,
         LineRuns
<1> QED
  BY <1>1, <1>2, PTL DEF Spec, ScpiSpec

\* A client gets every reply in order, and a sequence that did not parse is
\* never replaced by the one loaded before it.
THEOREM BoardSessionsKept == Spec => []SessionsKept
BY BoardScpi, SessionsAlwaysKept, PTL

\* And of the start of a program.
LEMMA BoardBoot == Spec => BootSpec
<1>1. Init => BootInit
  BY DEF Init
<1>2. [Next]_vars => [BootNext]_bootVars
  BY DEF Next, vars, FlowRuns, DmaRuns, TsRuns, PathRuns, BootRuns, CounterRuns, WebRuns, ScpiRuns,
         LineRuns
<1> QED
  BY <1>1, <1>2, PTL DEF Spec, BootSpec

\* A program that is up knows its clock, and its PLLs are within their limits.
THEOREM BoardComesUp == Spec => []UpMeansReady
BY BoardBoot, AlwaysReady, PTL

\* And of the programs that stream.
LEMMA BoardFlow == Spec => FlowSpec
<1>1. Init => FlowInit
  BY DEF Init
<1>2. [Next]_vars => [FlowNext]_flowVars
  BY DEF Next, vars, FlowRuns, DmaRuns, TsRuns, PathRuns, BootRuns, CounterRuns, WebRuns, ScpiRuns,
         LineRuns
<1> QED
  BY <1>1, <1>2, PTL DEF Spec, FlowSpec

\* After a run that ended in a time-out the outputs keep still.
THEOREM BoardQuiet == Spec => QuietAfterTimeout
BY BoardFlow, TimeoutIsQuiet, PTL

\* RC_OK means that the sequence was played, whatever ran before.
THEOREM BoardOkMeansPlayed == Spec => []OkMeansPlayed
BY BoardFlow, OkIsPlayed, PTL

\* The checks of the programs raise no false alarm, whatever ran before.
THEOREM BoardNoFalseAlarm == Spec => []NoFalseAlarm
BY BoardFlow, AlarmIsTrue, PTL
=============================================================================
