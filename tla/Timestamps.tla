----------------------------- MODULE Timestamps -----------------------------
(***************************************************************************)
(* Time stamps: the capture core (ip/ts_core), class timestamp of          *)
(* c++/timestamp.hh, the aggregator of c++/zip_aggregator.hh, and the      *)
(* programs ppts and ppgpsdo of c++/pptool_measurement.cc.                 *)
(*                                                                         *)
(* ppgpsdo has four threads: a reader for each channel, the aggregator's   *)
(* worker, which hands pairs of stamps to the control loop, and the main   *)
(* thread, which joins the others.  ppts has the readers only.             *)
(***************************************************************************)
EXTENDS Integers, Sequences, SequencesExt, FiniteSets

CONSTANTS
  FIFO_WORDS,   \* words a channel's FIFO holds, two for a stamp
  MAX_DEPTH,    \* max_depth_ of the aggregator's queues
  Wanted,       \* -nr: stamps to read; 0 stands for no end
  MaxEvents     \* bound: events on a channel

ASSUME TimestampAssumption ==
  FIFO_WORDS \in Nat \ {0, 1} /\ MAX_DEPTH \in Nat \ {0} /\ MaxEvents \in Nat

Channels == {"pps", "sigA"}
Stamp == 0 .. MaxEvents        \* the number of an event, 0 for none

VARIABLES
  events,      \* events so far, by channel
  words,       \* the FIFO: the number of the event, a high and a low word each
  held,        \* a stamp the core holds until the FIFO takes it
  overflow,    \* an event came while one was held
  tool, nr,    \* "ppts" or "ppgpsdo", and how many stamps
  active,      \* the channels it reads
  ignore_overflow, has_timeout,
  reader,      \* by channel: [pc, ctr, stamp, failure]
  qs,          \* qa_ and qb_
  stopping, drain,
  agg_failure, \* what the task threw: see TaskThrows
  worker,      \* [pc, pair]
  stop_requested,
  tmain,       \* where the main thread is
  pairs,       \* history: what the task was called with
  result       \* the return code, a set of error bits

coreVars == <<events, words, held, overflow>>
optVars == <<tool, nr, active, ignore_overflow, has_timeout>>
aggVars == <<qs, stopping, drain, agg_failure, worker>>
tsVars == <<coreVars, optVars, reader, aggVars, stop_requested, tmain, pairs, result>>

Both(x) == [c \in Channels |-> x]
NewReader == [pc |-> "wait", ctr |-> 0, stamp |-> 0, failure |-> "none"]

\* A program has configured the routing and cleared FIFOs and flags
\* (TimestampSession, clear_capture_state).
TsInit ==
  /\ events = Both(0) /\ words = Both(<<>>) /\ held = Both(0) /\ overflow = Both(FALSE)
  /\ tool \in {"ppts", "ppgpsdo"} /\ nr \in Wanted
  /\ active \in IF tool = "ppts" THEN SUBSET Channels ELSE {Channels}
  /\ ignore_overflow \in IF tool = "ppts" THEN BOOLEAN ELSE {FALSE}
  /\ has_timeout \in BOOLEAN
  /\ reader = Both(NewReader)
  /\ qs = Both(<<>>) /\ stopping = FALSE /\ drain = TRUE /\ agg_failure = "none"
  /\ worker = [pc |-> "wait", pair |-> <<0, 0>>]
  /\ stop_requested = FALSE /\ tmain = "join" /\ pairs = <<>> /\ result = {}
-----------------------------------------------------------------------------
(***************************************************************************)
(* The core: an event is held until the FIFO takes it; one that comes      *)
(* meanwhile is lost and latches the overflow flag.  A stamp enters the    *)
(* FIFO word by word.                                                      *)
(***************************************************************************)
Event(c) ==
  /\ events[c] < MaxEvents
  /\ events' = [events EXCEPT ![c] = @ + 1]
  /\ IF held[c] # 0
       THEN overflow' = [overflow EXCEPT ![c] = TRUE] /\ UNCHANGED held
       ELSE held' = [held EXCEPT ![c] = events[c] + 1] /\ UNCHANGED overflow
  /\ UNCHANGED <<words, optVars, reader, aggVars, stop_requested, tmain, pairs, result>>
Accept(c) ==
  /\ held[c] # 0 /\ Len(words[c]) <= FIFO_WORDS - 2
  /\ words' = [words EXCEPT ![c] = @ \o <<held[c], held[c]>>]
  /\ held' = [held EXCEPT ![c] = 0]
  /\ UNCHANGED <<events, overflow, optVars, reader, aggVars, stop_requested, tmain, pairs, result>>
-----------------------------------------------------------------------------
(***************************************************************************)
(* A reader thread: read_with_timeout, submit, count.                      *)
(***************************************************************************)
Reading(c) == c \in active /\ reader[c].pc = "wait"
ReaderGoes(c, r) == reader' = [reader EXCEPT ![c] = r]
\* The exception leaves the loop of ts_reader; in ppgpsdo it first asks the
\* others to stop.
Throws(c, failure) ==
  ReaderGoes(c, [reader[c] EXCEPT !.pc = IF tool = "ppgpsdo" THEN "request_stop" ELSE "done",
                                  !.failure = failure])

\* Mutant: the flag is not looked at.
MutBlind(c) == FALSE
sees_overflow(c) == overflow[c] /\ ~ignore_overflow

\* The loop that waits for two words ends by an exception, ...
StopSeen(c) ==
  /\ Reading(c) /\ stop_requested
  /\ Throws(c, "stopped")
  /\ UNCHANGED <<coreVars, optVars, aggVars, stop_requested, tmain, pairs, result>>
OverflowSeen(c) ==
  /\ Reading(c) /\ sees_overflow(c)
  /\ Throws(c, "overflow")
  /\ UNCHANGED <<coreVars, optVars, aggVars, stop_requested, tmain, pairs, result>>
ReadTimesOut(c) ==
  /\ Reading(c) /\ Len(words[c]) < 2 /\ has_timeout /\ ~sees_overflow(c)
  /\ Throws(c, "timeout")
  /\ UNCHANGED <<coreVars, optVars, aggVars, stop_requested, tmain, pairs, result>>
\* ... or a stamp is read, a word at a time; the flag is checked before.
ReadStamp(c) ==
  /\ Reading(c) /\ Len(words[c]) >= 2 /\ ~sees_overflow(c)
  /\ words' = [words EXCEPT ![c] = SubSeq(@, 3, Len(@))]
  /\ ReaderGoes(c, [reader[c] EXCEPT !.stamp = words[c][1],
                                     !.pc = IF tool = "ppgpsdo" THEN "submit" ELSE "count"])
  /\ UNCHANGED <<events, held, overflow, optVars, aggVars, stop_requested, tmain, pairs, result>>

\* submitA and submitB.
Submit(c) ==
  /\ reader[c].pc = "submit"
  /\ IF stopping
       THEN Throws(c, "stopped") /\ UNCHANGED qs
       ELSE /\ Len(qs[c]) < MAX_DEPTH
            /\ qs' = [qs EXCEPT ![c] = Append(@, reader[c].stamp)]
            /\ ReaderGoes(c, [reader[c] EXCEPT !.pc = "count"])
  /\ UNCHANGED <<coreVars, optVars, stopping, drain, agg_failure, worker, stop_requested,
                 tmain, pairs, result>>
\* ts_reader: the loop ends after nr stamps.
CountStamp(c) ==
  LET n == IF nr = 0 THEN 0 ELSE reader[c].ctr + 1
  IN  /\ reader[c].pc = "count"
      /\ ReaderGoes(c, [reader[c] EXCEPT !.ctr = n,
                                         !.pc = IF nr # 0 /\ n = nr THEN "done" ELSE "wait"])
      /\ UNCHANGED <<coreVars, optVars, aggVars, stop_requested, tmain, pairs, result>>
\* request_stop: the first to ask stops the aggregator without draining it, ...
RequestStop(c) ==
  /\ reader[c].pc = "request_stop"
  /\ stop_requested' = TRUE
  /\ IF stop_requested
       THEN /\ ReaderGoes(c, [reader[c] EXCEPT !.pc = "done"])
            /\ UNCHANGED <<stopping, drain>>
       ELSE /\ ReaderGoes(c, [reader[c] EXCEPT !.pc = "join"])
            /\ stopping' = TRUE /\ drain' = IF stopping THEN drain ELSE FALSE
  /\ UNCHANGED <<coreVars, optVars, qs, agg_failure, worker, tmain, pairs, result>>
\* ... and joins its worker.
JoinWorker(c) ==
  /\ reader[c].pc = "join" /\ worker.pc = "exit"
  /\ ReaderGoes(c, [reader[c] EXCEPT !.pc = "done"])
  /\ UNCHANGED <<coreVars, optVars, aggVars, stop_requested, tmain, pairs, result>>
-----------------------------------------------------------------------------
(***************************************************************************)
(* The aggregator's worker (run).                                          *)
(***************************************************************************)
HasPair == \A c \in Channels : qs[c] # <<>>
WorkerExits ==
  /\ worker.pc = "wait" /\ stopping /\ (~drain \/ ~HasPair)
  /\ worker' = [worker EXCEPT !.pc = "exit"]
  /\ UNCHANGED <<coreVars, optVars, reader, qs, stopping, drain, agg_failure, stop_requested,
                 tmain, pairs, result>>
TakePair ==
  /\ worker.pc = "wait" /\ HasPair /\ (stopping => drain)
  /\ worker' = [pc |-> "task", pair |-> <<Head(qs["pps"]), Head(qs["sigA"])>>]
  /\ qs' = [c \in Channels |-> Tail(qs[c])]
  /\ UNCHANGED <<coreVars, optVars, reader, stopping, drain, agg_failure, stop_requested,
                 tmain, pairs, result>>
TaskReturns ==
  /\ worker.pc = "task"
  /\ worker' = [worker EXCEPT !.pc = "wait"]
  /\ pairs' = Append(pairs, worker.pair)
  /\ UNCHANGED <<coreVars, optVars, reader, qs, stopping, drain, agg_failure, stop_requested,
                 tmain, result>>
\* What the task may throw: the difference between this pair and the one before it
\* overflows ("GPSDO timestamp delta overflow"), or the converter does not answer.
Thrown == {m \in {"overflow", "converter"} : m = "overflow" => pairs # <<>>}
\* Mutant: the failure is kept, nobody is told.
MutSilent ==
  /\ worker.pc = "task"
  /\ worker' = [worker EXCEPT !.pc = "exit"]
  /\ agg_failure' \in Thrown
  /\ UNCHANGED <<coreVars, optVars, reader, qs, stopping, drain, stop_requested, tmain,
                 pairs, result>>
TaskThrows ==
  /\ worker.pc = "task"
  /\ worker' = [worker EXCEPT !.pc = "exit"]
  /\ agg_failure' \in Thrown /\ stopping' = TRUE /\ drain' = FALSE
  /\ UNCHANGED <<coreVars, optVars, reader, qs, stop_requested, tmain, pairs, result>>
-----------------------------------------------------------------------------
(***************************************************************************)
(* The main thread: joins the readers, stops the aggregator and drains it, *)
(* and makes one return code of three results.                             *)
(***************************************************************************)
JoinReaders ==
  /\ tmain = "join" /\ \A c \in active : reader[c].pc = "done"
  /\ tmain' = IF tool = "ppgpsdo" THEN "stop" ELSE "code"
  /\ UNCHANGED <<coreVars, optVars, reader, aggVars, stop_requested, pairs, result>>
StopAggregator ==
  /\ tmain = "stop"
  /\ stopping' = TRUE /\ drain' = IF stopping THEN drain ELSE TRUE
  /\ tmain' = "join_worker"
  /\ UNCHANGED <<coreVars, optVars, reader, qs, agg_failure, worker, stop_requested, pairs, result>>
MainJoinsWorker ==
  /\ tmain = "join_worker" /\ worker.pc = "exit"
  /\ tmain' = "code"
  /\ UNCHANGED <<coreVars, optVars, reader, aggVars, stop_requested, pairs, result>>

\* The message of a failure tells the code: "overflow" or "Timeout" in it, or neither.
timestamp_reader_rc(failure) ==
  CASE failure = "none" -> {} [] failure = "overflow" -> {"OVERFLOW"}
    [] failure = "timeout" -> {"TIMEOUT"} [] OTHER -> {"EXCEPTION"}
Failure(c) == reader[c].failure
Cancelled(c) == Failure(c) = "stopped"
real_failure == agg_failure # "none" \/ \E c \in Channels : Failure(c) # "none" /\ ~Cancelled(c)
\* Mutant: a cancelled reader counts as failed.
MutBlamesCancelled(c) == timestamp_reader_rc(Failure(c))
ReaderCode(c) ==
  IF Cancelled(c) /\ real_failure THEN {} ELSE timestamp_reader_rc(Failure(c))
ReturnCode ==
  /\ tmain = "code"
  /\ result' = (UNION {ReaderCode(c) : c \in Channels}) \cup timestamp_reader_rc(agg_failure)
  /\ tmain' = "returned"
  /\ UNCHANGED <<coreVars, optVars, reader, aggVars, stop_requested, pairs>>

ReaderStep(c) ==
  StopSeen(c) \/ OverflowSeen(c) \/ ReadTimesOut(c) \/ ReadStamp(c) \/ Submit(c)
    \/ CountStamp(c) \/ RequestStop(c) \/ JoinWorker(c)
WorkerStep == WorkerExits \/ TakePair \/ TaskReturns
MainStep == JoinReaders \/ StopAggregator \/ MainJoinsWorker \/ ReturnCode
TsNext ==
  \/ \E c \in Channels : Event(c) \/ Accept(c) \/ ReaderStep(c)
  \/ WorkerStep \/ TaskThrows \/ MainStep
-----------------------------------------------------------------------------
(***************************************************************************)
(* Properties.                                                             *)
(***************************************************************************)
\* The control loop sees the k-th event of one channel with the k-th of the
\* other, none left out, although each is read, queued and taken by a thread
\* of its own and a full FIFO loses events.
PairsMatch == \A k \in DOMAIN pairs : pairs[k] = <<k, k>>

\* The return code tells what went wrong and nothing else: OK exactly when
\* nothing failed, and then ppgpsdo has processed every pair; an exception only
\* when the converter did not answer; an overflow when a reader's FIFO or the
\* difference of the task overflowed.
CodeTellsCause ==
  tmain = "returned" =>
    /\ result = {} => /\ agg_failure = "none" /\ \A c \in Channels : Failure(c) = "none"
                      /\ tool = "ppgpsdo" => Len(pairs) = nr
    /\ ("EXCEPTION" \in result) = (agg_failure = "converter")
    /\ ("OVERFLOW" \in result)
         = (agg_failure = "overflow" \/ \E c \in Channels : Failure(c) = "overflow")
    /\ ("TIMEOUT" \in result) = (\E c \in Channels : Failure(c) = "timeout")

ReaderFailed == \E c \in Channels : Failure(c) # "none"
NextStamp ==
  \E c \in Channels : reader[c].pc = "submit" \/ (reader[c].pc = "wait" /\ Len(words[c]) > 1)

\* A failure ends the program: no thread stays behind in a wait for stamps,
\* for room in a queue or for another thread.  A failure of the control loop
\* is noticed at the next stamp of either channel, or by the time-out.
FailureEndsProgram ==
  (tool = "ppgpsdo" /\ (ReaderFailed \/ (agg_failure # "none" /\ (has_timeout \/ NextStamp))))
    ~> (tmain = "returned")
=============================================================================
