-------------------------------- MODULE Dma --------------------------------
(***************************************************************************)
(* The DMA transport: c_dma of tidbit/dma.hh, streamer_dma of              *)
(* c++/streamer_dma.hh, the bring-up of dma_streamer in                    *)
(* c++/basic_multi_dma.hh and the test programs of c++/ppdmatest.hh.       *)
(*                                                                         *)
(* The engine works beside the program: it takes descriptors from a FIFO   *)
(* and moves elements from the staging buffer to the stream multiplexer,   *)
(* which passes them on while its DMA channel is selected.  A process that *)
(* is killed, or gives up, leaves the engine running.                      *)
(***************************************************************************)
EXTENDS Integers, Sequences, SequencesExt

CONSTANTS
  DEPTH,           \* size of the descriptor FIFO (32)
  MAX_SIZE_DMA,    \* elements the staging buffer holds (max_size)
  Loads,           \* elements of a test sequence: their number
  Repetitions,     \* repetitions; 0 stands for a loop without end
  MaxDmaProcesses  \* bound: processes

\* The buffer holds an element and the terminator; a test sequence has elements.
ASSUME DmaAssumption ==
  /\ DEPTH \in Nat /\ DEPTH > 4 /\ MAX_SIZE_DMA \in Nat /\ MAX_SIZE_DMA > 1
  /\ Loads \subseteq Nat \ {0} /\ Repetitions \subseteq Nat

VARIABLES
  dpc,        \* where the program is
  job,        \* its arguments: number of elements, repetitions, process number
  cnt,        \* descriptors enqueued by the loop
  buffer,     \* the staging buffer, by position
  queue,      \* descriptor FIFO: <<offset, size>>
  engine,     \* the transfer in progress: <<next position, elements left>>
  stopped,    \* STOP_DESCR: the engine takes no descriptor
  channel,    \* channel of the multiplexer: 1 the FIFO, 2 the DMA engine
  jammed,     \* the streamer takes no more elements
  received,   \* history: elements the streamer took since its reset
  dmaProcesses

dmaVars == <<dpc, job, cnt, buffer, queue, engine, stopped, channel, jammed,
             received, dmaProcesses>>

Idle == <<0, 0>>
Nothing == <<>>
\* Elements carry the number of the process that wrote them.
Written(p, n) == [k \in 1 .. n |-> <<p, k>>]
Terminator(p) == <<p, 0>>

DmaInit ==
  /\ dpc = "none" /\ job = [n |-> 0, reps |-> 0, p |-> 0] /\ cnt = 0
  /\ buffer = Nothing /\ queue = <<>> /\ engine = Idle
  /\ stopped = TRUE /\ channel = 1 /\ jammed = FALSE
  /\ received = <<>> /\ dmaProcesses = 0

dmaProgram == <<job, cnt, buffer, dmaProcesses>>
Engine == <<queue, engine, stopped>>
-----------------------------------------------------------------------------
(***************************************************************************)
(* Bring-up: streamer selects the FIFO channel and resets the streamer;    *)
(* streamer_dma resets the engine; dma_streamer selects the DMA channel.   *)
(***************************************************************************)
StartDma(n, reps) ==
  /\ dpc = "none" /\ dmaProcesses < MaxDmaProcesses
  /\ dmaProcesses' = dmaProcesses + 1
  /\ job' = [n |-> n, reps |-> reps, p |-> dmaProcesses + 1]
  /\ dpc' = "select_fifo" /\ cnt' = 0
  /\ UNCHANGED <<buffer, Engine, channel, jammed, received>>
SelectFifo ==
  /\ dpc = "select_fifo"
  /\ channel' = 1 /\ dpc' = "reset_streamer"
  /\ UNCHANGED <<dmaProgram, Engine, jammed, received>>
ResetStreamer ==
  /\ dpc = "reset_streamer"
  /\ received' = <<>> /\ jammed' = FALSE
  /\ dpc' = "reset_dma"
  /\ UNCHANGED <<dmaProgram, Engine, channel>>
\* Mutant: the engine is stopped, its descriptors stay.
MutKeepsDescriptors == stopped' = TRUE /\ UNCHANGED <<queue, engine>>
dma_reset == queue' = <<>> /\ engine' = Idle /\ stopped' = TRUE
ResetDma ==
  /\ dpc = "reset_dma"
  /\ dma_reset
  /\ dpc' = "select_dma"
  /\ UNCHANGED <<dmaProgram, channel, jammed, received>>
SelectDma ==
  /\ dpc = "select_dma"
  /\ channel' = 2 /\ dpc' = "prepare"
  /\ UNCHANGED <<dmaProgram, Engine, jammed, received>>
-----------------------------------------------------------------------------
(***************************************************************************)
(* streamer_dma.                                                           *)
(***************************************************************************)
\* write_element refuses a position outside the buffer.
fits(position) == position <= MAX_SIZE_DMA
\* prepare, and verify, which reads the same positions again; write_sequence
\* of the tests leaves room for the terminator.
prepare ==
  LET n == IF job.n < MAX_SIZE_DMA THEN job.n ELSE MAX_SIZE_DMA - 1
  IN  /\ dpc = "prepare"
      /\ fits(n + 1)
      /\ buffer' = Append(Written(job.p, n), Terminator(job.p))
      /\ job' = [job EXCEPT !.n = n]
      /\ dpc' = "transfer"
      /\ UNCHANGED <<cnt, dmaProcesses, Engine, channel, jammed, received>>

\* A descriptor written to a full FIFO is lost.
enqueue(offset, size) ==
  queue' = IF Len(queue) < DEPTH THEN Append(queue, <<offset, size>>) ELSE queue
initiate_transfer == stopped' = FALSE
read_fill == Len(queue)
room == read_fill < DEPTH - 2

\* transfer: one descriptor for the sequence and its terminator.
Transfer ==
  /\ dpc = "transfer" /\ job.reps = 1
  /\ queue' = <<<<1, job.n + 1>>>> /\ engine' = Idle
  /\ initiate_transfer
  /\ dpc' = "wait"
  /\ UNCHANGED <<dmaProgram, channel, jammed, received>>

\* transfer_multiple_times: a descriptor for every repetition, ...
TransferMultipleTimes ==
  /\ dpc = "transfer" /\ job.reps # 1
  /\ dma_reset
  /\ dpc' = "enqueue"
  /\ UNCHANGED <<dmaProgram, channel, jammed, received>>
Again == cnt < job.reps \/ job.reps = 0
Enqueue ==
  /\ dpc = "enqueue" /\ Again
  /\ enqueue(1, job.n)
  /\ IF cnt = DEPTH - 4 THEN initiate_transfer ELSE UNCHANGED stopped
  /\ cnt' = IF job.reps = 0 /\ cnt > DEPTH THEN cnt ELSE cnt + 1
  /\ dpc' = "space"
  /\ UNCHANGED <<engine, job, buffer, dmaProcesses, channel, jammed, received>>
\* ... one for the terminator, ...
EnqueueFinal ==
  /\ dpc = "enqueue" /\ ~Again
  /\ enqueue(job.n + 1, 1)
  /\ dpc' = "final"
  /\ UNCHANGED <<engine, stopped, dmaProgram, channel, jammed, received>>
\* ... and after each the wait for room.
HasRoom ==
  /\ dpc \in {"space", "final"} /\ room
  /\ dpc' = IF dpc = "space" THEN "enqueue" ELSE "start"
  /\ UNCHANGED <<dmaProgram, Engine, channel, jammed, received>>
StartRest ==
  /\ dpc = "start"
  /\ initiate_transfer
  /\ dpc' = "wait"
  /\ UNCHANGED <<dmaProgram, queue, engine, channel, jammed, received>>

busy == queue # <<>> \/ engine # Idle
WaitDone ==
  /\ dpc = "wait" /\ ~busy
  /\ dpc' = "returned"
  /\ UNCHANGED <<dmaProgram, Engine, channel, jammed, received>>

\* StallTimeout: two seconds without a change of the fill level, ...
Blocked == jammed \/ stopped
StallTimeout ==
  /\ dpc \in {"space", "final"} /\ ~room /\ Blocked
  /\ dpc' = "timeout"
  /\ UNCHANGED <<dmaProgram, Engine, channel, jammed, received>>
\* ... or ten seconds until the engine is done, progress or not.
BusyTimeout ==
  /\ dpc = "wait" /\ busy
  /\ dpc' = "timeout"
  /\ UNCHANGED <<dmaProgram, Engine, channel, jammed, received>>

\* The process ends, or is killed.
EndDma ==
  /\ dpc # "none"
  /\ dpc' = "none"
  /\ UNCHANGED <<dmaProgram, Engine, channel, jammed, received>>
-----------------------------------------------------------------------------
(***************************************************************************)
(* The engine, and the streamer that takes its elements.                   *)
(***************************************************************************)
FetchDescriptor ==
  /\ ~stopped /\ engine = Idle /\ queue # <<>>
  /\ engine' = Head(queue) /\ queue' = Tail(queue)
  /\ UNCHANGED <<stopped, dpc, dmaProgram, channel, jammed, received>>
MoveElement ==
  /\ engine # Idle /\ channel = 2 /\ ~jammed
  /\ received' = IF job.reps = 0 /\ Len(received) > MAX_SIZE_DMA * DEPTH THEN received
                 ELSE Append(received, buffer[engine[1]])
  /\ engine' = IF engine[2] = 1 THEN Idle ELSE <<engine[1] + 1, engine[2] - 1>>
  /\ UNCHANGED <<queue, stopped, dpc, dmaProgram, channel, jammed>>
Jam ==
  /\ ~jammed /\ dpc \in {"space", "final", "wait"}
  /\ jammed' = TRUE
  /\ UNCHANGED <<dpc, dmaProgram, Engine, channel, received>>

DmaStep ==
  \/ SelectFifo \/ ResetStreamer \/ ResetDma \/ SelectDma
  \/ prepare \/ Transfer \/ TransferMultipleTimes
  \/ Enqueue \/ EnqueueFinal \/ HasRoom \/ StartRest \/ WaitDone
  \/ StallTimeout
EngineStep == FetchDescriptor \/ MoveElement
DmaNext ==
  \/ \E n \in Loads, reps \in Repetitions : StartDma(n, reps)
  \/ DmaStep \/ BusyTimeout \/ EndDma
  \/ EngineStep \/ Jam
-----------------------------------------------------------------------------
(***************************************************************************)
(* Properties.                                                             *)
(***************************************************************************)
\* What the streamer is to receive in k rounds.
Rounds(k) == FlattenSeq([r \in 1 .. k |-> Written(job.p, job.n)])
ExpectedDelivery(k) == Append(Rounds(k), Terminator(job.p))

\* transfer_multiple_times: whatever the process before it left in the engine
\* or the buffer, and however the engine overlaps with the program, a streamer
\* brought up for DMA receives the repetitions in order, all of them and the
\* terminator when the call returns.
RepetitionsArrive ==
  /\ dpc \in {"transfer", "enqueue", "space", "final", "start", "wait", "timeout", "returned"}
       => (job.reps > 0 => IsPrefix(received, ExpectedDelivery(job.reps)))
  /\ dpc = "returned" => received = ExpectedDelivery(job.reps)

\* The program waits for room only when the engine runs: it gives up only
\* because the streamer takes nothing, and no descriptor is lost.
NeverWaitsForItself ==
  /\ dpc = "timeout" => ~stopped
  /\ dpc \in {"space", "final"} /\ ~room => ~stopped
  /\ Len(queue) <= DEPTH - 2

\* Both: what was asked for arrives, and the wait for room in the descriptor
\* FIFO is never a wait for the program itself.
DmaDelivers == RepetitionsArrive /\ NeverWaitsForItself
=============================================================================
