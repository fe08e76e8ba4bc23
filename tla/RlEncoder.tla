----------------------------- MODULE RlEncoder -----------------------------
(***************************************************************************)
(* The readback encoder, ip/rl_encoder_if/rl_encoder.sv, and its Avalon    *)
(* wrapper rl_encoder_if.sv: samples of the output bus become runs, which  *)
(* cross a dual-clock FIFO to a reader in clk.  The build without          *)
(* WEIRD_CLOCK: input_clk is qin_clk.                                      *)
(*                                                                         *)
(* A step is a posedge of input_clk or of clk; every interleaving is       *)
(* possible.  The encoder and the pulse counter have a reset synchronizer  *)
(* each, of the same depth and in the same clock: they are taken as one.   *)
(***************************************************************************)
EXTENDS DcFifo, SequencesExt

CONSTANTS
  Values,         \* words the bus may show
  WIDTH_COUNTER,
  LENGTH_RL,      \* fifo_length: 2^9
  MaxSamples      \* bound: valid samples between two resets

ASSUME EncoderAssumption ==
  /\ WIDTH_COUNTER \in Nat \ {0} /\ LENGTH_RL \in Nat \ {0}
  /\ MaxSamples \in Nat
  /\ 2^WIDTH_COUNTER \in Nat /\ 2^WIDTH_COUNTER > 1

MAX_COUNT == 2^WIDTH_COUNTER - 1

VARIABLES
  have_run, run_value, run_count,
  wrreq, j,           \* the registered write to the FIFO
  rl_fifo, overflow,
  counter,            \* the wrapper's pulse counter
  reset_counter,      \* the wrapper's reset register, in clk
  reset_sync,         \* sync_ff1 .. sync_ff3 in input_clk
  sampled,            \* valid samples since the reset (history)
  gaps,               \* numbers of samples after which valid dropped (history)
  delivered           \* runs the reader has taken since the reset (history)

encoderVars == <<have_run, run_value, run_count, wrreq, j>>
inputVars == <<encoderVars, overflow, counter, reset_sync, sampled, gaps>>
rlVars == <<inputVars, rl_fifo, reset_counter, delivered>>

Run(count, value) == [count |-> count, value |-> value]
NoValue == CHOOSE v \in Values : TRUE

EncoderInit ==
  /\ have_run = FALSE /\ run_value = NoValue /\ run_count = 0
  /\ wrreq = FALSE /\ j = Run(0, NoValue)
  /\ rl_fifo = DcCleared /\ overflow = FALSE
  /\ counter = 0
  /\ reset_counter = FALSE /\ reset_sync = <<FALSE, FALSE, FALSE>>
  /\ sampled = <<>> /\ gaps = {} /\ delivered = <<>>
-----------------------------------------------------------------------------
(***************************************************************************)
(* input_clk.                                                              *)
(***************************************************************************)
reset_iclk == reset_sync[3]

\* The encoder's registers are cleared asynchronously: as soon as the last
\* flop of the synchronizer rises, and at every edge that still sees it.
EncoderCleared == reset_sync[2] \/ reset_iclk

extends_run(data) == have_run /\ data = run_value /\ run_count # MAX_COUNT

StartRun(data) ==
  have_run' = TRUE /\ run_value' = data /\ run_count' = 1

Emit == wrreq' = TRUE /\ j' = Run(run_count, run_value)
EmitNothing == wrreq' = FALSE /\ UNCHANGED j

SampleEvent(data) ==
  IF extends_run(data)
    THEN /\ run_count' = (run_count + 1) % 2^WIDTH_COUNTER
         /\ UNCHANGED <<have_run, run_value>>
         /\ EmitNothing
    ELSE /\ StartRun(data)
         /\ IF have_run THEN Emit ELSE EmitNothing

\* valid is low: the run that was open is written.
\* Mutant: it stays open, and a later burst continues it.
MutNoFlush == EmitNothing /\ UNCHANGED <<have_run, run_value, run_count>>
FlushEvent ==
  /\ IF have_run THEN Emit ELSE EmitNothing
  /\ have_run' = FALSE
  /\ UNCHANGED <<run_value, run_count>>

EncoderReset ==
  /\ have_run' = FALSE /\ run_value' = NoValue /\ run_count' = 0
  /\ wrreq' = FALSE /\ j' = Run(0, NoValue)

\* The overflow latch.  Mutant: it shows the last cycle only.
MutNotLatched(full) == ~reset_iclk /\ full /\ wrreq
overflow_next(full) == ~reset_iclk /\ (overflow \/ (full /\ wrreq))

\* While the FIFO is cleared nothing is written, and its full flag is not
\* specified.
FifoWriteTick ==
  LET full == IF reset_counter THEN BOOLEAN
                               ELSE {wrfull(rl_fifo, LENGTH_RL)}
  IN  /\ rl_fifo' \in IF reset_counter
                        THEN {rl_fifo}
                        ELSE DcWrite(rl_fifo, LENGTH_RL, wrreq, j)
      /\ \E f \in full : overflow' = overflow_next(f)

\* One posedge of input_clk, with qin_valid = valid and qin = data.
InputTick(valid, data) ==
  /\ valid => Len(sampled) < MaxSamples
  /\ IF EncoderCleared THEN EncoderReset
                       ELSE IF valid THEN SampleEvent(data) ELSE FlushEvent
  /\ FifoWriteTick
  /\ counter' = IF reset_iclk THEN 0
                ELSE IF valid THEN (counter + 1) % 2^WIDTH_COUNTER ELSE counter
  /\ reset_sync' = <<reset_counter, reset_sync[1], reset_sync[2]>>
  /\ sampled' = IF EncoderCleared THEN <<>>
                ELSE IF valid THEN Append(sampled, data) ELSE sampled
  /\ gaps' = IF EncoderCleared THEN {}
             ELSE IF valid THEN gaps ELSE gaps \cup {Len(sampled)}
  /\ UNCHANGED <<reset_counter, delivered>>
-----------------------------------------------------------------------------
(***************************************************************************)
(* clk.                                                                    *)
(***************************************************************************)
\* One posedge of clk: the reader on Avalon-ST takes the run at the head.
ReadTick(aso_ready) ==
  LET rdreq == ~rdempty(rl_fifo) /\ aso_ready
  IN  /\ rl_fifo' \in DcRead(rl_fifo, rdreq)
      /\ delivered' = IF rdreq THEN Append(delivered, Head(rl_fifo.q))
                               ELSE delivered
      /\ UNCHANGED <<inputVars, reset_counter>>

\* readback::reset: the register is set and the FIFO cleared at once, ...
AssertReset ==
  /\ ~reset_counter
  /\ reset_counter' = TRUE
  /\ rl_fifo' = DcCleared
  /\ delivered' = <<>>
  /\ UNCHANGED inputVars

\* ... and after five periods, more than the synchronizer is deep, cleared.
ReleaseReset ==
  /\ reset_counter /\ reset_sync = <<TRUE, TRUE, TRUE>>
  /\ reset_counter' = FALSE
  /\ UNCHANGED <<inputVars, rl_fifo, delivered>>

EncoderNext ==
  \/ \E valid \in BOOLEAN, data \in Values : InputTick(valid, data)
  \/ \E aso_ready \in BOOLEAN : ReadTick(aso_ready)
  \/ AssertReset
  \/ ReleaseReset

EncoderSpec == EncoderInit /\ [][EncoderNext]_rlVars

\* Both clocks run, the FIFO's synchronizers keep up again and again, and the
\* reader takes what it is offered.  The source falls silent at the bound.
EncoderFairSpec ==
  /\ EncoderSpec
  /\ WF_rlVars(InputTick(FALSE, NoValue))
  /\ WF_rlVars(ReadTick(TRUE) /\ DcCaughtUp(rl_fifo'))
-----------------------------------------------------------------------------
\* Every run there is: taken, in the FIFO, in the write register, open.
AllRuns ==
  delivered \o rl_fifo.q \o (IF wrreq THEN <<j>> ELSE <<>>)
    \o (IF have_run THEN <<Run(run_count, run_value)>> ELSE <<>>)

\* The samples a list of runs stands for.
Decode(runs) ==
  FlattenSeq([i \in DOMAIN runs |-> [k \in 1 .. runs[i].count |->
                                       runs[i].value]])

Running == ~reset_counter /\ ~reset_iclk

\* "equal consecutive samples are merged": two neighbouring runs of one value
\* are there only because the counter was at its limit or valid dropped
\* between them.
RunsMaximal ==
  Running /\ ~overflow =>
    \A i \in 1 .. (Len(AllRuns) - 1) :
      AllRuns[i].value = AllRuns[i + 1].value =>
        \/ AllRuns[i].count = MAX_COUNT
        \/ Len(Decode(SubSeq(AllRuns, 1, i))) \in gaps

\* docs/docs/readback.md: "overflow latches high if software is not draining
\* the encoded FIFO fast enough".  Overflow and loss are the same thing: while
\* the flag is low the runs decode to exactly the samples seen since the
\* reset, and when it is high they never do again.  The pulse counter counts
\* the same samples, although its reset acts an edge later, and the runs are
\* as long as they can be.
OverflowIffLost ==
  /\ Running => /\ overflow <=> Decode(AllRuns) # sampled
                /\ counter = Len(sampled) % 2^WIDTH_COUNTER
  /\ RunsMaximal

\* "when validity drops, the pending run is flushed so the final observed
\* state is not lost": once the source is silent, every sample reaches the
\* reader, unless the overflow flag is set or a reset throws them away.
EverySampleArrives ==
  <>[](Running) => <>[](overflow \/ Decode(delivered) = sampled)
=============================================================================
