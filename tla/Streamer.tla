------------------------------ MODULE Streamer ------------------------------
(***************************************************************************)
(* A whole streamer, ip/streamer/streamer.sv: input FIFO, run-length       *)
(* decoder, output FIFO and trigger chain, in their two clock domains.     *)
(*                                                                         *)
(* A step is a posedge of clk or of streamer_clk; the clocks are unrelated *)
(* and every interleaving is possible.  Signals that the wrapper brings    *)
(* into streamer_clk (gate, trigger inputs, stop) are inputs of a          *)
(* streamer_clk step.  The source sends a program element by element, and  *)
(* starts on another program after a reset.                                *)
(***************************************************************************)
EXTENDS InputFifo, RlDecoder, OutputFifo, ChainTrigger

CONSTANTS
  Programs,        \* the finite programs a source may send
  InitialValues,   \* values of the INIT_VAL register
  GateIn, EnableIn, ForceIn, TrigResetIn, StopIn, StopOnErrorIn,
                   \* values the streamer_clk inputs may take, of BOOLEAN
  MayReset,        \* whether software may reset the streamer
  LoadBeforeEnable \* software enables the trigger only when it is loaded

ASSUME ProgramsAssumption == Programs \subseteq Seq(Element)
\* A program stores to a slot before it replays it, and no replay is without
\* end: what a replay without end plays is not a finite list of words.
ASSUME StoredAssumption == \A p \in Programs : StoresBeforeReplays(p)
ASSUME FiniteAssumption ==
  \A p \in Programs : \A k \in DOMAIN p : Replays(p[k]) => p[k].cnt # 0
ASSUME InitialAssumption == InitialValues \subseteq Word
ASSUME InputsAssumption ==
  /\ GateIn \subseteq BOOLEAN /\ EnableIn \subseteq BOOLEAN
  /\ ForceIn \subseteq BOOLEAN /\ TrigResetIn \subseteq BOOLEAN
  /\ StopIn \subseteq BOOLEAN /\ StopOnErrorIn \subseteq BOOLEAN
  /\ MayReset \in BOOLEAN /\ LoadBeforeEnable \in BOOLEAN

VARIABLES
  reset,           \* the reset register in clk
  rst_sync,        \* sync_bit_3stage: sync_ff1, sync_ff2, sync_ff3
  settled,         \* software's wait after the last reset is over
  trigger_latch, stream_in_progress,
  initial_value,
  prog, pc,        \* the program, and the index of its next element to send
  played,          \* words read from the output FIFO since the reset (history)
  stages_loaded    \* trigger stages popped since the reset (history)

clkVars == <<inputFifoVars, decoderVars, outWriteVars, pc>>
streamerClkVars == <<outReadVars, trigReadVars, rst_sync, settled,
                     trigger_latch, stream_in_progress, played, stages_loaded>>
vars == <<clkVars, streamerClkVars, out_fifo, trig_fifo, reset,
          initial_value, prog>>

Init ==
  /\ InputFifoInit
  /\ initial_value \in InitialValues
  /\ DecoderInit(initial_value)
  /\ OutputFifoInit
  /\ ChainInit
  /\ reset = FALSE
  /\ rst_sync = <<FALSE, FALSE, FALSE>>
  /\ settled = TRUE
  /\ trigger_latch = FALSE
  /\ stream_in_progress = FALSE
  /\ prog \in Programs
  /\ pc = 1
  /\ played = <<>>
  /\ stages_loaded = 0
-----------------------------------------------------------------------------
(***************************************************************************)
(* The clk domain.                                                         *)
(***************************************************************************)
in_valid_data == ~empty_i /\ ~Is(q_i, "TRIGGER")
in_valid_chain == ~empty_i /\ Is(q_i, "TRIGGER")
rdreq_chain_trigger == in_valid_chain /\ ~trigger_fifo_full

\* One posedge of clk, with input_valid = valid, input_data = data,
\* initial_reload = reload and initial_value = init.
ClkEdge(rst, valid, data, reload, init) ==
  LET rdreq_rl == load_fire(rst, reload, in_valid_data, out_almost_full)
  IN
  /\ InputFifoTick(rst, data, valid, rdreq_rl \/ rdreq_chain_trigger)
  /\ DecoderTick(rst, reload, in_valid_data, q_i, init, out_almost_full)
  /\ OutputWriteTick(rst, out_wrreq,
                     [data |-> out_data, control |-> out_control])
  /\ TrigWriteTick(rst, rdreq_chain_trigger, StageOf(q_i))

Offering == settled /\ pc <= Len(prog)

ClkTick(valid) ==
  /\ valid => Offering
  /\ ClkEdge(reset, valid, IF Offering THEN prog[pc] ELSE Blank, FALSE,
             initial_value)
  /\ pc' = IF valid /\ ~full THEN pc + 1 ELSE pc
  /\ UNCHANGED <<reset, initial_value, prog, streamerClkVars>>

\* Software changes the initial value before it sends anything: the wrapper
\* then pulses initial_reload.
ReloadInitial(init) ==
  /\ settled /\ pc = 1 /\ init # initial_value
  /\ initial_value' = init
  /\ ClkEdge(FALSE, FALSE, Blank, TRUE, init)
  /\ UNCHANGED <<pc, reset, prog, streamerClkVars>>

\* The reset register is set.  The asynchronous clear of the two dcfifos
\* acts at once, the rest of clk at the next edge.
AssertReset ==
  /\ MayReset /\ ~reset
  /\ reset' = TRUE
  /\ settled' = FALSE
  /\ out_fifo' = DcCleared
  /\ trig_fifo' = DcCleared
  /\ UNCHANGED <<clkVars, outReadVars, trigReadVars, rst_sync, trigger_latch,
                 stream_in_progress, played, stages_loaded, initial_value,
                 prog>>

\* reset_for_active_clock sleeps for two periods of streamer_clk, so at least
\* two of its edges see the reset.
HeldLongEnough == rst_sync[1] /\ rst_sync[2]

\* The reset register is cleared, at a clk edge that still sees the reset.
\* It may still have to act in streamer_clk, behind the synchronizer.
ReleaseReset ==
  /\ reset /\ HeldLongEnough
  /\ ClkEdge(TRUE, FALSE, Blank, FALSE, initial_value)
  /\ reset' = FALSE
  /\ prog' \in Programs
  /\ pc' = 1
  /\ played' = <<>>
  /\ stages_loaded' = 0
  /\ UNCHANGED <<initial_value, outReadVars, trigReadVars, rst_sync, settled,
                 trigger_latch, stream_in_progress>>
-----------------------------------------------------------------------------
(***************************************************************************)
(* The streamer_clk domain.                                                *)
(***************************************************************************)
streamer_rst == rst_sync[3]
retrig == retrig_requested /\ trigger_o
stream_active == (stream_in_progress \/ trigger_o) /\ ~terminal_seen
qout == IF trigger_latch THEN qout_fifo ELSE initial_value

trigger_activated(stop, stop_on_error) ==
  trigger_o /\ ~terminal_seen /\ ~(stop_on_error /\ buffer_error) /\ ~stop

\* trigger_latch after this edge.  Mutants: it survives a reset; it shows a
\* word for one cycle only.
MutLatchNotHeld(rdreq) == qout_written(streamer_rst, rdreq)
MutLatchSurvives(rdreq) == trigger_latch \/ qout_written(streamer_rst, rdreq)
latches(rdreq) ==
  ~streamer_rst /\ (trigger_latch \/ qout_written(streamer_rst, rdreq))

\* Software waits four periods of streamer_clk after a reset before it uses
\* the streamer: the first three take the reset through the synchronizer, and
\* at the fourth the domain runs again.
WaitedAfterReset == rst_sync = <<FALSE, FALSE, FALSE>>

\* One posedge of streamer_clk.
StreamerTick(gate, in, enable, force, trig_reset, stop, stop_on_error) ==
  LET rdreq == trigger_activated(stop, stop_on_error) /\ gate
  IN
  /\ OutputReadTick(streamer_rst, rdreq)
  /\ TrigReadTick(streamer_rst, in, enable, force, trig_reset, retrig)
  /\ rst_sync' = <<reset, rst_sync[1], rst_sync[2]>>
  /\ settled' = (settled \/ (~reset /\ WaitedAfterReset))
  /\ trigger_latch' = latches(rdreq)
  /\ stream_in_progress' = (/\ ~streamer_rst /\ ~terminal_seen
                            /\ stream_in_progress \/ trigger_o)
  /\ played' = IF read_fire(rdreq) /\ ~streamer_rst THEN Append(played, qc)
                                                    ELSE played
  /\ stages_loaded' = IF trig_rdreq(streamer_rst, retrig) /\ ~fifo_empty
                        THEN stages_loaded + 1 ELSE stages_loaded
  /\ UNCHANGED <<clkVars, reset, initial_value, prog>>

\* Every stage of the program has reached the chain.
StagesArrived == stages_loaded + trig_fifo.vis = Len(Stages(prog))

Run(gate, in, enable, force, trig_reset, stop, stop_on_error) ==
  /\ enable /\ LoadBeforeEnable => StagesArrived
  /\ StreamerTick(gate, in, enable, force, trig_reset, stop, stop_on_error)

RunAny ==
  \E gate \in GateIn, in \in SUBSET TriggerInputs, enable \in EnableIn,
     force \in ForceIn, trig_reset \in TrigResetIn, stop \in StopIn,
     stop_on_error \in StopOnErrorIn :
       Run(gate, in, enable, force, trig_reset, stop, stop_on_error)

Next ==
  \/ \E valid \in BOOLEAN : ClkTick(valid)
  \/ \E init \in InitialValues : ReloadInitial(init)
  \/ AssertReset
  \/ ReleaseReset
  \/ RunAny

Spec == Init /\ [][Next]_vars

\* Fairness: both clocks run; the source sends what it has; the synchronizers
\* of the dcfifos keep up again and again; and again and again the gate is
\* open with the trigger enabled and its inputs showing the awaited pattern.
\* A reset does not last for ever.
Willing ==
  /\ Run(TRUE, stage.pattern, StagesArrived \/ ~LoadBeforeEnable, FALSE,
         FALSE, FALSE, FALSE)
  /\ DcCaughtUp(out_fifo') /\ DcCaughtUp(trig_fifo')

FairSpec ==
  /\ Spec
  /\ WF_vars(ClkTick(TRUE)) /\ WF_vars(ClkTick(FALSE))
  /\ WF_vars(Willing)
  /\ WF_vars(ReleaseReset)
-----------------------------------------------------------------------------
TypeOK ==
  /\ InputFifoTypeOK
  /\ DecoderTypeOK
  /\ OutputFifoTypeOK
  /\ ChainTypeOK
  /\ reset \in BOOLEAN /\ settled \in BOOLEAN
  /\ rst_sync \in BOOLEAN \X BOOLEAN \X BOOLEAN
  /\ trigger_latch \in BOOLEAN /\ stream_in_progress \in BOOLEAN
  /\ initial_value \in InitialValues
  /\ prog \in Programs /\ pc \in 1 .. (Len(prog) + 1)
  /\ played \in Seq(OutWord) /\ stages_loaded \in Nat

\* The words the present program stands for.
Expected ==
  UpToTerminator(Samples(Unrolled(prog, [p \in Positions |-> Blank], 0),
                         initial_value))

\* The statistics of the output FIFO agree across the two clock domains once
\* a reset has reached both.
OutputCounters ==
  settled =>
    (out_ctr_in - out_ctr_out) % 2^WIDTH_STAT
      = Len(out_fifo.q) % 2^WIDTH_STAT

\* End to end: what leaves the streamer is what the program means, word by
\* word, whatever the clocks, the gate, the trigger, the stops and the resets
\* do.  No word is lost, repeated, reordered or left over from before a reset,
\* and the statistics of the output FIFO account for them.
PlayedAsProgrammed ==
  /\ ~reset => IsPrefix(played, Expected)
  /\ OutputCounters

\* output_fifo.sv: done means "the terminating element was consumed without
\* any prior buffer underflow"; an end without done is always explained by
\* buffer_error.
DoneMeansComplete ==
  settled => /\ done => played = Expected /\ ~buffer_error
             /\ terminal_seen /\ ~done => buffer_error

\* The decoder's writes that are still on their way when almost_full rises
\* find room: the output FIFO never drops a word.
OutputNeverDrops ==
  out_wrreq /\ ~reset => ~wrfull(out_fifo, LENGTH_OUT)

\* The output bus shows the initial value until a word has been played, and
\* from then on the last data or final word, through gates, stops, retriggers
\* and underruns.
ShownWords ==
  {i \in DOMAIN played : Is(played[i], "TERMINATE") \/ ~Is(played[i], "RETRIG")}
QoutShowsPlayed ==
  settled =>
    qout = IF ShownWords = {} THEN initial_value ELSE played[Max(ShownWords)].data

\* Trigger stages are grouped into subsequences that end at a final stage.
\* The k-th one belongs to the k-th segment, the words up to the k-th
\* retrigger element.
SubsequenceOf(n) ==
  1 + Cardinality({m \in 1 .. (n - 1) : Is(Stages(prog)[m], "TRIGGER_FINAL")})
Segment == 1 + Len(SelectSeq(played, LAMBDA w : Is(w, "RETRIG")))

\* docs/docs/streamer.md on the retrigger element: the active condition is
\* "Discarded. The just-satisfied trigger condition or subsequence is
\* complete" and "the next queued trigger condition or subsequence is loaded".
\* So a chain that waits, waits on a stage of the segment's own subsequence.
ArmedForSegment ==
  armed /\ settled /\ stages_loaded > 0 =>
    SubsequenceOf(stages_loaded) = Segment

\* A segment starts playing only after the last stage of its own subsequence
\* has matched: no stage is skipped, none is used twice, and the chain waits
\* on no other segment's stage.
SegmentTriggered ==
  /\ ArmedForSegment
  /\ trigger_o /\ ~retrig_requested /\ settled =>
       /\ SubsequenceOf(stages_loaded) = Segment
       /\ Is(Stages(prog)[stages_loaded], "TRIGGER_FINAL")

\* Every program is played to its end unless resets keep coming: no
\* back-pressure, trigger or FIFO ordering can block it for ever.
Completion == <>[](~reset) => <>[](terminal_seen)
=============================================================================
