--------------------------- MODULE StreamerProofs ---------------------------
(***************************************************************************)
(* The whole streamer, for every program, width, FIFO depth and            *)
(* interleaving of the two clocks: it is type correct, its input FIFOs     *)
(* never overflow, the output FIFO never drops a word, and what it plays   *)
(* is what the program means.                                              *)
(*                                                                         *)
(* That no word is dropped is about the slack above almost_full.           *)
(* almost_full is a register computed from last cycle's fill level and the *)
(* decoder's write request is a register computed from it, so two more     *)
(* words may arrive after the level is passed: while almost_full is low    *)
(* the level is at most one past the threshold, and at most two when a     *)
(* write is pending.                                                       *)
(*                                                                         *)
(* What is played is followed from the program to the pins: FIFO 1, the    *)
(* preprocessor and FIFO 2 deliver the elements the program unrolls to     *)
(* (Delivers of InputFifoProofs), the decoder is on its way to the samples *)
(* of the elements it has taken (DecodesAt), and the words played, in the  *)
(* output FIFO and on their way to it are the samples it has emitted       *)
(* (Flow).  The registers of the read side tell where that stands          *)
(* (ReadInv), except while a reset is still in the synchronizer, when      *)
(* nothing is on its way.                                                  *)
(***************************************************************************)
EXTENDS StInterface, InputFifoProofs

OutSlackInv ==
  /\ ~out_almost_full => wrusedw(out_fifo) <= fifo_threshold + 1
  /\ out_wrreq => wrusedw(out_fifo) <= fifo_threshold + 2

IInv == TypeOK /\ InputFifoInv /\ OutSlackInv
-----------------------------------------------------------------------------
(***************************************************************************)
(* The dual-clock FIFO.                                                    *)
(***************************************************************************)
\* A cleared FIFO is well typed and looks empty to the write side.
LEMMA DcClearedFacts ==
  ASSUME NEW W, NEW size \in Nat
  PROVE  DcTypeOK(DcCleared, W, size) /\ wrusedw(DcCleared) = 0
BY DEF DcTypeOK, DcCleared, wrusedw

\* A write edge adds at most one word, and only on request.
LEMMA DcWriteFacts ==
  ASSUME NEW W, NEW size \in Nat, NEW f, DcTypeOK(f, W, size),
         NEW wr \in BOOLEAN, NEW w, wr => w \in W,
         NEW g \in DcWrite(f, size, wr, w)
  PROVE  /\ DcTypeOK(g, W, size)
         /\ wrusedw(g) <= wrusedw(f) + 1
         /\ ~wr => wrusedw(g) <= wrusedw(f)
<1>1. f.q \in Seq(W) /\ Len(f.q) \in Nat /\ f.vis \in Nat /\ f.freed \in Nat
      /\ Len(f.q) <= size /\ f.vis <= Len(f.q)
  BY DEF DcTypeOK
<1> DEFINE q2 == IF wr /\ ~wrfull(f, size) THEN Append(f.q, w) ELSE f.q
<1>2. PICK n \in 0 .. f.freed : g = [q |-> q2, vis |-> f.vis, freed |-> n]
  BY DEF DcWrite
<1>3. /\ q2 \in Seq(W) /\ Len(q2) <= size
      /\ Len(q2) \in Len(f.q) .. (Len(f.q) + 1)
      /\ ~wr => Len(q2) = Len(f.q)
  BY <1>1 DEF wrfull, wrusedw
<1> HIDE DEF q2
<1>4. g.q = q2 /\ g.vis = f.vis /\ g.freed = n /\ n \in Nat /\ n <= f.freed
  BY <1>1, <1>2
<1>5. DcTypeOK(g, W, size)
  BY <1>1, <1>2, <1>3, <1>4 DEF DcTypeOK
<1> QED
  BY <1>1, <1>3, <1>4, <1>5 DEF wrusedw

\* A read edge does not change what the write side believes is in the FIFO.
LEMMA DcReadFacts ==
  ASSUME NEW W, NEW size \in Nat, NEW f, DcTypeOK(f, W, size),
         NEW rd \in BOOLEAN, NEW g \in DcRead(f, rd)
  PROVE  DcTypeOK(g, W, size) /\ wrusedw(g) = wrusedw(f)
<1>1. f.q \in Seq(W) /\ Len(f.q) \in Nat /\ f.vis \in Nat /\ f.freed \in Nat
      /\ Len(f.q) <= size /\ f.vis <= Len(f.q)
      /\ f \in [q : Seq(W), vis : Nat, freed : Nat]
  BY DEF DcTypeOK
<1>2. CASE rd /\ ~rdempty(f)
  <2>1. PICK n \in (f.vis - 1) .. (Len(f.q) - 1) :
               g = [q |-> Tail(f.q), vis |-> n, freed |-> f.freed + 1]
    BY <1>2 DEF DcRead
  <2>2. f.vis >= 1 /\ Tail(f.q) \in Seq(W) /\ Len(Tail(f.q)) = Len(f.q) - 1
    BY <1>1, <1>2 DEF rdempty
  <2>3. /\ g.q = Tail(f.q) /\ g.vis = n /\ g.freed = f.freed + 1
        /\ n \in Nat /\ n <= Len(f.q) - 1
    BY <1>1, <2>1, <2>2
  <2>4. g \in [q : Seq(W), vis : Nat, freed : Nat]
    BY <1>1, <2>1, <2>2, <2>3
  <2>5. Len(g.q) <= size /\ g.vis <= Len(g.q)
    BY <1>1, <2>2, <2>3
  <2>6. wrusedw(g) = wrusedw(f)
    BY <1>1, <2>2, <2>3 DEF wrusedw
  <2> QED
    BY <2>4, <2>5, <2>6 DEF DcTypeOK
<1>3. CASE ~(rd /\ ~rdempty(f))
  <2>1. PICK n \in f.vis .. Len(f.q) : g = [f EXCEPT !.vis = n]
    BY <1>3 DEF DcRead
  <2>2. /\ g.q = f.q /\ g.vis = n /\ g.freed = f.freed
        /\ n \in Nat /\ n <= Len(f.q)
        /\ g \in [q : Seq(W), vis : Nat, freed : Nat]
    BY <1>1, <2>1
  <2> QED
    BY <1>1, <2>2 DEF DcTypeOK, wrusedw
<1> QED
  BY <1>2, <1>3

\* The word at the head of a FIFO that does not look empty.
LEMMA DcHead ==
  ASSUME NEW W, NEW size \in Nat, NEW f, DcTypeOK(f, W, size), ~rdempty(f)
  PROVE  Head(f.q) \in W
BY DEF DcTypeOK, rdempty
-----------------------------------------------------------------------------
(***************************************************************************)
(* The decoder.                                                            *)
(***************************************************************************)
\* The pseudorandom generator yields words.
LEMMA RndIsWord ==
  ASSUME NEW k \in Nat
  PROVE  Rnd(k) \in Word
<1> DEFINE L == Len(PrngOrbit)
<1>1. L \in Nat /\ L > 0 /\ PrngOrbit \in Seq(Word)
  BY PrngAssumption
<1> HIDE DEF L
<1>2. k % L \in 0 .. (L - 1)
  BY <1>1
<1>3. 1 + (k % L) \in 1 .. L
  BY <1>1, <1>2
<1> QED
  BY <1>1, <1>3 DEF Rnd, L

\* apply_op yields words.
LEMMA OpIsWord ==
  ASSUME NEW p \in Word, NEW d \in Word, NEW m \in BitOps
  PROVE  apply_op(p, d, m) \in Word
BY DEF apply_op, BitOps, Word, SymDiff

\* The decoder's registers keep their types.
LEMMA DecoderStep ==
  ASSUME DecoderTypeOK, NEW rst \in BOOLEAN, NEW reload \in BOOLEAN,
         NEW in_valid \in BOOLEAN, NEW e \in Element, NEW init \in Word,
         NEW af \in BOOLEAN,
         DecoderTick(rst, reload, in_valid, e, init, af)
  PROVE  DecoderTypeOK' /\ (out_wrreq' => ~af /\ ~rst)
<1>1. /\ prev_value \in Word /\ curr_value \in Word /\ out_data \in Word
      /\ curr_cnt \in Nat /\ prng_k \in Nat
      /\ curr_control \in SUBSET ControlBits
      /\ out_control \in SUBSET ControlBits
  BY DEF DecoderTypeOK
<1>2. prng_k' \in Nat
  <2> DEFINE L == Len(PrngOrbit)
  <2>1. L \in Nat /\ L > 0
    BY PrngAssumption
  <2> HIDE DEF L
  <2>2. (prng_k + 1) % L \in Nat
    BY <1>1, <2>1
  <2>3. prng_k' \in {0, (prng_k + 1) % L, prng_k}
    BY DEF DecoderTick, L
  <2> QED
    BY <1>1, <2>2, <2>3
<1>3. CASE rst \/ reload
  <2>1. DecoderReload(init)
    BY <1>3 DEF DecoderTick
  <2>2. {} \in Word /\ {} \in SUBSET ControlBits
    BY DEF Word
  <2>3. out_wrreq' = FALSE
    BY <2>1 DEF DecoderReload
  <2>4. curr_cnt' \in Nat
    BY <2>1 DEF DecoderReload
  <2> QED
    BY <1>2, <2>1, <2>2, <2>3, <2>4 DEF DecoderReload, DecoderTypeOK
<1>4. CASE ~(rst \/ reload)
  <2>1. DecoderRun(in_valid, e, af)
    BY <1>4 DEF DecoderTick
  <2>2. emit_value \in Word
    BY <1>1, RndIsWord DEF emit_value
  <2>3. e.cnt \in Nat /\ e.val \in Word /\ e.mode \in BitOps
        /\ e.control \in SUBSET ControlBits
    BY DEF Element
  <2>4. apply_op(load_base(af), e.val, e.mode) \in Word
    BY <1>1, <2>2, <2>3, OpIsWord DEF load_base
  <2>5. out_wrreq' = can_emit(af) /\ can_emit(af) \in BOOLEAN
    BY <2>1 DEF DecoderRun, can_emit
  <2>6. /\ prev_value' \in Word /\ curr_value' \in Word /\ out_data' \in Word
        /\ curr_control' \in SUBSET ControlBits
        /\ out_control' \in SUBSET ControlBits
    BY <1>1, <2>1, <2>2, <2>3, <2>4 DEF DecoderRun
  <2>7. curr_cnt' \in Nat
    <3>1. \/ curr_cnt' = e.cnt
          \/ curr_cnt' = curr_cnt - 1 /\ curr_cnt # 0
          \/ curr_cnt' = curr_cnt
      BY <2>1 DEF DecoderRun, can_emit
    <3> QED
      BY <1>1, <2>3, <3>1
  <2>8. out_wrreq' => ~af
    BY <2>5 DEF can_emit
  <2> QED
    BY <1>2, <1>4, <2>5, <2>6, <2>7, <2>8 DEF DecoderTypeOK
<1> QED
  BY <1>3, <1>4
-----------------------------------------------------------------------------
(***************************************************************************)
(* The output FIFO.                                                        *)
(***************************************************************************)
\* A posedge of wrclk keeps the output FIFO's types, and the slack above
\* almost_full covers the write still in flight.
LEMMA OutWriteStep ==
  ASSUME OutputFifoTypeOK, OutSlackInv, NEW rst \in BOOLEAN,
         out_wrreq \in BOOLEAN, NEW w \in OutWord,
         OutputWriteTick(rst, out_wrreq, w),
         out_wrreq' => ~out_almost_full /\ ~rst, out_wrreq' \in BOOLEAN
  PROVE  /\ DcTypeOK(out_fifo, OutWord, LENGTH_OUT)'
         /\ out_almost_full' \in BOOLEAN /\ out_ctr_in' \in Stat
         /\ OutSlackInv'
<1>1. DcTypeOK(out_fifo, OutWord, LENGTH_OUT) /\ out_ctr_in \in Stat
  BY DEF OutputFifoTypeOK
<1>2. /\ LENGTH_OUT \in Nat /\ fifo_threshold \in Nat
      /\ fifo_threshold + 3 <= LENGTH_OUT
  BY OutputFifoAssumption DEF fifo_threshold
<1>3. wrusedw(out_fifo) \in Nat
  BY <1>1 DEF DcTypeOK, wrusedw
<1>4. out_almost_full' \in BOOLEAN
  BY DEF OutputWriteTick
<1>5. out_ctr_in' \in Stat
  <2>1. 0 \in Stat
    BY StatAssumption DEF Stat
  <2> QED
    BY <1>1, <2>1, BumpType DEF OutputWriteTick
<1>6. CASE rst
  <2>1. out_fifo' = DcCleared
    BY <1>6 DEF OutputWriteTick
  <2>2. DcTypeOK(out_fifo', OutWord, LENGTH_OUT) /\ wrusedw(out_fifo') = 0
    BY <1>2, <2>1, DcClearedFacts
  <2>3. 0 <= fifo_threshold + 1 /\ 0 <= fifo_threshold + 2
    BY <1>2
  <2>4. OutSlackInv'
    BY <2>2, <2>3 DEF OutSlackInv, fifo_threshold, wrusedw
  <2> QED
    BY <1>4, <1>5, <2>2, <2>4 DEF DcTypeOK
<1>7. CASE ~rst
  <2>1. out_fifo' \in DcWrite(out_fifo, LENGTH_OUT, out_wrreq, w)
    BY <1>7 DEF OutputWriteTick
  <2>2. /\ DcTypeOK(out_fifo', OutWord, LENGTH_OUT)
        /\ wrusedw(out_fifo') <= wrusedw(out_fifo) + 1
        /\ ~out_wrreq => wrusedw(out_fifo') <= wrusedw(out_fifo)
    BY <1>1, <1>2, <2>1, DcWriteFacts
  <2>3. wrusedw(out_fifo') \in Nat
    BY <2>2 DEF DcTypeOK, wrusedw
  <2>4. ~out_almost_full' => ~(wrusedw(out_fifo) > fifo_threshold)
    BY <1>7 DEF OutputWriteTick
  <2>5. ~out_almost_full' => wrusedw(out_fifo') <= fifo_threshold + 1
    BY <1>2, <1>3, <2>2, <2>3, <2>4
  <2>6. out_wrreq' => wrusedw(out_fifo') <= fifo_threshold + 2
    <3>1. out_wrreq' => wrusedw(out_fifo) <= fifo_threshold + 1
      BY DEF OutSlackInv
    <3> QED
      BY <1>2, <1>3, <2>2, <2>3, <3>1
  <2>7. OutSlackInv'
    BY <2>5, <2>6 DEF OutSlackInv, fifo_threshold, wrusedw
  <2> QED
    BY <1>4, <1>5, <2>2, <2>7 DEF DcTypeOK
<1> QED
  BY <1>6, <1>7

\* A posedge of rdclk keeps the output FIFO's types and the slack.
LEMMA OutReadStep ==
  ASSUME OutputFifoTypeOK, NEW rdrst \in BOOLEAN, NEW rdreq \in BOOLEAN,
         OutputReadTick(rdrst, rdreq), UNCHANGED outWriteVars
  PROVE  /\ OutputFifoTypeOK' /\ wrusedw(out_fifo') = wrusedw(out_fifo)
         /\ qc \in OutWord
<1>1. /\ DcTypeOK(out_fifo, OutWord, LENGTH_OUT) /\ LENGTH_OUT \in Nat
      /\ qout_fifo \in Word /\ out_ctr_out \in Stat
  BY OutputFifoAssumption DEF OutputFifoTypeOK
<1>2. rdreq_nrr(rdreq) \in BOOLEAN
  BY DEF rdreq_nrr
<1>3. DcTypeOK(out_fifo', OutWord, LENGTH_OUT)
      /\ wrusedw(out_fifo') = wrusedw(out_fifo)
  BY <1>1, <1>2, DcReadFacts DEF OutputReadTick
<1>4. qc \in OutWord
  <2>1. [data |-> {}, control |-> {}] \in OutWord
    BY DEF OutWord, Word
  <2> QED
    BY <1>1, <2>1, DcHead DEF qc, out_empty
<1>5. {} \in Word /\ 0 \in Stat
  BY StatAssumption DEF Word, Stat
<1>6. /\ qout_fifo' \in Word /\ out_ctr_out' \in Stat
  <2>1. CASE rdrst
    BY <1>5, <2>1 DEF OutputReadTick, ReadReset
  <2>2. CASE ~rdrst
    <3>1. ReadRun(rdreq)
      BY <2>2 DEF OutputReadTick
    <3>2. counts_out(rdreq) \in BOOLEAN /\ qc.data \in Word
      BY <1>4 DEF counts_out, read_fire, OutWord
    <3> QED
      BY <1>1, <3>1, <3>2, BumpType DEF ReadRun
  <2> QED
    BY <2>1, <2>2
<1>7. /\ qout_valid' \in BOOLEAN /\ strobe_enable' \in BOOLEAN
      /\ done' \in BOOLEAN /\ terminal_seen' \in BOOLEAN
      /\ buffer_error' \in BOOLEAN /\ retrig_requested' \in BOOLEAN
      /\ stream_started' \in BOOLEAN
  <2>1. CASE rdrst
    BY <2>1 DEF OutputReadTick, ReadReset
  <2>2. CASE ~rdrst
    <3>1. ReadRun(rdreq)
      BY <2>2 DEF OutputReadTick
    <3> QED
      BY <3>1 DEF ReadRun, requests_retrig
  <2> QED
    BY <2>1, <2>2
<1>8. out_almost_full' \in BOOLEAN /\ out_ctr_in' \in Stat
  BY DEF outWriteVars, OutputFifoTypeOK
<1> QED
  BY <1>3, <1>4, <1>6, <1>7, <1>8 DEF OutputFifoTypeOK, DcTypeOK
-----------------------------------------------------------------------------
(***************************************************************************)
(* The trigger chain.                                                      *)
(***************************************************************************)
\* A trigger element carries a well-formed stage.
LEMMA StageIsStage ==
  ASSUME NEW e \in Element
  PROVE  StageOf(e) \in Stage
BY DEF StageOf, Stage, PatternOf, MaskOf, Is

\* Queueing a stage keeps the trigger chain's types.
LEMMA TrigWriteStep ==
  ASSUME ChainTypeOK, NEW rst \in BOOLEAN, NEW wr \in BOOLEAN,
         NEW st \in Stage, TrigWriteTick(rst, wr, st), UNCHANGED trigReadVars
  PROVE  ChainTypeOK'
<1>1. DcTypeOK(trig_fifo, Stage, LENGTH_TRIG) /\ LENGTH_TRIG \in Nat
  BY TrigAssumption DEF ChainTypeOK
<1>2. DcTypeOK(trig_fifo', Stage, LENGTH_TRIG)
  <2>1. CASE rst
    BY <1>1, <2>1, DcClearedFacts DEF TrigWriteTick
  <2>2. CASE ~rst
    <3>1. trig_fifo' \in DcWrite(trig_fifo, LENGTH_TRIG, wr, st)
      BY <2>2 DEF TrigWriteTick
    <3> QED
      BY <1>1, <3>1, DcWriteFacts
  <2> QED
    BY <2>1, <2>2
<1> QED
  BY <1>2 DEF ChainTypeOK, DcTypeOK, trigReadVars

\* A step of the trigger state machine keeps the chain's types.
LEMMA TrigReadStep ==
  ASSUME ChainTypeOK, NEW rst \in BOOLEAN, NEW in, NEW enable \in BOOLEAN,
         NEW force \in BOOLEAN, NEW trig_reset \in BOOLEAN,
         NEW rt \in BOOLEAN,
         TrigReadTick(rst, in, enable, force, trig_reset, rt)
  PROVE  ChainTypeOK'
<1>1. DcTypeOK(trig_fifo, Stage, LENGTH_TRIG) /\ LENGTH_TRIG \in Nat
  BY TrigAssumption DEF ChainTypeOK
<1>2. trig_rdreq(rst, rt) \in BOOLEAN
  BY DEF trig_rdreq
<1>3. DcTypeOK(trig_fifo', Stage, LENGTH_TRIG)
  BY <1>1, <1>2, DcReadFacts DEF TrigReadTick
<1>4. stage' \in Stage
  BY <1>1, DcHead DEF TrigReadTick, ChainTypeOK, fifo_empty
<1>5. one' \in BOOLEAN /\ active_stage_valid' \in BOOLEAN
  BY DEF TrigReadTick
<1>6. tstate' \in {"IDLE", "LOAD", "WAIT", "TRIGGERED"}
  BY DEF TrigReadTick, ChainTypeOK, Successor
<1> QED
  BY <1>3, <1>4, <1>5, <1>6 DEF ChainTypeOK, DcTypeOK
-----------------------------------------------------------------------------
(***************************************************************************)
(* The steps of the streamer.                                              *)
(***************************************************************************)
PartsInv ==
  /\ InputFifoInv /\ OutSlackInv
  /\ DecoderTypeOK /\ OutputFifoTypeOK /\ ChainTypeOK

\* The part of TypeOK about the streamer's own registers and its source.
ControlTypeOK ==
  /\ reset \in BOOLEAN /\ settled \in BOOLEAN
  /\ rst_sync \in BOOLEAN \X BOOLEAN \X BOOLEAN
  /\ trigger_latch \in BOOLEAN /\ stream_in_progress \in BOOLEAN
  /\ initial_value \in InitialValues
  /\ prog \in Programs /\ pc \in 1 .. (Len(prog) + 1)
  /\ played \in Seq(OutWord) /\ stages_loaded \in Nat

\* The inductive invariant, split along the components.
LEMMA IInvParts == IInv <=> PartsInv /\ ControlTypeOK
BY DEF IInv, PartsInv, ControlTypeOK, TypeOK, InputFifoInv

\* A posedge of clk.
LEMMA ClkEdgeStep ==
  ASSUME PartsInv, NEW rst \in BOOLEAN, NEW valid \in BOOLEAN,
         NEW data \in Element, NEW reload \in BOOLEAN, NEW init \in Word,
         ClkEdge(rst, valid, data, reload, init),
         UNCHANGED <<outReadVars, trigReadVars>>
  PROVE  PartsInv'
<1> DEFINE rdreq_rl == load_fire(rst, reload, in_valid_data, out_almost_full)
           w == [data |-> out_data, control |-> out_control]
<1>1. /\ InputFifoInv /\ OutSlackInv
      /\ DecoderTypeOK /\ OutputFifoTypeOK /\ ChainTypeOK
  BY DEF PartsInv
<1>2. q_i \in Element
  BY <1>1, InputSignals
<1>3. InputFifoInv'
  <2>1. InputFifoTick(rst, data, valid, rdreq_rl \/ rdreq_chain_trigger)
    BY DEF ClkEdge
  <2>2. (rdreq_rl \/ rdreq_chain_trigger) \in BOOLEAN
    OBVIOUS
  <2> QED
    BY <1>1, <2>1, <2>2, InputFifoStep
<1>4. DecoderTypeOK' /\ (out_wrreq' => ~out_almost_full /\ ~rst)
  <2>1. DecoderTick(rst, reload, in_valid_data, q_i, init, out_almost_full)
    BY DEF ClkEdge
  <2>2. in_valid_data \in BOOLEAN /\ out_almost_full \in BOOLEAN
    BY <1>1 DEF in_valid_data, OutputFifoTypeOK
  <2> QED
    BY <1>1, <1>2, <2>1, <2>2, DecoderStep
<1>5. /\ DcTypeOK(out_fifo, OutWord, LENGTH_OUT)'
      /\ out_almost_full' \in BOOLEAN /\ out_ctr_in' \in Stat
      /\ OutSlackInv'
  <2>1. OutputWriteTick(rst, out_wrreq, w)
    BY DEF ClkEdge
  <2>2. out_wrreq \in BOOLEAN /\ w \in OutWord
    BY <1>1 DEF DecoderTypeOK, OutWord
  <2>3. out_wrreq' \in BOOLEAN
    BY <1>4 DEF DecoderTypeOK
  <2> QED
    BY <1>1, <1>4, <2>1, <2>2, <2>3, OutWriteStep
<1>6. OutputFifoTypeOK'
  BY <1>1, <1>5 DEF OutputFifoTypeOK, outReadVars
<1>7. ChainTypeOK'
  <2>1. TrigWriteTick(rst, rdreq_chain_trigger, StageOf(q_i))
    BY DEF ClkEdge
  <2>2. rdreq_chain_trigger \in BOOLEAN /\ StageOf(q_i) \in Stage
    BY <1>2, StageIsStage DEF rdreq_chain_trigger
  <2>3. UNCHANGED trigReadVars
    OBVIOUS
  <2> QED
    BY <1>1, <2>1, <2>2, <2>3, TrigWriteStep
<1> QED
  BY <1>3, <1>4, <1>5, <1>6, <1>7 DEF PartsInv

\* A posedge of streamer_clk.
LEMMA StreamerTickStep ==
  ASSUME IInv, NEW gated \in BOOLEAN, NEW in, NEW enable \in BOOLEAN,
         NEW force \in BOOLEAN, NEW trig_reset \in BOOLEAN,
         NEW stop \in BOOLEAN, NEW stop_on_error \in BOOLEAN,
         StreamerTick(gated, in, enable, force, trig_reset, stop,
                      stop_on_error)
  PROVE  IInv'
<1> DEFINE rdreq == trigger_activated(stop, stop_on_error) /\ gated
<1>1. /\ InputFifoInv /\ OutSlackInv
      /\ DecoderTypeOK /\ OutputFifoTypeOK /\ ChainTypeOK /\ ControlTypeOK
  BY IInvParts DEF PartsInv
<1>2. /\ UNCHANGED inputFifoVars /\ UNCHANGED decoderVars
      /\ UNCHANGED outWriteVars
      /\ UNCHANGED <<pc, reset, initial_value, prog>>
  BY DEF StreamerTick, clkVars
<1>3. rdreq \in BOOLEAN /\ streamer_rst \in BOOLEAN /\ retrig \in BOOLEAN
  BY <1>1 DEF streamer_rst, retrig, ControlTypeOK
<1>4. OutputReadTick(streamer_rst, rdreq)
  BY DEF StreamerTick
<1>5. /\ OutputFifoTypeOK' /\ wrusedw(out_fifo') = wrusedw(out_fifo)
      /\ qc \in OutWord
  <2> HIDE DEF rdreq
  <2> QED
    BY <1>1, <1>2, <1>3, <1>4, OutReadStep
<1>6. ChainTypeOK'
  <2>1. TrigReadTick(streamer_rst, in, enable, force, trig_reset, retrig)
    BY DEF StreamerTick
  <2> QED
    BY <1>1, <1>3, <2>1, TrigReadStep
<1>7. InputFifoInv'
  BY <1>1, <1>2 DEF inputFifoVars, preprocVars, InputFifoInv,
     InputFifoTypeOK, PreprocTypeOK, ReplayInRange, BelowAlmostFull,
     InputNeverOverflows
<1>8. DecoderTypeOK'
  BY <1>1, <1>2 DEF decoderVars, DecoderTypeOK
<1>9. OutSlackInv'
  <2>1. out_almost_full' = out_almost_full /\ out_wrreq' = out_wrreq
    BY <1>2 DEF outWriteVars, decoderVars
  <2>2. wrusedw(out_fifo)' = wrusedw(out_fifo')
    BY DEF wrusedw
  <2> QED
    BY <1>1, <1>5, <2>1, <2>2 DEF OutSlackInv, fifo_threshold
<1>10. ControlTypeOK'
  <2>1. rst_sync' \in BOOLEAN \X BOOLEAN \X BOOLEAN
    <3>1. rst_sync' = <<reset, rst_sync[1], rst_sync[2]>>
      BY DEF StreamerTick
    <3>2. /\ reset \in BOOLEAN
          /\ rst_sync[1] \in BOOLEAN /\ rst_sync[2] \in BOOLEAN
      BY <1>1 DEF ControlTypeOK
    <3> QED
      BY <3>1, <3>2
  <2>2. /\ trigger_latch' \in BOOLEAN /\ stream_in_progress' \in BOOLEAN
        /\ settled' \in BOOLEAN
    BY DEF StreamerTick, latches
  <2>3. played' \in Seq(OutWord)
    BY <1>1, <1>5 DEF StreamerTick, ControlTypeOK
  <2>4. stages_loaded' \in Nat
    BY <1>1 DEF StreamerTick, ControlTypeOK
  <2> QED
    BY <1>1, <1>2, <2>1, <2>2, <2>3, <2>4 DEF ControlTypeOK
<1>11. PartsInv'
  BY <1>5, <1>6, <1>7, <1>8, <1>9 DEF PartsInv
<1> QED
  BY <1>10, <1>11 DEF IInv, PartsInv, ControlTypeOK, TypeOK, InputFifoInv

\* The element the source offers.
LEMMA OfferedElement ==
  ASSUME ControlTypeOK
  PROVE  (IF Offering THEN prog[pc] ELSE Blank) \in Element
<1>1. prog \in Seq(Element) /\ pc \in 1 .. (Len(prog) + 1)
  BY ProgramsAssumption DEF ControlTypeOK
<1> QED
  BY <1>1, BlankIsElement DEF Offering

\* A clk edge with the source sending keeps the inductive invariant.
LEMMA ClkTickStep ==
  ASSUME IInv, NEW valid \in BOOLEAN, ClkTick(valid)
  PROVE  IInv'
<1>1. PartsInv /\ ControlTypeOK
  BY IInvParts
<1>2. PartsInv'
  <2>1. reset \in BOOLEAN /\ initial_value \in Word
    BY <1>1, InitialAssumption DEF ControlTypeOK
  <2>2. ClkEdge(reset, valid, IF Offering THEN prog[pc] ELSE Blank, FALSE,
                initial_value)
    BY DEF ClkTick
  <2>3. UNCHANGED <<outReadVars, trigReadVars>>
    BY DEF ClkTick, streamerClkVars
  <2> QED
    BY <1>1, <2>1, <2>2, <2>3, OfferedElement, ClkEdgeStep
<1>3. ControlTypeOK'
  <2>1. UNCHANGED <<reset, initial_value, prog, rst_sync, settled,
                    trigger_latch, stream_in_progress, played, stages_loaded>>
    BY DEF ClkTick, streamerClkVars
  <2>2. prog \in Seq(Element) /\ pc \in 1 .. (Len(prog) + 1)
    BY <1>1, ProgramsAssumption DEF ControlTypeOK
  <2>3. pc' \in 1 .. (Len(prog) + 1)
    BY <2>2 DEF ClkTick, Offering
  <2> QED
    BY <1>1, <2>1, <2>3 DEF ControlTypeOK
<1> QED
  BY <1>2, <1>3 DEF IInv, PartsInv, ControlTypeOK, TypeOK, InputFifoInv

\* A reload of the initial value keeps the inductive invariant.
LEMMA ReloadStep ==
  ASSUME IInv, NEW init \in InitialValues, ReloadInitial(init)
  PROVE  IInv'
<1>1. PartsInv /\ ControlTypeOK
  BY IInvParts
<1>2. PartsInv'
  <2>1. init \in Word
    BY InitialAssumption
  <2>2. ClkEdge(FALSE, FALSE, Blank, TRUE, init)
    BY DEF ReloadInitial
  <2>3. UNCHANGED <<outReadVars, trigReadVars>>
    BY DEF ReloadInitial, streamerClkVars
  <2> QED
    BY <1>1, <2>1, <2>2, <2>3, BlankIsElement, ClkEdgeStep
<1>3. ControlTypeOK'
  BY <1>1 DEF ReloadInitial, streamerClkVars, ControlTypeOK
<1> QED
  BY <1>2, <1>3 DEF IInv, PartsInv, ControlTypeOK, TypeOK, InputFifoInv

\* The end of a reset keeps the inductive invariant.
LEMMA ReleaseStep ==
  ASSUME IInv, ReleaseReset
  PROVE  IInv'
<1>1. PartsInv /\ ControlTypeOK
  BY IInvParts
<1>2. PartsInv'
  <2>1. initial_value \in Word
    BY <1>1, InitialAssumption DEF ControlTypeOK
  <2>2. ClkEdge(TRUE, FALSE, Blank, FALSE, initial_value)
    BY DEF ReleaseReset
  <2>3. UNCHANGED <<outReadVars, trigReadVars>>
    BY DEF ReleaseReset
  <2> QED
    BY <1>1, <2>1, <2>2, <2>3, BlankIsElement, ClkEdgeStep
<1>3. ControlTypeOK'
  <2>1. prog' \in Programs /\ prog' \in Seq(Element)
    BY ProgramsAssumption DEF ReleaseReset
  <2>2. pc' \in 1 .. (Len(prog') + 1)
    BY <2>1 DEF ReleaseReset
  <2>3. played' \in Seq(OutWord) /\ stages_loaded' \in Nat
    BY DEF ReleaseReset
  <2>4. reset' \in BOOLEAN
    BY DEF ReleaseReset
  <2> QED
    BY <1>1, <2>1, <2>2, <2>3, <2>4 DEF ReleaseReset, ControlTypeOK
<1> QED
  BY <1>2, <1>3 DEF IInv, PartsInv, ControlTypeOK, TypeOK, InputFifoInv

\* The start of a reset keeps the inductive invariant.
LEMMA AssertStep ==
  ASSUME IInv, AssertReset
  PROVE  IInv'
<1>1. PartsInv /\ ControlTypeOK
  BY IInvParts
<1>2. /\ UNCHANGED inputFifoVars /\ UNCHANGED decoderVars
      /\ UNCHANGED outWriteVars /\ UNCHANGED outReadVars
      /\ UNCHANGED trigReadVars
      /\ UNCHANGED <<pc, initial_value, prog, rst_sync, trigger_latch,
                     stream_in_progress, played, stages_loaded>>
      /\ out_fifo' = DcCleared /\ trig_fifo' = DcCleared
      /\ reset' = TRUE /\ settled' = FALSE
  BY DEF AssertReset, clkVars, streamerClkVars
<1>3. /\ LENGTH_OUT \in Nat /\ LENGTH_TRIG \in Nat /\ fifo_threshold \in Nat
  BY OutputFifoAssumption, TrigAssumption DEF fifo_threshold
<1>4. /\ DcTypeOK(out_fifo', OutWord, LENGTH_OUT)
      /\ DcTypeOK(trig_fifo', Stage, LENGTH_TRIG)
      /\ wrusedw(out_fifo') = 0
  BY <1>2, <1>3, DcClearedFacts
<1>5. InputFifoInv'
  BY <1>1, <1>2 DEF PartsInv, inputFifoVars, preprocVars, InputFifoInv,
     InputFifoTypeOK, PreprocTypeOK, ReplayInRange, BelowAlmostFull,
     InputNeverOverflows
<1>6. DecoderTypeOK'
  BY <1>1, <1>2 DEF PartsInv, decoderVars, DecoderTypeOK
<1>7. OutputFifoTypeOK'
  BY <1>1, <1>2, <1>4 DEF PartsInv, outWriteVars, outReadVars,
     OutputFifoTypeOK, DcTypeOK
<1>8. ChainTypeOK'
  BY <1>1, <1>2, <1>4 DEF PartsInv, trigReadVars, ChainTypeOK, DcTypeOK
<1>9. OutSlackInv'
  <2>1. 0 <= fifo_threshold + 1 /\ 0 <= fifo_threshold + 2
    BY <1>3
  <2> QED
    BY <1>4, <2>1 DEF OutSlackInv, wrusedw, fifo_threshold
<1>10. ControlTypeOK'
  BY <1>1, <1>2 DEF ControlTypeOK
<1> QED
  BY <1>5, <1>6, <1>7, <1>8, <1>9, <1>10
     DEF IInv, ControlTypeOK, TypeOK, InputFifoInv

\* Power-up establishes the inductive invariant.
LEMMA StreamerStart == Init => IInv
<1> SUFFICES ASSUME Init PROVE IInv
  OBVIOUS
<1>1. InputFifoInv
  BY InputFifoStart DEF Init
<1>2. initial_value \in Word /\ {} \in Word /\ 0 \in Stat
  BY InitialAssumption, StatAssumption DEF Init, Word, Stat
<1>3. DecoderTypeOK
  <2>1. out_wrreq = FALSE
    BY DEF Init, DecoderInit
  <2>2. curr_cnt \in Nat /\ prng_k \in Nat
    BY DEF Init, DecoderInit
  <2>3. /\ prev_value \in Word /\ curr_value \in Word /\ out_data \in Word
        /\ curr_control \in SUBSET ControlBits
        /\ out_control \in SUBSET ControlBits
    BY <1>2 DEF Init, DecoderInit
  <2> QED
    BY <2>1, <2>2, <2>3 DEF DecoderTypeOK
<1>4. /\ LENGTH_OUT \in Nat /\ LENGTH_TRIG \in Nat /\ fifo_threshold \in Nat
  BY OutputFifoAssumption, TrigAssumption DEF fifo_threshold
<1>5. /\ DcTypeOK(out_fifo, OutWord, LENGTH_OUT)
      /\ DcTypeOK(trig_fifo, Stage, LENGTH_TRIG)
      /\ wrusedw(out_fifo) = 0
  BY <1>4, DcClearedFacts DEF Init, OutputFifoInit, ChainInit
<1>6. OutputFifoTypeOK
  <2>1. /\ out_almost_full = FALSE /\ qout_valid = FALSE
        /\ strobe_enable = FALSE /\ done = FALSE /\ terminal_seen = FALSE
        /\ buffer_error = FALSE /\ retrig_requested = FALSE
        /\ stream_started = FALSE
    BY DEF Init, OutputFifoInit
  <2>2. out_ctr_in \in Stat /\ out_ctr_out \in Stat /\ qout_fifo \in Word
    BY <1>2 DEF Init, OutputFifoInit
  <2> QED
    BY <1>5, <2>1, <2>2 DEF OutputFifoTypeOK
<1>7. ChainTypeOK
  <2>1. NoStage \in Stage
    BY DEF NoStage, Stage
  <2> QED
    BY <1>5, <2>1 DEF Init, ChainInit, ChainTypeOK
<1>8. OutSlackInv
  <2>1. 0 <= fifo_threshold + 1 /\ 0 <= fifo_threshold + 2
    BY <1>4
  <2> QED
    BY <1>5, <2>1 DEF OutSlackInv
<1>9. ControlTypeOK
  <2>1. prog \in Seq(Element) /\ prog \in Programs
    BY ProgramsAssumption DEF Init
  <2>2. pc \in 1 .. (Len(prog) + 1)
    BY <2>1 DEF Init
  <2>3. rst_sync \in BOOLEAN \X BOOLEAN \X BOOLEAN
    BY DEF Init
  <2>4. played \in Seq(OutWord) /\ stages_loaded \in Nat
    BY DEF Init
  <2> QED
    BY <2>1, <2>2, <2>3, <2>4 DEF Init, ControlTypeOK
<1> QED
  BY <1>1, <1>3, <1>6, <1>7, <1>8, <1>9, IInvParts DEF PartsInv

\* Every step of a streamer keeps the inductive invariant.
LEMMA StreamerStep == IInv /\ [Next]_vars => IInv'
<1> SUFFICES ASSUME IInv, [Next]_vars PROVE IInv'
  OBVIOUS
<1>1. ASSUME NEW valid \in BOOLEAN, ClkTick(valid) PROVE IInv'
  BY <1>1, ClkTickStep
<1>2. ASSUME NEW init \in InitialValues, ReloadInitial(init) PROVE IInv'
  BY <1>2, ReloadStep
<1>3. CASE AssertReset
  BY <1>3, AssertStep
<1>4. CASE ReleaseReset
  BY <1>4, ReleaseStep
<1>5. CASE RunAny
  <2>1. PICK gated \in GateIn, in \in SUBSET TriggerInputs,
             enable \in EnableIn, force \in ForceIn,
             trig_reset \in TrigResetIn, stop \in StopIn,
             stop_on_error \in StopOnErrorIn :
               StreamerTick(gated, in, enable, force, trig_reset, stop,
                            stop_on_error)
    BY <1>5 DEF RunAny, Run
  <2>2. /\ gated \in BOOLEAN /\ enable \in BOOLEAN /\ force \in BOOLEAN
        /\ trig_reset \in BOOLEAN /\ stop \in BOOLEAN
        /\ stop_on_error \in BOOLEAN
    BY InputsAssumption
  <2> QED
    BY <2>1, <2>2, StreamerTickStep
<1>6. CASE UNCHANGED vars
  BY <1>6 DEF vars, clkVars, streamerClkVars, inputFifoVars, preprocVars,
     decoderVars, outWriteVars, outReadVars, trigReadVars,
     IInv, TypeOK, OutSlackInv, InputFifoInv, InputFifoTypeOK,
     PreprocTypeOK, ReplayInRange, BelowAlmostFull, InputNeverOverflows,
     DecoderTypeOK, OutputFifoTypeOK, ChainTypeOK, DcTypeOK, wrusedw
<1> QED
  BY <1>1, <1>2, <1>3, <1>4, <1>5, <1>6 DEF Next
-----------------------------------------------------------------------------
\* The inductive invariant holds in every reachable state.
THEOREM StreamerInvariance == Spec => []IInv
BY StreamerStart, StreamerStep, PTL DEF Spec

\* Every register, FIFO and counter of streamer.sv keeps its type.
THEOREM StreamerTypeCorrect == Spec => []TypeOK
<1>1. IInv => TypeOK
  BY DEF IInv
<1> QED
  BY <1>1, StreamerInvariance, PTL

\* The output FIFO takes every word the decoder writes.
LEMMA NeverDrops == ASSUME IInv PROVE out_wrreq => ~wrfull(out_fifo, LENGTH_OUT)
<1>1. out_wrreq => wrusedw(out_fifo) <= fifo_threshold + 2
  BY DEF IInv, OutSlackInv
<1>2. wrusedw(out_fifo) \in Nat
  BY DEF IInv, TypeOK, OutputFifoTypeOK, DcTypeOK, wrusedw
<1>3. LENGTH_OUT \in Nat /\ fifo_threshold + 3 <= LENGTH_OUT /\ fifo_threshold \in Nat
  BY OutputFifoAssumption DEF fifo_threshold
<1> QED
  BY <1>1, <1>2, <1>3 DEF wrfull

\* output_fifo.sv's slack above almost_full is sufficient for every depth of
\* at least three words: the dcfifo never ignores a write of the decoder.
THEOREM StreamerNeverDrops == Spec => []OutputNeverDrops
<1>1. IInv => OutputNeverDrops
  BY NeverDrops DEF OutputNeverDrops
<1> QED
  BY <1>1, StreamerInvariance, PTL
-----------------------------------------------------------------------------
(***************************************************************************)
(* What a list of elements decodes to, one element at a time.              *)
(***************************************************************************)
Samplings == [prev : Word, k : Nat, out : Seq(OutWord)]

\* n samples of a run with control word c: the word v, or the generator's
\* words from its k-th on.
RunOf(v, c, k, n) ==
  [i \in 1 .. n |-> [data |-> IF "PRNG" \in c THEN Rnd(k + i - 1) ELSE v,
                     control |-> c]]

\* A run is a list of words.
LEMMA RunIs ==
  ASSUME NEW v \in Word, NEW c \in SUBSET ControlBits, NEW k \in Nat, NEW n \in Nat
  PROVE  RunOf(v, c, k, n) \in Seq(OutWord) /\ Len(RunOf(v, c, k, n)) = n
<1>1. ASSUME NEW i \in 1 .. n
      PROVE  [data |-> IF "PRNG" \in c THEN Rnd(k + i - 1) ELSE v, control |-> c] \in OutWord
  <2>1. k + i - 1 \in Nat
    OBVIOUS
  <2>2. Rnd(k + i - 1) \in Word
    BY <2>1, RndIsWord
  <2> QED
    BY <2>2 DEF OutWord
<1>2. RunOf(v, c, k, n) \in [1 .. n -> OutWord]
  BY <1>1 DEF RunOf
<1> QED
  BY <1>2

\* Its first sample, and how far the generator is after it.
FirstSample(v, c, k) == [data |-> IF "PRNG" \in c THEN Rnd(k) ELSE v, control |-> c]
AfterFirst(c, k) == IF "PRNG" \in c THEN k + 1 ELSE k

\* The first sample of a run leaves, and the rest is the run that is left.
LEMMA RunEmits ==
  ASSUME NEW v \in Word, NEW c \in SUBSET ControlBits, NEW k \in Nat, NEW n \in Nat, n # 0,
         NEW w \in Seq(OutWord)
  PROVE  /\ FirstSample(v, c, k) \in OutWord
         /\ w \o RunOf(v, c, k, n)
              = Append(w, FirstSample(v, c, k)) \o RunOf(v, c, AfterFirst(c, k), n - 1)
<1> DEFINE k2 == AfterFirst(c, k)
           x == FirstSample(v, c, k)
<1>0. /\ k2 = IF "PRNG" \in c THEN k + 1 ELSE k
      /\ x = [data |-> IF "PRNG" \in c THEN Rnd(k) ELSE v, control |-> c]
  BY DEF AfterFirst, FirstSample
<1> HIDE DEF k2, x
<1>1. k2 \in Nat /\ n - 1 \in Nat /\ x \in OutWord
  BY <1>0, RndIsWord DEF OutWord
<1>2. PICK a \in Seq(OutWord) : a = RunOf(v, c, k, n) /\ Len(a) = n
  BY RunIs
<1>3. PICK b \in Seq(OutWord) : b = RunOf(v, c, k2, n - 1) /\ Len(b) = n - 1
  BY <1>1, RunIs
<1>4. a[1] = x
  <2>1. 1 \in 1 .. n /\ k + 1 - 1 = k
    OBVIOUS
  <2> QED
    BY <1>0, <1>2, <2>1 DEF RunOf
<1>5. ASSUME NEW i \in 1 .. (n - 1) PROVE a[i + 1] = b[i]
  <2>1. i + 1 \in 1 .. n /\ k + (i + 1) - 1 = (k + 1) + i - 1
    OBVIOUS
  <2>2. "PRNG" \in c => k2 = k + 1
    BY <1>0
  <2>3. a[i + 1] = [data |-> IF "PRNG" \in c THEN Rnd(k + (i + 1) - 1) ELSE v, control |-> c]
    BY <1>2, <2>1 DEF RunOf
  <2>4. b[i] = [data |-> IF "PRNG" \in c THEN Rnd(k2 + i - 1) ELSE v, control |-> c]
    BY <1>3 DEF RunOf
  <2>5. CASE "PRNG" \in c
    BY <2>1, <2>2, <2>3, <2>4, <2>5
  <2>6. CASE "PRNG" \notin c
    BY <2>3, <2>4, <2>6
  <2> QED
    BY <2>5, <2>6
<1>6. w \o a = Append(w, x) \o b
  <2>1. PICK y \in OutWord : y = x
    BY <1>1
  <2>2. a[1] = y /\ Len(a) = n /\ Len(b) = n - 1 /\ \A i \in 1 .. (n - 1) : a[i + 1] = b[i]
    BY <1>2, <1>3, <1>4, <1>5, <2>1
  <2>3. a # <<>> /\ Head(a) = y /\ Tail(a) = b
    <3>1. a # <<>> /\ Head(a) = a[1]
      BY <2>2
    <3>2. Tail(a) \in Seq(OutWord) /\ Len(Tail(a)) = Len(a) - 1
          /\ \A i \in 1 .. Len(Tail(a)) : Tail(a)[i] = a[i + 1]
      BY <3>1, HeadTailProperties
    <3>3. Tail(a) = b
      BY <2>2, <3>2, SeqEqual
    <3> QED
      BY <2>2, <3>1, <3>3
  <2>4. Append(w, Head(a)) \o Tail(a) = w \o a
    BY <2>3, MoveElementOver
  <2> QED
    BY <2>1, <2>3, <2>4
<1> QED
  BY <1>1, <1>2, <1>3, <1>6 DEF k2, x

\* One element of the meaning: nothing for a trigger element or an empty run,
\* a run otherwise.
LEMMA SampleStepIs ==
  ASSUME NEW st \in Samplings, NEW e \in Element
  PROVE  /\ SampleStep(st, e) \in Samplings
         /\ Is(e, "TRIGGER") \/ e.cnt = 0 => SampleStep(st, e) = st
         /\ ~Is(e, "TRIGGER") /\ e.cnt # 0 =>
              /\ SampleStep(st, e).out
                   = st.out \o RunOf(apply_op(st.prev, e.val, e.mode), e.control, st.k, e.cnt)
              /\ SampleStep(st, e).k = IF "PRNG" \in e.control THEN st.k + e.cnt ELSE st.k
              /\ SampleStep(st, e).prev
                   = IF "PRNG" \in e.control THEN Rnd(st.k + e.cnt - 1)
                                             ELSE apply_op(st.prev, e.val, e.mode)
<1>0. /\ st.prev \in Word /\ st.k \in Nat /\ st.out \in Seq(OutWord)
      /\ e.val \in Word /\ e.mode \in BitOps /\ e.cnt \in Nat
      /\ e.control \in SUBSET ControlBits
  BY DEF Samplings, Element
<1>1. CASE Is(e, "TRIGGER") \/ e.cnt = 0
  BY <1>1 DEF SampleStep
<1>2. CASE ~Is(e, "TRIGGER") /\ e.cnt # 0
  <2>1. PICK v \in Word : v = apply_op(st.prev, e.val, e.mode)
    BY <1>0, OpIsWord
  <2>2. PICK r : r = SampleRun(st, e)
    OBVIOUS
  <2>3. r = RunOf(v, e.control, st.k, e.cnt)
    BY <2>1, <2>2 DEF SampleRun, RunOf, Is
  <2>4. r \in Seq(OutWord) /\ Len(r) = e.cnt
    BY <1>0, <2>3, RunIs
  <2>5. r[e.cnt].data = IF "PRNG" \in e.control THEN Rnd(st.k + e.cnt - 1) ELSE v
    <3>1. e.cnt \in 1 .. e.cnt
      BY <1>0, <1>2
    <3> QED
      BY <2>3, <3>1 DEF RunOf
  <2>6. r[e.cnt].data \in Word
    <3>1. e.cnt \in 1 .. Len(r)
      BY <1>0, <1>2, <2>4
    <3>2. r[e.cnt] \in OutWord
      BY <2>4, <3>1
    <3> QED
      BY <3>2 DEF OutWord
  <2>7. PICK o \in Seq(OutWord) : o = st.out \o r
    BY <1>0, <2>4, ConcatProperties
  <2>8. PICK k2 \in Nat : k2 = IF "PRNG" \in e.control THEN st.k + e.cnt ELSE st.k
    BY <1>0
  <2>9. SampleStep(st, e) = [prev |-> r[e.cnt].data, k |-> k2, out |-> o]
    BY <1>2, <2>2, <2>7, <2>8 DEF SampleStep, Is
  <2>10. SampleStep(st, e) \in Samplings
    BY <2>6, <2>9 DEF Samplings
  <2>11. /\ SampleStep(st, e).prev = r[e.cnt].data /\ SampleStep(st, e).k = k2
         /\ SampleStep(st, e).out = o
    BY <2>9
  <2> QED
    BY <1>2, <2>1, <2>3, <2>5, <2>7, <2>8, <2>10, <2>11
<1> QED
  BY <1>1, <1>2

\* The samples exist and are computed element by element.
LEMMA SampleTable ==
  ASSUME NEW p \in Seq(Element), NEW init \in Word
  PROVE  /\ Sampling(p, init) \in [0 .. Len(p) -> Samplings]
         /\ Sampling(p, init)[0] = SampleStart(init)
         /\ \A i \in 1 .. Len(p) :
              Sampling(p, init)[i] = SampleStep(Sampling(p, init)[i - 1], p[i])
<1> DEFINE n == Len(p)
           step == [q \in Samplings \X (1 .. n) |-> SampleStep(q[1], p[q[2]])]
           Body(f) == [i \in 0 .. n |-> IF i = 0 THEN SampleStart(init)
                                                 ELSE SampleStep(f[i - 1], p[i])]
           st == CHOOSE f : f = Body(f)
<1>0. n \in Nat /\ \A i \in 1 .. n : p[i] \in Element
  OBVIOUS
<1>1. SampleStart(init) \in Samplings
  BY DEF SampleStart, Samplings
<1> HIDE DEF n
<1>2. step \in [Samplings \X (1 .. n) -> Samplings]
  <2>1. ASSUME NEW q \in Samplings \X (1 .. n) PROVE SampleStep(q[1], p[q[2]]) \in Samplings
    BY <1>0, SampleStepIs
  <2> QED
    BY <2>1
<1>3. \A l \in Samplings, i \in 1 .. n : step[<<l, i>>] = SampleStep(l, p[i])
  OBVIOUS
<1> HIDE DEF step
<1>4. PICK f \in [0 .. n -> Samplings] : Table(f, SampleStart(init), step, n)
  BY <1>0, <1>1, <1>2, TableExists
<1>5. f = Body(f)
  <2>1. ASSUME NEW i \in 0 .. n PROVE f[i] = Body(f)[i]
    <3>1. CASE i = 0
      BY <1>4, <3>1 DEF Table
    <3>2. CASE i # 0
      <4>1. i \in 1 .. n /\ i - 1 \in 0 .. n
        BY <1>0, <3>2
      <4> QED
        BY <1>3, <1>4, <3>2, <4>1 DEF Table
    <3> QED
      BY <3>1, <3>2
  <2> QED
    BY <1>4, <2>1
<1>6. st = Body(st)
  BY <1>5
<1>7. Sampling(p, init) = st
  BY DEF Sampling, n
<1> DEFINE S == {k \in Nat : k <= n => st[k] \in Samplings}
<1> HIDE DEF st
<1>8. 0 \in S
  BY <1>0, <1>1, <1>6
<1>9. ASSUME NEW k \in Nat, k \in S PROVE k + 1 \in S
  <2> SUFFICES ASSUME k + 1 <= n PROVE st[k + 1] \in Samplings
    OBVIOUS
  <2>1. k + 1 \in 1 .. n /\ k + 1 \in 0 .. n /\ k + 1 # 0 /\ (k + 1) - 1 = k /\ k <= n
    BY <1>0
  <2>2. st[k + 1] = SampleStep(st[k], p[k + 1])
    BY <1>6, <2>1
  <2> QED
    BY <1>0, <1>9, <2>1, <2>2, SampleStepIs
<1> HIDE DEF S
<1>10. Nat \subseteq S
  BY <1>8, <1>9, NatInductive
<1>11. \A k \in 0 .. n : st[k] \in Samplings
  BY <1>0, <1>10 DEF S
<1>12. DOMAIN st = 0 .. n /\ st = [i \in 0 .. n |-> st[i]]
  BY <1>6
<1>13. st \in [0 .. n -> Samplings]
  BY <1>11, <1>12
<1>14. st[0] = SampleStart(init) /\ \A i \in 1 .. n : st[i] = SampleStep(st[i - 1], p[i])
  <2>1. 0 \in 0 .. n /\ \A i \in 1 .. n : i \in 0 .. n /\ i # 0
    BY <1>0
  <2> QED
    BY <1>6, <2>1
<1> QED
  BY <1>7, <1>13, <1>14 DEF n

\* What the first elements decode to is the beginning of what all decode to.
LEMMA SamplesExtend ==
  ASSUME NEW p \in Seq(Element), NEW init \in Word, NEW k \in 0 .. Len(p)
  PROVE  /\ IsPrefix(Sampling(p, init)[k].out, Samples(p, init))
         /\ Samples(p, init) \in Seq(OutWord)
<1> DEFINE T(i) == Sampling(p, init)[i]
<1>0. /\ Len(p) \in Nat /\ k \in Nat
      /\ \A i \in 0 .. Len(p) : T(i) \in Samplings /\ T(i).out \in Seq(OutWord)
  <2>1. \A i \in 0 .. Len(p) : T(i) \in Samplings
    BY SampleTable
  <2> QED
    BY <2>1 DEF Samplings
<1>1. \A i \in 1 .. Len(p) : T(i) = SampleStep(T(i - 1), p[i])
  BY SampleTable
<1>2. Samples(p, init) = T(Len(p)).out
  BY DEF Samples
<1> HIDE DEF T
<1> DEFINE S == {n \in Nat : k <= n /\ n <= Len(p) => IsPrefix(T(k).out, T(n).out)}
<1>3. IsPrefix(T(k).out, T(k).out)
  BY <1>0, PrefixIs
<1>4. 0 \in S
  <2>1. k <= 0 => k = 0
    BY <1>0
  <2> QED
    BY <1>3, <2>1
<1>5. ASSUME NEW n \in Nat, n \in S PROVE n + 1 \in S
  <2> SUFFICES ASSUME k <= n + 1, n + 1 <= Len(p) PROVE IsPrefix(T(k).out, T(n + 1).out)
    OBVIOUS
  <2>1. CASE k = n + 1
    BY <1>3, <2>1
  <2>2. CASE k # n + 1
    <3>1. k <= n /\ n \in 0 .. Len(p) /\ n + 1 \in 1 .. Len(p) /\ n + 1 \in 0 .. Len(p)
          /\ n <= Len(p) /\ (n + 1) - 1 = n
      BY <1>0, <2>2
    <3>2. IsPrefix(T(k).out, T(n).out)
      BY <1>5, <3>1
    <3>3. T(n + 1) = SampleStep(T(n), p[n + 1]) /\ p[n + 1] \in Element
      <4>1. T(n + 1) = SampleStep(T((n + 1) - 1), p[n + 1])
        BY <1>1, <3>1
      <4> QED
        BY <3>1, <4>1
    <3>4. IsPrefix(T(n).out, T(n + 1).out)
      <4>1. PICK a \in Samplings, e \in Element : a = T(n) /\ e = p[n + 1]
        BY <1>0, <3>1, <3>3
      <4>2. a.prev \in Word /\ a.k \in Nat /\ a.out \in Seq(OutWord) /\ e.val \in Word
            /\ e.mode \in BitOps /\ e.cnt \in Nat /\ e.control \in SUBSET ControlBits
        BY DEF Samplings, Element
      <4>3. CASE Is(e, "TRIGGER") \/ e.cnt = 0
        <5>1. SampleStep(a, e) = a
          BY <4>3, SampleStepIs
        <5>2. IsPrefix(a.out, a.out)
          BY <4>2, PrefixIs
        <5> QED
          BY <3>3, <4>1, <5>1, <5>2
      <4>4. CASE ~Is(e, "TRIGGER") /\ e.cnt # 0
        <5>1. PICK r \in Seq(OutWord) :
                r = RunOf(apply_op(a.prev, e.val, e.mode), e.control, a.k, e.cnt)
          BY <4>2, OpIsWord, RunIs
        <5>2. T(n + 1).out = a.out \o r
          <6>1. SampleStep(a, e).out = a.out \o r
            BY <4>4, <5>1, SampleStepIs
          <6> QED
            BY <3>3, <4>1, <6>1
        <5> QED
          BY <4>1, <4>2, <5>2, PartIsPrefix
      <4> QED
        BY <4>3, <4>4
    <3> QED
      BY <1>0, <3>1, <3>2, <3>4, PrefixThrough
  <2> QED
    BY <2>1, <2>2
<1> HIDE DEF S
<1>6. Len(p) \in S
  BY <1>0, <1>4, <1>5, NatInductive
<1>7. IsPrefix(T(k).out, T(Len(p)).out) /\ Len(p) \in 0 .. Len(p)
  BY <1>0, <1>6 DEF S
<1> QED
  BY <1>0, <1>2, <1>7 DEF T
-----------------------------------------------------------------------------
(***************************************************************************)
(* The decoder is on its way to what the elements it has taken decode to.  *)
(***************************************************************************)
\* The words emitted so far and the run that is left make the samples st; the
\* generator has advanced k times, and the last sample is the one the next
\* element starts from.
DecodesAt(st, emitted) ==
  \E k \in Nat :
    /\ prng_k = k % Len(PrngOrbit)
    /\ st.k = IF "PRNG" \in curr_control THEN k + curr_cnt ELSE k
    /\ st.prev = IF curr_cnt = 0 THEN prev_value
                 ELSE IF "PRNG" \in curr_control THEN Rnd(k + curr_cnt - 1) ELSE curr_value
    /\ st.out = emitted \o RunOf(curr_value, curr_control, k, curr_cnt)

\* The generator's register wraps at the length of its orbit.
LEMMA OrbitStep ==
  ASSUME NEW k \in Nat
  PROVE  /\ Rnd(k % Len(PrngOrbit)) = Rnd(k)
         /\ ((k % Len(PrngOrbit)) + 1) % Len(PrngOrbit) = (k + 1) % Len(PrngOrbit)
         /\ 0 % Len(PrngOrbit) = 0
<1>1. PICK L \in Nat \ {0} : L = Len(PrngOrbit)
  BY PrngAssumption
<1>2. Rewraps(L, k)
  BY ModAgain
<1>3. (k % L) % L = k % L /\ ((k % L) + 1) % L = (k + 1) % L
  BY <1>2 DEF Rewraps
<1>4. 0 % L = 0
  OBVIOUS
<1> QED
  BY <1>1, <1>3, <1>4 DEF Rnd

\* A decoder that emits nothing and has no run left shows its last sample.
LEMMA DecodesIdle ==
  ASSUME NEW st, NEW emitted \in Seq(OutWord), DecodesAt(st, emitted), DecoderTypeOK, curr_cnt = 0
  PROVE  /\ st.out = emitted /\ st.prev = prev_value
         /\ st.k \in Nat /\ prng_k = st.k % Len(PrngOrbit)
<1>1. PICK k \in Nat :
        /\ prng_k = k % Len(PrngOrbit)
        /\ st.k = IF "PRNG" \in curr_control THEN k + curr_cnt ELSE k
        /\ st.prev = prev_value
        /\ st.out = emitted \o RunOf(curr_value, curr_control, k, curr_cnt)
  BY DEF DecodesAt
<1>2. st.k = k
  BY <1>1
<1>3. RunOf(curr_value, curr_control, k, curr_cnt) = <<>>
  <2>1. /\ RunOf(curr_value, curr_control, k, curr_cnt) \in Seq(OutWord)
        /\ Len(RunOf(curr_value, curr_control, k, curr_cnt)) = 0
    BY RunIs DEF DecoderTypeOK
  <2> QED
    BY <2>1
<1> QED
  BY <1>1, <1>2, <1>3

\* The state between the two halves of an edge: if emit, a sample has left the
\* run, and then pv, cnt and pk are prev_value, curr_cnt and prng_k.
Emission(emit, emitted, em2, cnt, pv, pk) ==
  /\ em2 = IF emit THEN Append(emitted, [data |-> emit_value, control |-> curr_control])
                   ELSE emitted
  /\ cnt = IF emit THEN curr_cnt - 1 ELSE curr_cnt
  /\ pv = IF emit THEN emit_value ELSE prev_value
  /\ pk = IF emit /\ curr_is_prng THEN (prng_k + 1) % Len(PrngOrbit) ELSE prng_k

Emitted(st, em2, cnt, pv, pk) ==
  /\ em2 \in Seq(OutWord) /\ cnt \in Nat /\ pv \in Word
  /\ \E k \in Nat :
       /\ pk = k % Len(PrngOrbit)
       /\ st.k = IF "PRNG" \in curr_control THEN k + cnt ELSE k
       /\ st.prev = IF cnt = 0 THEN pv
                    ELSE IF "PRNG" \in curr_control THEN Rnd(k + cnt - 1) ELSE curr_value
       /\ st.out = em2 \o RunOf(curr_value, curr_control, k, cnt)

\* The sample that leaves is the next one the elements taken so far mean.
LEMMA EmitStep ==
  ASSUME DecoderTypeOK, NEW st, NEW emitted \in Seq(OutWord), DecodesAt(st, emitted),
         NEW emit, emit \in BOOLEAN, emit => curr_cnt # 0,
         NEW em2, NEW cnt, NEW pv, NEW pk, Emission(emit, emitted, em2, cnt, pv, pk)
  PROVE  Emitted(st, em2, cnt, pv, pk)
<1> USE DEF Emission
<1>0. /\ prev_value \in Word /\ curr_value \in Word /\ curr_cnt \in Nat /\ prng_k \in Nat
      /\ curr_control \in SUBSET ControlBits
  BY DEF DecoderTypeOK
<1>1. PICK k \in Nat :
        /\ prng_k = k % Len(PrngOrbit)
        /\ st.k = IF "PRNG" \in curr_control THEN k + curr_cnt ELSE k
        /\ st.prev = IF curr_cnt = 0 THEN prev_value
                     ELSE IF "PRNG" \in curr_control THEN Rnd(k + curr_cnt - 1) ELSE curr_value
        /\ st.out = emitted \o RunOf(curr_value, curr_control, k, curr_cnt)
  BY DEF DecodesAt
<1>2. emit_value = IF "PRNG" \in curr_control THEN Rnd(k) ELSE curr_value
  <2>1. Rnd(prng_k) = Rnd(k)
    BY <1>1, OrbitStep
  <2> QED
    BY <2>1 DEF emit_value, curr_is_prng
<1>3. emit_value \in Word
  BY <1>0, <1>2, RndIsWord
<1>4. CASE ~emit
  BY <1>0, <1>1, <1>4 DEF Emitted
<1>5. CASE emit
  <2>1. cnt = curr_cnt - 1 /\ cnt \in Nat /\ curr_cnt # 0 /\ pv = emit_value
    BY <1>0, <1>5
  <2>2. PICK k2 \in Nat :
          k2 = AfterFirst(curr_control, k) /\ k2 = IF "PRNG" \in curr_control THEN k + 1 ELSE k
    BY DEF AfterFirst
  <2>3. PICK x : x = [data |-> emit_value, control |-> curr_control]
    OBVIOUS
  <2>4. x \in OutWord /\ emitted \o RunOf(curr_value, curr_control, k, curr_cnt)
                           = Append(emitted, x) \o RunOf(curr_value, curr_control, k2, curr_cnt - 1)
    <3>1. x = FirstSample(curr_value, curr_control, k)
      BY <1>2, <2>3 DEF FirstSample
    <3>2. /\ curr_value \in Word /\ curr_control \in SUBSET ControlBits
          /\ curr_cnt \in Nat /\ curr_cnt # 0
      BY <1>0, <2>1
    <3>3. /\ FirstSample(curr_value, curr_control, k) \in OutWord
          /\ emitted \o RunOf(curr_value, curr_control, k, curr_cnt)
               = Append(emitted, FirstSample(curr_value, curr_control, k))
                   \o RunOf(curr_value, curr_control, AfterFirst(curr_control, k), curr_cnt - 1)
      BY <3>2, RunEmits, Zenon
    <3> QED
      BY <2>2, <3>1, <3>3, Zenon
  <2>5. em2 = Append(emitted, x) /\ em2 \in Seq(OutWord)
    <3>1. em2 = Append(emitted, x)
      BY <1>5, <2>3
    <3>2. x \in OutWord
      BY <2>4
    <3> QED
      BY <3>1, <3>2
  <2>6. pk = k2 % Len(PrngOrbit)
    <3>1. CASE "PRNG" \in curr_control
      <4>1. pk = (prng_k + 1) % Len(PrngOrbit) /\ k2 = k + 1
        BY <1>5, <2>2, <3>1 DEF curr_is_prng
      <4>2. ((k % Len(PrngOrbit)) + 1) % Len(PrngOrbit) = (k + 1) % Len(PrngOrbit)
        BY OrbitStep
      <4> QED
        BY <1>1, <4>1, <4>2
    <3>2. CASE "PRNG" \notin curr_control
      BY <1>1, <2>2, <3>2 DEF curr_is_prng
    <3> QED
      BY <3>1, <3>2
  <2>7. st.k = IF "PRNG" \in curr_control THEN k2 + cnt ELSE k2
    BY <1>0, <1>1, <2>1, <2>2
  <2>8. st.prev = IF cnt = 0 THEN pv
                  ELSE IF "PRNG" \in curr_control THEN Rnd(k2 + cnt - 1) ELSE curr_value
    <3>1. st.prev = IF "PRNG" \in curr_control THEN Rnd(k + curr_cnt - 1) ELSE curr_value
      BY <1>1, <2>1
    <3>2. "PRNG" \in curr_control => k2 + cnt - 1 = k + curr_cnt - 1
      BY <1>0, <2>1, <2>2
    <3>3. cnt = 0 => k + curr_cnt - 1 = k
      BY <1>0, <2>1
    <3> QED
      BY <1>2, <2>1, <3>1, <3>2, <3>3
  <2>9. st.out = em2 \o RunOf(curr_value, curr_control, k2, cnt)
    BY <1>1, <2>1, <2>4, <2>5
  <2> QED
    BY <1>3, <2>1, <2>5, <2>6, <2>7, <2>8, <2>9, Zenon DEF Emitted
<1> QED
  BY <1>4, <1>5

\* The table's entry st and the words emitted, before and after a posedge of clk.
Decoding(st, e, in_valid, af, st2, emitted, em2) ==
  /\ st2 = IF load_fire(FALSE, FALSE, in_valid, af) THEN SampleStep(st, e) ELSE st
  /\ em2 = IF can_emit(af)
             THEN Append(emitted, [data |-> emit_value, control |-> curr_control])
             ELSE emitted

\* One posedge of clk outside reset and reload: a sample of the run is emitted
\* if there is room, and the next element is loaded when the run is over or
\* ends at this very edge.
LEMMA DecodeStep ==
  ASSUME DecoderTypeOK, NEW st \in Samplings, NEW emitted \in Seq(OutWord), DecodesAt(st, emitted),
         NEW in_valid \in BOOLEAN, NEW e \in Element, in_valid => ~Is(e, "TRIGGER"),
         NEW init, NEW af \in BOOLEAN, DecoderTick(FALSE, FALSE, in_valid, e, init, af),
         NEW st2, NEW em2, Decoding(st, e, in_valid, af, st2, emitted, em2)
  PROVE  em2 \in Seq(OutWord) /\ DecodesAt(st2, em2)'
<1> USE DEF Decoding
<1>0. /\ prev_value \in Word /\ curr_value \in Word /\ curr_cnt \in Nat /\ prng_k \in Nat
      /\ curr_control \in SUBSET ControlBits
      /\ e.val \in Word /\ e.mode \in BitOps /\ e.cnt \in Nat /\ e.control \in SUBSET ControlBits
      /\ st.prev \in Word /\ st.k \in Nat /\ st.out \in Seq(OutWord)
  BY DEF DecoderTypeOK, Element, Samplings
<1>1. PICK emit \in BOOLEAN : emit <=> can_emit(af)
  BY DEF can_emit
<1>2. PICK load \in BOOLEAN : load <=> load_fire(FALSE, FALSE, in_valid, af) /\ e.cnt # 0
  BY DEF load_fire
<1>3. PICK cnt : cnt = IF emit THEN curr_cnt - 1 ELSE curr_cnt
  OBVIOUS
<1>4. PICK pv : pv = IF emit THEN emit_value ELSE prev_value
  OBVIOUS
<1>5. PICK pk : pk = IF emit /\ curr_is_prng THEN (prng_k + 1) % Len(PrngOrbit) ELSE prng_k
  OBVIOUS
<1>6. emit => curr_cnt # 0
  BY <1>1 DEF can_emit
<1>7. Emitted(st, em2, cnt, pv, pk)
  <2>1. Emission(emit, emitted, em2, cnt, pv, pk)
    BY <1>1, <1>3, <1>4, <1>5 DEF Emission
  <2> QED
    BY <1>6, <2>1, EmitStep, Zenon
<1>8. PICK k \in Nat :
        /\ pk = k % Len(PrngOrbit)
        /\ st.k = IF "PRNG" \in curr_control THEN k + cnt ELSE k
        /\ st.prev = IF cnt = 0 THEN pv
                     ELSE IF "PRNG" \in curr_control THEN Rnd(k + cnt - 1) ELSE curr_value
        /\ st.out = em2 \o RunOf(curr_value, curr_control, k, cnt)
  BY <1>7, Zenon DEF Emitted
<1>9. load_fire(FALSE, FALSE, in_valid, af) => cnt = 0 /\ in_valid
  BY <1>0, <1>1, <1>3 DEF load_fire, can_load_next, finishing_run, can_emit
<1>10. load => load_base(af) = pv
  BY <1>0, <1>1, <1>2, <1>4
     DEF load_fire, can_load_next, load_base, finishing_run, can_emit
<1>11. /\ prev_value' = pv /\ prng_k' = pk
       /\ curr_value' = IF load THEN apply_op(load_base(af), e.val, e.mode) ELSE curr_value
       /\ curr_cnt' = IF load THEN e.cnt ELSE cnt
       /\ curr_control' = IF load THEN e.control ELSE curr_control
  <2>1. DecoderRun(in_valid, e, af)
    BY DEF DecoderTick
  <2>2. prng_k' = pk
    BY <1>1, <1>5 DEF DecoderTick
  <2> QED
    BY <1>1, <1>2, <1>3, <1>4, <2>1, <2>2 DEF DecoderRun
<1>12. CASE ~load
  <2>1. /\ prev_value' = pv /\ prng_k' = pk /\ curr_value' = curr_value /\ curr_cnt' = cnt
        /\ curr_control' = curr_control
    BY <1>11, <1>12
  <2>2. st2 = st
    <3>1. CASE load_fire(FALSE, FALSE, in_valid, af)
      <4>1. e.cnt = 0
        BY <1>2, <1>12, <3>1
      <4>2. SampleStep(st, e) = st
        BY <4>1, SampleStepIs
      <4> QED
        BY <3>1, <4>2
    <3>2. CASE ~load_fire(FALSE, FALSE, in_valid, af)
      BY <3>2
    <3> QED
      BY <3>1, <3>2
  <2>3. DecodesAt(st, em2)'
    BY <1>8, <2>1, Zenon DEF DecodesAt
  <2> QED
    BY <1>7, <2>2, <2>3 DEF Emitted
<1>13. CASE load
  <2>1. PICK v \in Word : v = apply_op(st.prev, e.val, e.mode)
    BY <1>0, OpIsWord
  <2>2. cnt = 0 /\ ~Is(e, "TRIGGER") /\ e.cnt # 0 /\ st2 = SampleStep(st, e)
    BY <1>2, <1>9, <1>13
  <2>3. st.prev = pv /\ st.k = k
    BY <1>8, <2>2
  <2>4. st.out = em2
    <3>1. RunOf(curr_value, curr_control, k, cnt) = <<>>
      <4>1. /\ RunOf(curr_value, curr_control, k, 0) \in Seq(OutWord)
            /\ Len(RunOf(curr_value, curr_control, k, 0)) = 0
        BY <1>0, RunIs
      <4> QED
        BY <2>2, <4>1
    <3>2. em2 \o <<>> = em2
      <4>1. em2 \in Seq(OutWord)
        BY <1>7 DEF Emitted
      <4> QED
        BY <4>1
    <3> QED
      BY <1>8, <3>1, <3>2
  <2>5. /\ curr_value' = v /\ curr_cnt' = e.cnt /\ curr_control' = e.control /\ prng_k' = pk
    BY <1>10, <1>11, <1>13, <2>1, <2>3
  <2>6. /\ st2.out = em2 \o RunOf(v, e.control, k, e.cnt)
        /\ st2.k = IF "PRNG" \in e.control THEN k + e.cnt ELSE k
        /\ st2.prev = IF "PRNG" \in e.control THEN Rnd(k + e.cnt - 1) ELSE v
    <3>1. /\ SampleStep(st, e).out
               = st.out \o RunOf(apply_op(st.prev, e.val, e.mode), e.control, st.k, e.cnt)
          /\ SampleStep(st, e).k = IF "PRNG" \in e.control THEN st.k + e.cnt ELSE st.k
          /\ SampleStep(st, e).prev
               = IF "PRNG" \in e.control THEN Rnd(st.k + e.cnt - 1)
                                         ELSE apply_op(st.prev, e.val, e.mode)
      BY <2>2, SampleStepIs
    <3> QED
      BY <2>1, <2>2, <2>3, <2>4, <3>1
  <2>7. DecodesAt(st2, em2)'
    <3>1. /\ prng_k' = k % Len(PrngOrbit)
          /\ st2.k = IF "PRNG" \in curr_control' THEN k + curr_cnt' ELSE k
          /\ st2.prev = IF curr_cnt' = 0 THEN prev_value'
                        ELSE IF "PRNG" \in curr_control' THEN Rnd(k + curr_cnt' - 1)
                        ELSE curr_value'
          /\ st2.out = em2 \o RunOf(curr_value', curr_control', k, curr_cnt')
      BY <1>8, <2>2, <2>5, <2>6
    <3> QED
      BY <3>1, Zenon DEF DecodesAt
  <2> QED
    BY <1>7, <2>7 DEF Emitted
<1> QED
  BY <1>12, <1>13

\* A list of words that goes on to no word after a terminator is a beginning of
\* the samples up to the first terminator, and all of them once it ends in one.
LEMMA CutAtTerminator ==
  ASSUME NEW ws \in Seq(OutWord), NEW x \in Seq(OutWord), IsPrefix(x, ws),
         \A i \in 1 .. (Len(x) - 1) : ~Is(x[i], "TERMINATE")
  PROVE  /\ IsPrefix(x, UpToTerminator(ws))
         /\ x # <<>> /\ Is(x[Len(x)], "TERMINATE") => x = UpToTerminator(ws)
<1> DEFINE ends == {n \in DOMAIN ws : Is(ws[n], "TERMINATE")}
<1>1. /\ Len(x) \in Nat /\ Len(ws) \in Nat /\ Len(x) <= Len(ws)
      /\ \A i \in 1 .. Len(x) : x[i] = ws[i]
  BY PrefixIs
<1>2. ends \subseteq 1 .. Len(ws) /\ ends \subseteq Nat
  OBVIOUS
<1>3. UpToTerminator(ws) = IF ends = {} THEN ws ELSE SubSeq(ws, 1, Min(ends))
  BY DEF UpToTerminator
<1>4. x # <<>> => Len(x) >= 1 /\ Len(x) \in 1 .. Len(ws) /\ x[Len(x)] = ws[Len(x)]
  <2>1. x # <<>> => Len(x) >= 1
    OBVIOUS
  <2> QED
    BY <1>1, <2>1
<1>5. CASE ends = {}
  <2>1. ~(x # <<>> /\ Is(x[Len(x)], "TERMINATE"))
    BY <1>4, <1>5
  <2> QED
    BY <1>3, <1>5, <2>1
<1>6. CASE ends # {}
  <2>1. PICK m \in ends : m = Min(ends) /\ \A n \in ends : m <= n
    <3>1. \E m \in ends : \A n \in ends : m <= n
      BY <1>2, <1>6, LeastNat
    <3>2. Min(ends) = CHOOSE m \in ends : \A n \in ends : m <= n
      BY DEF Min
    <3> HIDE DEF ends
    <3> QED
      BY <3>1, <3>2
  <2>2. m \in 1 .. Len(ws) /\ Is(ws[m], "TERMINATE")
    BY <1>2, <2>1
  <2>3. Len(x) <= m
    <3>1. ~(m \in 1 .. (Len(x) - 1))
      <4>1. m \in 1 .. (Len(x) - 1) => x[m] = ws[m]
        BY <1>1
      <4> QED
        BY <2>2, <4>1
    <3> QED
      BY <1>1, <2>2, <3>1
  <2>4. PICK y : y = SubSeq(ws, 1, m)
    OBVIOUS
  <2>5. y \in Seq(OutWord) /\ Len(y) = m /\ \A i \in 1 .. m : y[i] = ws[i]
    BY <2>2, <2>4
  <2>6. IsPrefix(x, y)
    BY <1>1, <2>2, <2>3, <2>5, PrefixIs
  <2>7. ASSUME x # <<>>, Is(x[Len(x)], "TERMINATE") PROVE x = y
    <3>1. Len(x) \in ends
      BY <1>4, <2>7
    <3>2. Len(x) = m
      BY <1>1, <2>1, <2>2, <2>3, <3>1
    <3> QED
      BY <1>1, <2>5, <3>2, SeqEqual
  <2> QED
    BY <1>3, <1>6, <2>1, <2>4, <2>6, <2>7
<1> QED
  BY <1>5, <1>6
-----------------------------------------------------------------------------
(***************************************************************************)
(* The flow of a program through the clk domain: c are the n elements      *)
(* taken from FIFO 2, together with FIFO 2 they are what the preprocessor  *)
(* has given away, and the words played, in the output FIFO and on their   *)
(* way to it are what the decoder has made of c.                           *)
(***************************************************************************)
Meaning(p) == Unrolled(p, [q \in Positions |-> Blank], 0)
Pending == IF out_wrreq THEN <<[data |-> out_data, control |-> out_control]>> ELSE <<>>
Written == (played \o out_fifo.q) \o Pending

Flow(p, sent, init, n, c) ==
  /\ n \in 0 .. Len(Meaning(p)) /\ c \in Seq(Element) /\ Len(c) = n
  /\ Delivers(p, 0, sent, c \o fifo2)
  /\ DecodesAt(Sampling(Meaning(p), init)[n], Written)
Flows(p, sent, init) == \E n, c : Flow(p, sent, init, n, c)

\* A program with a meaning that is a finite list.
Plays(p) ==
  /\ p \in Seq(Element) /\ StoresBeforeReplays(p)
  /\ \A k \in 1 .. Len(p) : Replays(p[k]) => p[k].cnt # 0

\* The programs of the source are such programs.
LEMMA ProgramsPlay == ASSUME NEW p \in Programs PROVE Plays(p)
<1>1. p \in Seq(Element) /\ DOMAIN p = 1 .. Len(p)
  BY ProgramsAssumption
<1> QED
  BY <1>1, StoredAssumption, FiniteAssumption DEF Plays

\* The meaning is a list of elements.
LEMMA MeaningIs == ASSUME NEW p, Plays(p) PROVE Meaning(p) \in Seq(Element)
<1>1. p \in Seq(Element) /\ 0 \in 0 .. Len(p) /\ 0 \in Nat
  BY DEF Plays
<1> QED
  BY <1>1, MeantExtends DEF Meaning

\* The element FIFO 2 shows is the next one of the meaning.
LEMMA NextElement ==
  ASSUME InputFifoInv, NEW p, Plays(p), NEW sent, NEW c \in Seq(Element),
         Delivers(p, 0, sent, c \o fifo2), fifo2 # <<>>
  PROVE  Len(c) + 1 \in 1 .. Len(Meaning(p)) /\ Head(fifo2) = Meaning(p)[Len(c) + 1]
<1>1. fifo2 \in Seq(Element)
  BY DEF InputFifoInv, InputFifoTypeOK
<1>2. PICK f \in Seq(Element) : f = fifo2 /\ f # <<>>
  BY <1>1
<1>3. PICK g \in Seq(Element) : g = c \o f
  BY <1>2, ConcatProperties
<1>4. PICK u \in Seq(Element) : u = Meaning(p)
  BY MeaningIs
<1>5. IsPrefix(g, g)
  <2>1. \A s \in Seq(Element) : IsPrefix(s, s)
    BY PrefixIs
  <2> QED
    BY <2>1, Zenon
<1>6. IsPrefix(g, u)
  <2>1. Delivers(p, 0, sent, g) /\ p \in Seq(Element) /\ StoresBeforeReplays(p) /\ 0 \in Nat
    BY <1>2, <1>3 DEF Plays
  <2>2. \A k \in 1 .. Len(p) : Replays(p[k]) => p[k].cnt # 0
    BY DEF Plays
  <2> QED
    BY <1>4, <1>5, <2>1, <2>2, DeliveredMeans DEF Meaning
<1>7. Len(g) <= Len(u) /\ \A i \in 1 .. Len(g) : g[i] = u[i]
  BY <1>6, PrefixIs
<1>8. Len(g) = Len(c) + Len(f) /\ Len(f) >= 1 /\ g[Len(c) + 1] = f[1]
  BY <1>2, <1>3
<1>9. Head(f) = f[1] /\ Len(c) \in Nat /\ Len(f) \in Nat /\ Len(u) \in Nat
  BY <1>2
<1>10. Len(c) + 1 \in 1 .. Len(u) /\ Len(c) + 1 \in 1 .. Len(g)
  BY <1>7, <1>8, <1>9
<1> QED
  BY <1>2, <1>4, <1>7, <1>8, <1>9, <1>10

\* The flow stays while FIFOs 1 and 2, the preprocessor and the decoder do and
\* the words only move on.
LEMMA FlowSame ==
  ASSUME NEW p, NEW sent, NEW init, Flows(p, sent, init),
         UNCHANGED inputFifoVars, UNCHANGED decoderVars, Written' = Written
  PROVE  Flows(p, sent, init)'
<1>1. PICK n, c : Flow(p, sent, init, n, c)
  BY DEF Flows
<1>2. PICK g : g = c \o fifo2
  OBVIOUS
<1>3. PICK w, st : w = Written /\ st = Sampling(Meaning(p), init)[n]
  OBVIOUS
<1>4. Delivers(p, 0, sent, g)'
  <2>1. Delivers(p, 0, sent, g)
    BY <1>1, <1>2 DEF Flow
  <2>2. UNCHANGED fifo1 /\ UNCHANGED preprocVars
    BY DEF inputFifoVars
  <2> QED
    BY <2>1, <2>2, ZenonT(60) DEF Delivers, QueueHolds, MemoryHolds, GivenMeans, ReplayPoint, Round, preprocVars
<1>5. DecodesAt(st, w)'
  <2>1. DecodesAt(st, w)
    BY <1>1, <1>3 DEF Flow
  <2> QED
    BY <2>1 DEF DecodesAt, decoderVars
<1>6. Flow(p, sent, init, n, c)'
  <2>1. Delivers(p, 0, sent, c \o fifo2)'
    <3>1. g = c \o fifo2'
      BY <1>2 DEF inputFifoVars
    <3> QED
      BY <1>4, <3>1
  <2>2. DecodesAt(Sampling(Meaning(p), init)[n], Written)'
    BY <1>3, <1>5
  <2> QED
    BY <1>1, <2>1, <2>2 DEF Flow
<1> QED
  BY <1>6 DEF Flows

\* The words of the output FIFO after a clk edge that finds room.
LEMMA OutFifoTakes ==
  ASSUME OutputFifoTypeOK, DecoderTypeOK, out_wrreq => ~wrfull(out_fifo, LENGTH_OUT),
         OutputWriteTick(FALSE, out_wrreq, [data |-> out_data, control |-> out_control]),
         NEW d \in Seq(OutWord)
  PROVE  /\ out_fifo.q \in Seq(OutWord) /\ (d \o out_fifo.q) \o Pending \in Seq(OutWord)
         /\ d \o out_fifo'.q = (d \o out_fifo.q) \o Pending
         /\ Len(out_fifo'.q) = IF out_wrreq THEN Len(out_fifo.q) + 1 ELSE Len(out_fifo.q)
<1>1. PICK q \in Seq(OutWord) : q = out_fifo.q
  BY DEF OutputFifoTypeOK, DcTypeOK
<1>2. PICK w \in OutWord : w = [data |-> out_data, control |-> out_control]
  BY DEF DecoderTypeOK, OutWord
<1>3. out_fifo'.q = IF out_wrreq THEN Append(q, w) ELSE q
  <2>1. out_fifo' \in DcWrite(out_fifo, LENGTH_OUT, out_wrreq, w)
    BY <1>2 DEF OutputWriteTick
  <2>2. PICK q2 : q2 = IF out_wrreq /\ ~wrfull(out_fifo, LENGTH_OUT) THEN Append(out_fifo.q, w)
                                                                   ELSE out_fifo.q
    OBVIOUS
  <2>3. PICK m : out_fifo' = [q |-> q2, vis |-> out_fifo.vis, freed |-> m]
    BY <2>1, <2>2 DEF DcWrite
  <2>4. out_fifo'.q = q2
    BY <2>3
  <2> QED
    BY <1>1, <2>2, <2>4
<1>4. Pending = IF out_wrreq THEN <<w>> ELSE <<>>
  BY <1>2 DEF Pending
<1>5. /\ Len(Append(q, w)) = Len(q) + 1 /\ d \o Append(q, w) = (d \o q) \o <<w>>
      /\ (d \o q) \o <<>> = d \o q /\ d \o q \in Seq(OutWord) /\ (d \o q) \o <<w>> \in Seq(OutWord)
  <2>1. PICK a \in Seq(OutWord) : a = d \o q
    BY <1>1, ConcatProperties
  <2>2. a \o <<>> = a /\ a \o <<w>> = Append(a, w) /\ Append(a, w) \in Seq(OutWord)
    BY <1>2
  <2>3. d \o Append(q, w) = Append(d \o q, w)
    <3>1. \A s \in Seq(OutWord), t \in Seq(OutWord), x \in OutWord :
            s \o Append(t, x) = Append(s \o t, x)
      BY AppendSecond
    <3> QED
      BY <3>1, Zenon
  <2>4. Len(Append(q, w)) = Len(q) + 1
    BY <1>2
  <2> QED
    BY <2>1, <2>2, <2>3, <2>4
<1>6. CASE out_wrreq
  BY <1>1, <1>3, <1>4, <1>5, <1>6
<1>7. CASE ~out_wrreq
  BY <1>1, <1>3, <1>4, <1>5, <1>7
<1> QED
  BY <1>6, <1>7

\* What is written, with the sample a decoder may emit at this edge.
LEMMA WrittenNext ==
  ASSUME OutputFifoTypeOK, DecoderTypeOK, out_wrreq => ~wrfull(out_fifo, LENGTH_OUT),
         OutputWriteTick(FALSE, out_wrreq, [data |-> out_data, control |-> out_control]),
         played \in Seq(OutWord), played' = played
  PROVE  /\ Written \in Seq(OutWord)
         /\ Written' = Written \o Pending'
<1>1. PICK d \in Seq(OutWord) : d = played
  OBVIOUS
<1>2. /\ (d \o out_fifo.q) \o Pending \in Seq(OutWord)
      /\ d \o out_fifo'.q = (d \o out_fifo.q) \o Pending
  BY OutFifoTakes
<1>3. Written = (d \o out_fifo.q) \o Pending /\ Written' = (d \o out_fifo'.q) \o Pending'
  BY <1>1 DEF Written
<1> QED
  BY <1>2, <1>3

\* A posedge of clk outside reset and reload keeps the flow: the decoder takes
\* the next element of the meaning, or the trigger chain does.
LEMMA ClkFlow ==
  ASSUME PartsInv, played \in Seq(OutWord), played' = played,
         out_wrreq => ~wrfull(out_fifo, LENGTH_OUT),
         NEW p, Plays(p), NEW init \in Word, NEW sent, Flows(p, sent, init),
         NEW valid \in BOOLEAN, NEW data \in Element,
         wrreq1(valid) => sent < Len(p) /\ data = p[sent + 1],
         ClkEdge(FALSE, valid, data, FALSE, init),
         NEW sent2, sent2 = IF wrreq1(valid) THEN sent + 1 ELSE sent
  PROVE  Flows(p, sent2, init)'
<1>0. /\ InputFifoInv /\ DecoderTypeOK /\ OutputFifoTypeOK /\ fifo2 \in Seq(Element)
      /\ q_i \in Element /\ out_almost_full \in BOOLEAN
      /\ p \in Seq(Element) /\ StoresBeforeReplays(p)
  BY InputSignals DEF PartsInv, InputFifoInv, InputFifoTypeOK, OutputFifoTypeOK, Plays
<1>1. PICK n, c : Flow(p, sent, init, n, c)
  BY DEF Flows
<1>2. PICK u \in Seq(Element) : u = Meaning(p)
  BY MeaningIs
<1>3. /\ n \in 0 .. Len(u) /\ c \in Seq(Element) /\ Len(c) = n
      /\ Delivers(p, 0, sent, c \o fifo2)
      /\ DecodesAt(Sampling(u, init)[n], Written)
  BY <1>1, <1>2 DEF Flow
<1>4. PICK rl \in BOOLEAN : rl <=> load_fire(FALSE, FALSE, in_valid_data, out_almost_full)
  BY DEF load_fire
<1>5. PICK rd \in BOOLEAN : rd <=> rl \/ rdreq_chain_trigger
  OBVIOUS
<1>6. InputFifoTick(FALSE, data, valid, rd)
  <2>1. rd = (load_fire(FALSE, FALSE, in_valid_data, out_almost_full) \/ rdreq_chain_trigger)
    BY <1>4, <1>5
  <2> QED
    BY <2>1 DEF ClkEdge
<1>7. rd => ~empty_i
  BY <1>4, <1>5 DEF load_fire, in_valid_data, rdreq_chain_trigger, in_valid_chain
<1>8. PICK d : d = IF rd /\ ~empty_i THEN Append(c, q_i) ELSE c
  OBVIOUS
<1>9. d \in Seq(Element) /\ d \o fifo2' = IF wrreq2 THEN Append(c \o fifo2, dout(q1)) ELSE c \o fifo2
  <2>1. fifo2' = ScNext(fifo2, LENGTH2, wrreq2, dout(q1), rd)
    BY <1>6 DEF InputFifoTick
  <2> QED
    BY <1>0, <1>3, <1>8, <2>1, PopKeepsOrder
<1>10. Delivers(p, 0, sent2, d \o fifo2)'
  <2>1. PICK g \in Seq(Element) : g = c \o fifo2
    BY <1>0, <1>3, ConcatProperties
  <2>2. PICK g2 : g2 = IF wrreq2 THEN Append(g, dout(q1)) ELSE g
    OBVIOUS
  <2>3. Delivers(p, 0, sent, g) /\ 0 \in Nat
    BY <1>3, <2>1
  <2>4. Delivers(p, 0, sent2, g2)'
    BY <1>0, <1>6, <2>2, <2>3, DeliverStep
  <2>5. g2 = d \o fifo2'
    BY <1>9, <2>1, <2>2
  <2> QED
    BY <2>4, <2>5
<1>11. PICK n2 : n2 = IF rd THEN n + 1 ELSE n
  OBVIOUS
<1>12. rd => n + 1 \in 1 .. Len(u) /\ q_i = u[n + 1]
  <2>1. ~empty_i => Len(c) + 1 \in 1 .. Len(Meaning(p)) /\ Head(fifo2) = Meaning(p)[Len(c) + 1]
    BY <1>0, <1>3, NextElement DEF empty_i
  <2> QED
    BY <1>2, <1>3, <1>7, <2>1 DEF q_i
<1>13. n2 \in 0 .. Len(u) /\ Len(d) = n2
  <2>1. Len(u) \in Nat /\ n \in Nat
    BY <1>3
  <2>2. Len(Append(c, q_i)) = Len(c) + 1
    BY <1>0, <1>3
  <2>3. CASE rd
    BY <1>3, <1>7, <1>8, <1>11, <1>12, <2>1, <2>2, <2>3
  <2>4. CASE ~rd
    BY <1>3, <1>8, <1>11, <2>4
  <2> QED
    BY <2>3, <2>4
<1>14. PICK st \in Samplings : st = Sampling(u, init)[n]
  BY <1>3, SampleTable
<1>15. PICK e \in Element : e = q_i
  BY <1>0
<1>16. Sampling(u, init)[n2] = IF rl THEN SampleStep(st, e) ELSE st
  <2>1. CASE rd
    <3>1. Sampling(u, init)[n + 1] = SampleStep(st, e)
      <4>1. n + 1 \in 1 .. Len(u) /\ (n + 1) - 1 = n
        BY <1>3, <1>12, <2>1
      <4>2. Sampling(u, init)[n + 1] = SampleStep(Sampling(u, init)[(n + 1) - 1], u[n + 1])
        BY <4>1, SampleTable
      <4> QED
        BY <1>12, <1>14, <1>15, <2>1, <4>1, <4>2
    <3>2. CASE rl
      BY <1>11, <2>1, <3>1, <3>2
    <3>3. CASE ~rl
      <4>1. Is(e, "TRIGGER")
        BY <1>5, <1>15, <2>1, <3>3 DEF rdreq_chain_trigger, in_valid_chain
      <4>2. SampleStep(st, e) = st
        BY <4>1, SampleStepIs
      <4> QED
        BY <1>11, <2>1, <3>1, <3>3, <4>2
    <3> QED
      BY <3>2, <3>3
  <2>2. CASE ~rd
    BY <1>5, <1>11, <1>14, <2>2
  <2> QED
    BY <2>1, <2>2
<1>17. Written \in Seq(OutWord) /\ Written' = Written \o Pending'
  <2>1. OutputWriteTick(FALSE, out_wrreq, [data |-> out_data, control |-> out_control])
    BY DEF ClkEdge
  <2> QED
    BY <1>0, <2>1, WrittenNext
<1>18. PICK w \in Seq(OutWord) : w = Written
  BY <1>17
<1>19. PICK x : x = [data |-> emit_value, control |-> curr_control]
  OBVIOUS
<1>20. PICK w2 : w2 = IF can_emit(out_almost_full) THEN Append(w, x) ELSE w
  OBVIOUS
<1>21. PICK iv \in BOOLEAN, af \in BOOLEAN : iv = in_valid_data /\ af = out_almost_full
  BY <1>0 DEF in_valid_data
<1>22. DecoderTick(FALSE, FALSE, iv, e, init, af)
  BY <1>15, <1>21 DEF ClkEdge
<1>23. PICK st2 : st2 = IF load_fire(FALSE, FALSE, iv, af) THEN SampleStep(st, e) ELSE st
  OBVIOUS
<1>24. w2 \in Seq(OutWord) /\ DecodesAt(st2, w2)'
  <2>1. DecodesAt(st, w)
    BY <1>3, <1>14, <1>18
  <2>2. iv => ~Is(e, "TRIGGER")
    BY <1>15, <1>21 DEF in_valid_data
  <2>3. w2 = IF can_emit(af) THEN Append(w, [data |-> emit_value, control |-> curr_control]) ELSE w
    BY <1>19, <1>20, <1>21
  <2> QED
    <3>1. Decoding(st, e, iv, af, st2, w, w2)
      BY <1>23, <2>3 DEF Decoding
    <3>2. DecoderTypeOK
      BY <1>0
    <3> QED
      BY <1>22, <2>1, <2>2, <3>1, <3>2, DecodeStep, ZenonT(60)
<1>25. st2 = Sampling(u, init)[n2]
  BY <1>4, <1>16, <1>21, <1>23
<1>26. w2 = Written'
  <2>1. /\ can_emit(out_almost_full) => Pending' = <<x>>
        /\ ~can_emit(out_almost_full) => Pending' = <<>>
    BY <1>19, <1>21, <1>22 DEF DecoderTick, DecoderRun, Pending
  <2>2. x \in OutWord
    <3>1. emit_value \in Word /\ curr_control \in SUBSET ControlBits
      BY <1>0, RndIsWord DEF DecoderTypeOK, emit_value
    <3> QED
      BY <1>19, <3>1 DEF OutWord
  <2>3. w \o <<x>> = Append(w, x) /\ w \o <<>> = w
    BY <2>2
  <2> QED
    BY <1>17, <1>18, <1>20, <2>1, <2>3
<1>27. Flow(p, sent2, init, n2, d)'
  <2>1. DecodesAt(Sampling(Meaning(p), init)[n2], Written)'
    BY <1>2, <1>24, <1>25, <1>26
  <2> QED
    BY <1>2, <1>9, <1>10, <1>13, <2>1 DEF Flow
<1> QED
  BY <1>27 DEF Flows
-----------------------------------------------------------------------------
(***************************************************************************)
(* The start of a program.                                                 *)
(***************************************************************************)
\* Nothing of the program is anywhere in the streamer.
NothingSent ==
  /\ fifo2 = <<>> /\ played = <<>> /\ out_fifo.q = <<>> /\ ~out_wrreq
  /\ curr_cnt = 0 /\ prng_k = 0

\* The word on its way to the output FIFO, if there is one.
LEMMA PendingIs == ASSUME DecoderTypeOK PROVE Pending \in Seq(OutWord)
<1>1. [data |-> out_data, control |-> out_control] \in OutWord
  BY DEF DecoderTypeOK, OutWord
<1>2. PICK w \in OutWord : w = [data |-> out_data, control |-> out_control]
  BY <1>1
<1>3. <<w>> \in Seq(OutWord)
  OBVIOUS
<1>4. Pending = IF out_wrreq THEN <<w>> ELSE <<>>
  BY <1>2 DEF Pending
<1> QED
  BY <1>3, <1>4

\* While the source has sent nothing, nothing is on its way or played.
LEMMA NothingYet ==
  ASSUME IInv, NEW p, Plays(p), NEW init \in Word, Flows(p, 0, init)
  PROVE  NothingSent /\ Flow(p, 0, init, 0, <<>>)
<1>0. /\ InputFifoInv /\ DecoderTypeOK /\ fifo1 \in Seq(Element) /\ fifo2 \in Seq(Element)
      /\ p \in Seq(Element) /\ 0 \in Nat
      /\ played \in Seq(OutWord) /\ out_fifo.q \in Seq(OutWord)
  BY DEF IInv, TypeOK, InputFifoInv, InputFifoTypeOK, OutputFifoTypeOK, DcTypeOK, Plays
<1>1. PICK n, c : Flow(p, 0, init, n, c)
  BY DEF Flows
<1>2. /\ n \in 0 .. Len(Meaning(p)) /\ c \in Seq(Element) /\ Len(c) = n
      /\ Delivers(p, 0, 0, c \o fifo2)
      /\ DecodesAt(Sampling(Meaning(p), init)[n], Written)
  BY <1>1 DEF Flow
<1>3. PICK k \in 0 .. Len(p) : QueueHolds(p, 0, k) /\ GivenMeans(p, 0, k, c \o fifo2)
  BY <1>2 DEF Delivers
<1>4. k = 0
  <2>1. 0 = k + Len(fifo1) /\ Len(fifo1) \in Nat /\ k \in Nat
    BY <1>0, <1>3 DEF QueueHolds
  <2> QED
    BY <2>1
<1>5. c \o fifo2 = <<>>
  <2>1. ~active
    BY <1>3, <1>4 DEF GivenMeans, ReplayPoint
  <2>2. Meant(p, 0, 0).out = <<>>
    BY <1>0, MeantIs DEF UnrollStart
  <2> QED
    BY <1>3, <1>4, <2>1, <2>2 DEF GivenMeans
<1>6. c = <<>> /\ fifo2 = <<>> /\ n = 0
  <2>1. Len(c) + Len(fifo2) = 0 /\ Len(c) \in Nat /\ Len(fifo2) \in Nat
    BY <1>0, <1>2, <1>5
  <2>2. Len(c) = 0 /\ Len(fifo2) = 0
    BY <2>1
  <2> QED
    BY <1>0, <1>2, <2>2
<1>7. Sampling(Meaning(p), init)[0] = SampleStart(init)
  BY MeaningIs, SampleTable
<1>8. PICK w \in Seq(OutWord) : w = Written
  <2>1. played \o out_fifo.q \in Seq(OutWord)
    BY <1>0
  <2>2. Written \in Seq(OutWord)
    BY <1>0, <2>1, PendingIs DEF Written
  <2> QED
    BY <2>2
<1>9. PICK j \in Nat :
        /\ prng_k = j % Len(PrngOrbit)
        /\ 0 = IF "PRNG" \in curr_control THEN j + curr_cnt ELSE j
        /\ <<>> = w \o RunOf(curr_value, curr_control, j, curr_cnt)
  <2>1. DecodesAt(SampleStart(init), w)
    BY <1>2, <1>6, <1>7, <1>8
  <2>2. SampleStart(init).k = 0 /\ SampleStart(init).out = <<>>
    BY DEF SampleStart
  <2> QED
    BY <2>1, <2>2 DEF DecodesAt, curr_is_prng
<1>10. w = <<>> /\ curr_cnt = 0 /\ j = 0
  <2>1. curr_cnt \in Nat /\ curr_value \in Word /\ curr_control \in SUBSET ControlBits
    BY <1>0 DEF DecoderTypeOK
  <2>2. PICK r \in Seq(OutWord) :
          r = RunOf(curr_value, curr_control, j, curr_cnt) /\ Len(r) = curr_cnt
    BY <2>1, RunIs
  <2>3. Len(w) + Len(r) = 0 /\ Len(w) \in Nat /\ Len(r) \in Nat
    BY <1>9, <2>2
  <2>4. Len(w) = 0 /\ Len(r) = 0
    BY <2>3
  <2> QED
    BY <1>9, <2>1, <2>2, <2>4
<1>11. prng_k = 0
  BY <1>9, <1>10, PrngAssumption
<1>12. played = <<>> /\ out_fifo.q = <<>> /\ ~out_wrreq
  <2>1. PICK x \in Seq(OutWord) : x = Pending
    BY <1>0, PendingIs
  <2>2. PICK a \in Seq(OutWord), b \in Seq(OutWord) : a = played /\ b = out_fifo.q
    BY <1>0
  <2>3. (a \o b) \o x = <<>>
    BY <1>8, <1>10, <2>1, <2>2 DEF Written
  <2>4. a = <<>> /\ b = <<>> /\ x = <<>>
    <3>1. Len(a) + Len(b) + Len(x) = 0 /\ Len(a) \in Nat /\ Len(b) \in Nat /\ Len(x) \in Nat
      BY <2>3
    <3>2. Len(a) = 0 /\ Len(b) = 0 /\ Len(x) = 0
      BY <3>1
    <3> QED
      BY <3>2
  <2>5. out_wrreq => Len(Pending) = 1
    BY DEF Pending
  <2> QED
    BY <2>1, <2>2, <2>4, <2>5
<1> QED
  BY <1>1, <1>6, <1>10, <1>11, <1>12 DEF NothingSent

\* A decoder that starts from the initial value has made nothing of nothing.
LEMMA DecodesStart ==
  ASSUME NEW init, NEW v \in Word, NEW cc \in SUBSET ControlBits
  PROVE  /\ 0 = 0 % Len(PrngOrbit)
         /\ SampleStart(init).k = IF "PRNG" \in cc THEN 0 + 0 ELSE 0
         /\ SampleStart(init).prev = init
         /\ SampleStart(init).out = <<>> \o RunOf(v, cc, 0, 0)
<1>1. PICK r \in Seq(OutWord) : r = RunOf(v, cc, 0, 0) /\ Len(r) = 0
  BY RunIs
<1>2. r = <<>> /\ <<>> \o r = <<>>
  BY <1>1
<1> QED
  BY <1>1, <1>2, PrngAssumption DEF SampleStart

\* After the reset, the flow of the next program starts with nothing.
LEMMA RestartFlow ==
  ASSUME IInv, NEW p, Plays(p), NEW init \in Word,
         ClkEdge(TRUE, FALSE, Blank, FALSE, init), played' = <<>>
  PROVE  Flows(p, 0, init)' /\ out_ctr_in' = 0
<1>1. Delivers(p, 0, 0, <<>>)'
  <2>1. fifo1' = <<>> /\ memory_valid' = {} /\ active' = FALSE
    BY DEF ClkEdge, InputFifoTick, PreprocTick, PreprocReset
  <2>2. p \in Seq(Element) /\ 0 \in Nat
    BY DEF Plays
  <2> QED
    BY <2>1, <2>2, DeliverRestart
<1>2. /\ fifo2' = <<>> /\ out_fifo' = DcCleared /\ out_ctr_in' = 0
      /\ prev_value' = init /\ curr_value' = {} /\ curr_cnt' = 0 /\ curr_control' = {}
      /\ out_wrreq' = FALSE /\ prng_k' = 0
  BY DEF ClkEdge, InputFifoTick, OutputWriteTick, DecoderTick, DecoderReload
<1>3. Written' = <<>>
  <2>1. out_fifo'.q = <<>>
    BY <1>2 DEF DcCleared
  <2>2. Pending' = <<>>
    BY <1>2 DEF Pending
  <2>3. (<<>> \o <<>>) \o <<>> = <<>>
    OBVIOUS
  <2> QED
    BY <2>1, <2>2, <2>3 DEF Written
<1>4. DecodesAt(SampleStart(init), <<>>)'
  <2>1. /\ 0 = 0 % Len(PrngOrbit)
        /\ SampleStart(init).k = IF "PRNG" \in {} THEN 0 + 0 ELSE 0
        /\ SampleStart(init).prev = init
        /\ SampleStart(init).out = <<>> \o RunOf({}, {}, 0, 0)
    <3>1. {} \in Word /\ {} \in SUBSET ControlBits
      BY DEF Word
    <3> QED
      BY <3>1, DecodesStart
  <2> QED
    BY <1>2, <2>1 DEF DecodesAt
<1>5. Flow(p, 0, init, 0, <<>>)'
  <2>1. 0 \in 0 .. Len(Meaning(p)) /\ <<>> \in Seq(Element) /\ Len(<<>>) = 0
    <3>1. Len(Meaning(p)) \in Nat
      BY MeaningIs
    <3> QED
      BY <3>1
  <2>2. Delivers(p, 0, 0, <<>> \o fifo2)'
    <3>1. <<>> \o fifo2' = <<>>
      BY <1>2
    <3> QED
      BY <1>1, <3>1
  <2>3. Sampling(Meaning(p), init)[0] = SampleStart(init)
    BY MeaningIs, SampleTable
  <2> QED
    BY <1>3, <1>4, <2>1, <2>2, <2>3 DEF Flow
<1> QED
  BY <1>2, <1>5 DEF Flows

\* A reload of the initial value, before anything is sent, starts the flow
\* from the new value.
LEMMA ReloadFlow ==
  ASSUME IInv, NEW p, Plays(p), NEW old \in Word, Flows(p, 0, old), NEW init \in Word,
         ClkEdge(FALSE, FALSE, Blank, TRUE, init), played' = played
  PROVE  /\ Flows(p, 0, init)' /\ out_fifo'.q = <<>> /\ out_ctr_in' = out_ctr_in
<1>0. /\ InputFifoInv /\ DecoderTypeOK /\ OutputFifoTypeOK
      /\ p \in Seq(Element) /\ StoresBeforeReplays(p) /\ 0 \in Nat
      /\ Blank \in Element /\ played \in Seq(OutWord)
  BY BlankIsElement DEF IInv, TypeOK, Plays
<1>1. NothingSent /\ Flow(p, 0, old, 0, <<>>)
  BY NothingYet
<1>2. PICK rd \in BOOLEAN :
        rd = (load_fire(FALSE, TRUE, in_valid_data, out_almost_full) \/ rdreq_chain_trigger)
  OBVIOUS
<1>3. InputFifoTick(FALSE, Blank, FALSE, rd) /\ ~wrreq1(FALSE)
  BY <1>2 DEF ClkEdge, wrreq1
<1>4. ~(rd /\ ~empty_i)
  BY <1>1 DEF NothingSent, empty_i
<1>5. Delivers(p, 0, 0, <<>> \o fifo2)'
  <2>1. PICK g \in Seq(Element) : g = <<>> \o fifo2
    <3>1. fifo2 \in Seq(Element)
      BY <1>0 DEF InputFifoInv, InputFifoTypeOK
    <3> QED
      BY <3>1
  <2>2. PICK g2 : g2 = IF wrreq2 THEN Append(g, dout(q1)) ELSE g
    OBVIOUS
  <2>3. Delivers(p, 0, 0, g)
    BY <1>1, <2>1 DEF Flow
  <2>4. PICK s2 : s2 = IF wrreq1(FALSE) THEN 0 + 1 ELSE 0
    OBVIOUS
  <2>5. Delivers(p, 0, s2, g2)'
    BY <1>0, <1>3, <2>2, <2>3, <2>4, DeliverStep
  <2>6. g2 = <<>> \o fifo2'
    <3>1. PICK d : d = IF rd /\ ~empty_i THEN Append(<<>>, q_i) ELSE <<>>
      OBVIOUS
    <3>2. fifo2' = ScNext(fifo2, LENGTH2, wrreq2, dout(q1), rd)
      BY <1>3 DEF InputFifoTick
    <3>3. PICK c \in Seq(Element) : c = <<>>
      <4>1. <<>> \in Seq(Element)
        OBVIOUS
      <4> QED
        BY <4>1
    <3>4. d \o fifo2' = IF wrreq2 THEN Append(c \o fifo2, dout(q1)) ELSE c \o fifo2
      BY <1>0, <3>1, <3>2, <3>3, PopKeepsOrder
    <3>5. d = <<>>
      BY <1>4, <3>1
    <3> QED
      BY <2>1, <2>2, <3>3, <3>4, <3>5
  <2> QED
    BY <1>3, <2>4, <2>5, <2>6
<1>6. /\ prev_value' = init /\ curr_value' = {} /\ curr_cnt' = 0 /\ curr_control' = {}
      /\ out_wrreq' = FALSE /\ prng_k' = 0
  BY <1>1 DEF ClkEdge, DecoderTick, DecoderReload, NothingSent, can_emit
<1>7. Written' = <<>> /\ out_fifo'.q = <<>> /\ out_ctr_in' = out_ctr_in
  <2>1. OutputWriteTick(FALSE, out_wrreq, [data |-> out_data, control |-> out_control])
    BY DEF ClkEdge
  <2>2. /\ Len(out_fifo'.q) = IF out_wrreq THEN Len(out_fifo.q) + 1 ELSE Len(out_fifo.q)
        /\ <<>> \o out_fifo'.q = (<<>> \o out_fifo.q) \o Pending
    <3>1. PICK d \in Seq(OutWord) : d = <<>>
      <4>1. <<>> \in Seq(OutWord)
        OBVIOUS
      <4> QED
        BY <4>1
    <3>2. /\ Len(out_fifo'.q) = IF out_wrreq THEN Len(out_fifo.q) + 1 ELSE Len(out_fifo.q)
          /\ d \o out_fifo'.q = (d \o out_fifo.q) \o Pending
      BY <1>0, <2>1, NeverDrops, OutFifoTakes
    <3> QED
      BY <3>1, <3>2
  <2>3. out_fifo'.q \in Seq(OutWord)
    <3>1. out_fifo' \in DcWrite(out_fifo, LENGTH_OUT, out_wrreq, [data |-> out_data, control |-> out_control])
      BY <2>1 DEF OutputWriteTick
    <3>2. /\ [data |-> out_data, control |-> out_control] \in OutWord /\ LENGTH_OUT \in Nat
          /\ DcTypeOK(out_fifo, OutWord, LENGTH_OUT) /\ out_wrreq \in BOOLEAN
      BY <1>0, OutputFifoAssumption DEF DecoderTypeOK, OutWord, OutputFifoTypeOK
    <3>3. DcTypeOK(out_fifo', OutWord, LENGTH_OUT)
      BY <3>1, <3>2, DcWriteFacts
    <3> QED
      BY <3>3 DEF DcTypeOK
  <2>4. out_fifo'.q = <<>>
    BY <1>1, <2>2, <2>3 DEF NothingSent
  <2>5. Pending' = <<>>
    BY <1>6 DEF Pending
  <2>6. (<<>> \o <<>>) \o <<>> = <<>>
    OBVIOUS
  <2>7. Written' = <<>>
    BY <1>1, <2>4, <2>5, <2>6 DEF Written, NothingSent
  <2>8. out_ctr_in' = out_ctr_in
    BY <1>1, <2>1 DEF OutputWriteTick, NothingSent, Bump
  <2> QED
    BY <2>4, <2>7, <2>8
<1>8. DecodesAt(SampleStart(init), <<>>)'
  <2>1. /\ 0 = 0 % Len(PrngOrbit)
        /\ SampleStart(init).k = IF "PRNG" \in {} THEN 0 + 0 ELSE 0
        /\ SampleStart(init).prev = init
        /\ SampleStart(init).out = <<>> \o RunOf({}, {}, 0, 0)
    <3>1. {} \in Word /\ {} \in SUBSET ControlBits
      BY DEF Word
    <3> QED
      BY <3>1, DecodesStart
  <2> QED
    BY <1>6, <2>1 DEF DecodesAt
<1>9. Flow(p, 0, init, 0, <<>>)'
  <2>1. 0 \in 0 .. Len(Meaning(p)) /\ <<>> \in Seq(Element) /\ Len(<<>>) = 0
    <3>1. Len(Meaning(p)) \in Nat
      BY MeaningIs
    <3> QED
      BY <3>1
  <2>2. Sampling(Meaning(p), init)[0] = SampleStart(init)
    BY MeaningIs, SampleTable
  <2> QED
    BY <1>5, <1>7, <1>8, <2>1, <2>2 DEF Flow
<1> QED
  BY <1>7, <1>9 DEF Flows

\* At power-up, too, the flow starts with nothing.
LEMMA StartFlow ==
  ASSUME Init PROVE Flows(prog, 0, initial_value)
<1>0. /\ Plays(prog) /\ initial_value \in Word /\ prog \in Seq(Element) /\ 0 \in Nat
  BY ProgramsPlay, InitialAssumption, ProgramsAssumption DEF Init
<1>1. Delivers(prog, 0, 0, <<>>)
  <2>1. fifo1 = <<>> /\ memory_valid = {} /\ ~active
    BY DEF Init, InputFifoInit, PreprocInit
  <2> QED
    BY <1>0, <2>1, DeliverStart
<1>2. /\ fifo2 = <<>> /\ out_fifo = DcCleared /\ played = <<>>
      /\ prev_value = initial_value /\ curr_value = {} /\ curr_cnt = 0 /\ curr_control = {}
      /\ out_wrreq = FALSE /\ prng_k = 0
  BY DEF Init, InputFifoInit, OutputFifoInit, DecoderInit
<1>3. Written = <<>>
  <2>1. out_fifo.q = <<>>
    BY <1>2 DEF DcCleared
  <2>2. Pending = <<>>
    BY <1>2 DEF Pending
  <2>3. (<<>> \o <<>>) \o <<>> = <<>>
    OBVIOUS
  <2> QED
    BY <1>2, <2>1, <2>2, <2>3 DEF Written
<1>4. DecodesAt(SampleStart(initial_value), <<>>)
  <2>1. /\ 0 = 0 % Len(PrngOrbit)
        /\ SampleStart(initial_value).k = IF "PRNG" \in {} THEN 0 + 0 ELSE 0
        /\ SampleStart(initial_value).prev = initial_value
        /\ SampleStart(initial_value).out = <<>> \o RunOf({}, {}, 0, 0)
    <3>1. {} \in Word /\ {} \in SUBSET ControlBits
      BY DEF Word
    <3> QED
      BY <3>1, DecodesStart
  <2> QED
    BY <1>2, <2>1 DEF DecodesAt
<1>5. Flow(prog, 0, initial_value, 0, <<>>)
  <2>1. 0 \in 0 .. Len(Meaning(prog)) /\ <<>> \in Seq(Element) /\ Len(<<>>) = 0
    <3>1. Len(Meaning(prog)) \in Nat
      BY <1>0, MeaningIs
    <3> QED
      BY <3>1
  <2>2. Sampling(Meaning(prog), initial_value)[0] = SampleStart(initial_value)
    BY <1>0, MeaningIs, SampleTable
  <2>3. <<>> \o fifo2 = <<>>
    BY <1>2
  <2> QED
    BY <1>1, <1>3, <1>4, <2>1, <2>2, <2>3 DEF Flow
<1> QED
  BY <1>5 DEF Flows
-----------------------------------------------------------------------------
(***************************************************************************)
(* The read side: what its registers say about the words played.           *)
(***************************************************************************)
\* A terminator is the last word, terminal_seen says that it is there, and done
\* that there was no underrun before it.
EndTold ==
  /\ \A i \in 1 .. (Len(played) - 1) : ~Is(played[i], "TERMINATE")
  /\ terminal_seen <=> (played # <<>> /\ Is(played[Len(played)], "TERMINATE"))
  /\ done => terminal_seen /\ ~buffer_error
  /\ terminal_seen /\ ~done => buffer_error

\* The two counters tell how many words the FIFO holds.
WordsTold == Tells(2^WIDTH_STAT, out_ctr_in, out_ctr_out, Len(out_fifo.q))

\* The output register holds the last word shown, if there is one.
LatchTold ==
  /\ trigger_latch <=> ShownWords # {}
  /\ trigger_latch => qout_fifo = played[Max(ShownWords)].data

ReadInv == EndTold /\ WordsTold /\ LatchTold

\* A read takes the first word of the FIFO, and nothing else does.
LEMMA ReadTakes ==
  ASSUME OutputFifoTypeOK, NEW rdrst \in BOOLEAN, NEW rdreq \in BOOLEAN, OutputReadTick(rdrst, rdreq)
  PROVE  /\ read_fire(rdreq) => /\ out_fifo.q # <<>> /\ qc = Head(out_fifo.q)
                                /\ out_fifo'.q = Tail(out_fifo.q)
         /\ ~read_fire(rdreq) => out_fifo'.q = out_fifo.q
<1>1. DcTypeOK(out_fifo, OutWord, LENGTH_OUT)
  BY DEF OutputFifoTypeOK
<1>2. out_fifo' \in DcRead(out_fifo, rdreq_nrr(rdreq))
  BY DEF OutputReadTick
<1>3. CASE read_fire(rdreq)
  <2>1. rdreq_nrr(rdreq) /\ ~rdempty(out_fifo)
    BY <1>3 DEF read_fire, out_empty
  <2>2. PICK m : out_fifo' = [q |-> Tail(out_fifo.q), vis |-> m, freed |-> out_fifo.freed + 1]
    BY <1>2, <2>1 DEF DcRead
  <2>3. out_fifo.q # <<>>
    <3>1. /\ out_fifo.vis \in Nat /\ out_fifo.vis # 0 /\ out_fifo.vis <= Len(out_fifo.q)
          /\ out_fifo.q \in Seq(OutWord)
      BY <1>1, <2>1 DEF DcTypeOK, rdempty
    <3> QED
      BY <3>1
  <2>4. qc = Head(out_fifo.q)
    BY <2>1 DEF qc, out_empty
  <2>5. out_fifo'.q = Tail(out_fifo.q)
    BY <2>2
  <2> QED
    BY <1>3, <2>3, <2>4, <2>5
<1>4. CASE ~read_fire(rdreq)
  <2>1. ~(rdreq_nrr(rdreq) /\ ~rdempty(out_fifo))
    BY <1>4 DEF read_fire, out_empty
  <2>2. PICK m : out_fifo' = [out_fifo EXCEPT !.vis = m]
    BY <1>2, <2>1 DEF DcRead
  <2>3. out_fifo'.q = out_fifo.q
    BY <1>1, <2>2 DEF DcTypeOK
  <2> QED
    BY <1>4, <2>3
<1> QED
  BY <1>3, <1>4

\* The word a read takes is appended to the words played.
PlaysOn(fire, w) == played' = IF fire THEN Append(played, w) ELSE played

\* A word read moves from the FIFO to the words played.
LEMMA ReadMoves ==
  ASSUME OutputFifoTypeOK, played \in Seq(OutWord), NEW rdreq \in BOOLEAN,
         OutputReadTick(FALSE, rdreq), PlaysOn(read_fire(rdreq), qc), UNCHANGED decoderVars
  PROVE  Written' = Written
<1>1. PICK q \in Seq(OutWord), d \in Seq(OutWord) : q = out_fifo.q /\ d = played
  BY DEF OutputFifoTypeOK, DcTypeOK
<1>2. /\ read_fire(rdreq) => q # <<>> /\ qc = Head(q) /\ out_fifo'.q = Tail(q)
      /\ ~read_fire(rdreq) => out_fifo'.q = q
  BY <1>1, ReadTakes
<1>3. played' \o out_fifo'.q = d \o q
  <2>1. CASE read_fire(rdreq)
    <3>1. Append(d, Head(q)) \o Tail(q) = d \o q
      <4>1. \A x \in Seq(OutWord), y \in Seq(OutWord) :
              y # <<>> => Append(x, Head(y)) \o Tail(y) = x \o y
        BY MoveElementOver
      <4> QED
        BY <1>2, <2>1, <4>1
    <3> QED
      BY <1>1, <1>2, <2>1, <3>1 DEF PlaysOn
  <2>2. CASE ~read_fire(rdreq)
    BY <1>1, <1>2, <2>2 DEF PlaysOn
  <2> QED
    BY <2>1, <2>2
<1>4. Pending' = Pending
  BY DEF Pending, decoderVars
<1> QED
  BY <1>1, <1>3, <1>4 DEF Written

\* A read is counted out.
LEMMA ReadCounted ==
  ASSUME OutputFifoTypeOK, WordsTold, NEW rdreq \in BOOLEAN, OutputReadTick(FALSE, rdreq),
         UNCHANGED out_ctr_in
  PROVE  WordsTold'
<1>1. PICK n \in Nat : n = Len(out_fifo.q)
  BY DEF OutputFifoTypeOK, DcTypeOK
<1>2. PICK down \in {0, 1} : down = 1 <=> read_fire(rdreq)
  OBVIOUS
<1>3. PICK n2 : n2 = Len(out_fifo'.q)
  OBVIOUS
<1>4. n2 = n + 0 - down
  <2>1. PICK q \in Seq(OutWord) : q = out_fifo.q
    BY DEF OutputFifoTypeOK, DcTypeOK
  <2>2. /\ read_fire(rdreq) => q # <<>> /\ out_fifo'.q = Tail(q)
        /\ ~read_fire(rdreq) => out_fifo'.q = q
    BY <2>1, ReadTakes
  <2>3. q # <<>> => Len(Tail(q)) = Len(q) - 1
    OBVIOUS
  <2>4. CASE read_fire(rdreq)
    <3>1. n2 = n - 1 /\ down = 1
      BY <1>1, <1>2, <1>3, <2>1, <2>2, <2>3, <2>4
    <3> QED
      BY <3>1
  <2>5. CASE ~read_fire(rdreq)
    <3>1. n2 = n /\ down = 0
      BY <1>1, <1>2, <1>3, <2>1, <2>2, <2>5
    <3> QED
      BY <3>1
  <2> QED
    BY <2>4, <2>5
<1>5. PICK M \in Nat \ {0}, up \in {0, 1} :
        /\ M = 2^WIDTH_STAT /\ up = 0
        /\ out_ctr_in \in 0 .. (M - 1) /\ out_ctr_out \in 0 .. (M - 1)
        /\ out_ctr_in' = Wrapped(M, out_ctr_in, up) /\ out_ctr_out' = Wrapped(M, out_ctr_out, down)
  BY <1>2, StatAssumption
     DEF OutputFifoTypeOK, OutputReadTick, ReadRun, counts_out, Bump, Wrapped, Stat
<1>6. Tells(M, out_ctr_in, out_ctr_out, n)
  BY <1>1, <1>5 DEF WordsTold
<1>7. Tells(M, Wrapped(M, out_ctr_in, up), Wrapped(M, out_ctr_out, down), n2)
  <2>1. n2 = n + up - down /\ n \in Int
    BY <1>4, <1>5
  <2> QED
    BY <1>5, <1>6, <2>1, CountersTell
<1> QED
  BY <1>3, <1>5, <1>7 DEF WordsTold

\* A write is counted in.
LEMMA WriteCounted ==
  ASSUME OutputFifoTypeOK, DecoderTypeOK, WordsTold, out_wrreq => ~wrfull(out_fifo, LENGTH_OUT),
         OutputWriteTick(FALSE, out_wrreq, [data |-> out_data, control |-> out_control]),
         UNCHANGED out_ctr_out
  PROVE  WordsTold'
<1>1. PICK n \in Nat : n = Len(out_fifo.q)
  BY DEF OutputFifoTypeOK, DcTypeOK
<1>2. PICK up \in {0, 1} : up = 1 <=> out_wrreq
  OBVIOUS
<1>3. PICK n2 : n2 = Len(out_fifo'.q)
  OBVIOUS
<1>4. n2 = n + up - 0
  <2>1. <<>> \in Seq(OutWord)
    OBVIOUS
  <2>2. Len(out_fifo'.q) = IF out_wrreq THEN Len(out_fifo.q) + 1 ELSE Len(out_fifo.q)
    BY <2>1, OutFifoTakes
  <2> QED
    BY <1>1, <1>2, <1>3, <2>2
<1>5. PICK M \in Nat \ {0}, down \in {0, 1} :
        /\ M = 2^WIDTH_STAT /\ down = 0
        /\ out_ctr_in \in 0 .. (M - 1) /\ out_ctr_out \in 0 .. (M - 1)
        /\ out_ctr_in' = Wrapped(M, out_ctr_in, up) /\ out_ctr_out' = Wrapped(M, out_ctr_out, down)
  BY <1>2, StatAssumption DEF OutputFifoTypeOK, OutputWriteTick, Bump, Wrapped, Stat
<1>6. Tells(M, out_ctr_in, out_ctr_out, n)
  BY <1>1, <1>5 DEF WordsTold
<1>7. Tells(M, Wrapped(M, out_ctr_in, up), Wrapped(M, out_ctr_out, down), n2)
  <2>1. n2 = n + up - down /\ n \in Int
    BY <1>4, <1>5
  <2> QED
    BY <1>5, <1>6, <2>1, CountersTell
<1> QED
  BY <1>3, <1>5, <1>7 DEF WordsTold

\* The end of a program is told: the FIFO is read only until its terminator.
LEMMA EndStep ==
  ASSUME EndTold, played \in Seq(OutWord), NEW rdreq \in BOOLEAN, rdreq => ~terminal_seen,
         terminal_seen \in BOOLEAN, done \in BOOLEAN, buffer_error \in BOOLEAN,
         ReadRun(rdreq), PlaysOn(read_fire(rdreq), qc), qc \in OutWord
  PROVE  EndTold'
<1>1. PICK d \in Seq(OutWord), w \in OutWord, fire \in BOOLEAN :
        d = played /\ w = qc /\ (fire <=> read_fire(rdreq))
  BY DEF read_fire
<1>2. /\ fire => ~terminal_seen /\ ~out_empty
      /\ terminal_seen' = (terminal_seen \/ (fire /\ Is(w, "TERMINATE")))
      /\ done' = (done \/ (fire /\ Is(w, "TERMINATE") /\ ~buffer_error))
      /\ underrun(rdreq) => ~fire /\ ~terminal_seen
      /\ buffer_error' = (buffer_error \/ underrun(rdreq))
      /\ played' = IF fire THEN Append(d, w) ELSE d
  BY <1>1 DEF ReadRun, PlaysOn, read_fire, rdreq_nrr, completes, underrun, is_last
<1>3. PICK e : e = Append(d, w)
  OBVIOUS
<1>4. /\ e # <<>> /\ Len(e) = Len(d) + 1 /\ e[Len(e)] = w
      /\ \A i \in 1 .. (Len(e) - 1) : e[i] = d[i]
      /\ Len(d) \in Nat /\ (d # <<>> => Len(d) >= 1)
  BY <1>3
<1>5. CASE fire
  <2>1. \A i \in 1 .. Len(d) : ~Is(d[i], "TERMINATE")
    <3>1. /\ \A i \in 1 .. (Len(d) - 1) : ~Is(d[i], "TERMINATE")
          /\ ~(d # <<>> /\ Is(d[Len(d)], "TERMINATE"))
      BY <1>1, <1>2, <1>5 DEF EndTold
    <3>2. Len(d) >= 1 => d # <<>>
      OBVIOUS
    <3> QED
      BY <1>4, <3>1, <3>2
  <2>2. \A i \in 1 .. (Len(e) - 1) : ~Is(e[i], "TERMINATE")
    BY <1>4, <2>1
  <2>3. played' = e
    BY <1>2, <1>3, <1>5
  <2>4. terminal_seen' <=> Is(w, "TERMINATE")
    BY <1>2, <1>5
  <2>5. ~terminal_seen /\ ~done /\ ~underrun(rdreq)
    BY <1>2, <1>5 DEF EndTold
  <2>6. /\ done' => terminal_seen' /\ ~buffer_error'
        /\ terminal_seen' /\ ~done' => buffer_error'
    BY <1>2, <1>5, <2>5
  <2> QED
    BY <1>4, <2>2, <2>3, <2>4, <2>6 DEF EndTold
<1>6. CASE ~fire
  <2>1. played' = played /\ terminal_seen' = terminal_seen /\ done' = done
    BY <1>1, <1>2, <1>6
  <2>2. terminal_seen => buffer_error' = buffer_error
    BY <1>2
  <2> QED
    BY <2>1, <2>2, <1>2 DEF EndTold
<1> QED
  BY <1>5, <1>6

\* The words of d that the output shows.
ShownIn(d) == {i \in DOMAIN d : Is(d[i], "TERMINATE") \/ ~Is(d[i], "RETRIG")}
Shows(w) == Is(w, "TERMINATE") \/ ~Is(w, "RETRIG")

\* The words shown, after one more word.
LEMMA ShownOneMore ==
  ASSUME NEW d \in Seq(OutWord), NEW w \in OutWord
  PROVE  /\ Shows(w) => /\ ShownIn(Append(d, w)) # {}
                        /\ Append(d, w)[Max(ShownIn(Append(d, w)))] = w
         /\ ~Shows(w) => /\ ShownIn(Append(d, w)) = ShownIn(d)
                         /\ \A i \in ShownIn(d) : Append(d, w)[i] = d[i]
<1> DEFINE e == Append(d, w)
           s == ShownIn(d)
           t == ShownIn(e)
<1> USE DEF ShownIn, Shows
<1>1. /\ Len(d) \in Nat /\ DOMAIN d = 1 .. Len(d) /\ DOMAIN e = 1 .. (Len(d) + 1)
      /\ \A i \in 1 .. Len(d) : e[i] = d[i]
      /\ e[Len(d) + 1] = w
  OBVIOUS
<1>2. CASE Shows(w)
  <2>1. Len(d) + 1 \in t /\ t \subseteq 1 .. (Len(d) + 1)
    BY <1>1, <1>2
  <2>2. Max(t) = Len(d) + 1
    <3>1. Max(t) = CHOOSE x \in t : \A y \in t : x >= y
      BY DEF Max
    <3>2. \A y \in t : Len(d) + 1 >= y
      BY <1>1, <2>1
    <3>3. \A x \in t : (\A y \in t : x >= y) => x = Len(d) + 1
      BY <1>1, <2>1
    <3>4. \E x \in t : \A y \in t : x >= y
      BY <2>1, <3>2
    <3>5. (CHOOSE x \in t : \A y \in t : x >= y) = Len(d) + 1
      BY <3>3, <3>4
    <3> QED
      BY <3>1, <3>5
  <2> QED
    BY <1>1, <1>2, <2>1, <2>2
<1>3. CASE ~Shows(w)
  <2>1. t \subseteq s
    BY <1>1, <1>3
  <2>2. s \subseteq t
    BY <1>1
  <2> QED
    BY <1>1, <1>3, <2>1, <2>2
<1> QED
  BY <1>2, <1>3

\* Nothing is shown or latched, so the latch keeps telling.
LEMMA LatchSame ==
  ASSUME LatchTold, UNCHANGED <<trigger_latch, qout_fifo, played>>
  PROVE  LatchTold'
<1>1. trigger_latch' = trigger_latch /\ qout_fifo' = qout_fifo /\ played' = played
  OBVIOUS
<1>2. ShownWords' = ShownWords
  BY <1>1 DEF ShownWords
<1>3. PICK s : s = ShownWords
  OBVIOUS
<1>4. /\ trigger_latch <=> s # {}
      /\ trigger_latch => qout_fifo = played[Max(s)].data
  BY <1>3 DEF LatchTold
<1>5. /\ trigger_latch' <=> s # {}
      /\ trigger_latch' => qout_fifo' = played'[Max(s)].data
  <2>1. PICK m : m = Max(s)
    OBVIOUS
  <2>2. trigger_latch => qout_fifo = played[m].data
    BY <1>4, <2>1
  <2>3. trigger_latch' => qout_fifo' = played'[m].data
    BY <1>1, <2>2
  <2> QED
    BY <1>1, <1>4, <2>1, <2>3
<1> QED
  BY <1>2, <1>3, <1>5 DEF LatchTold

\* The output register and its latch follow the words shown.
LEMMA LatchStep ==
  ASSUME LatchTold, played \in Seq(OutWord), NEW rdreq \in BOOLEAN, rdreq => ~done,
         ReadRun(rdreq), PlaysOn(read_fire(rdreq), qc), qc \in OutWord,
         trigger_latch \in BOOLEAN,
         trigger_latch' = (trigger_latch \/ qout_written(FALSE, rdreq))
  PROVE  LatchTold'
<1>1. PICK d \in Seq(OutWord), w \in OutWord, fire \in BOOLEAN :
        d = played /\ w = qc /\ (fire <=> read_fire(rdreq))
  BY DEF read_fire
<1>2. PICK shown \in BOOLEAN : shown <=> fire /\ Shows(w)
  OBVIOUS
<1>3. qout_written(FALSE, rdreq) <=> shown
  <2>1. fire => ~done
    BY <1>1 DEF read_fire, rdreq_nrr
  <2> QED
    BY <1>1, <1>2, <2>1
       DEF qout_written, data_update, wr_last, is_data, is_last, is_retrig, Shows
<1>4. /\ trigger_latch' = (trigger_latch \/ shown)
      /\ qout_fifo' = IF shown THEN w.data ELSE qout_fifo
      /\ played' = IF fire THEN Append(d, w) ELSE d
  BY <1>1, <1>3 DEF ReadRun, PlaysOn
<1>5. CASE fire
  <2>1. PICK e, s, t : e = Append(d, w) /\ s = ShownIn(d) /\ t = ShownIn(e)
    OBVIOUS
  <2>4. /\ Shows(w) => t # {} /\ e[Max(t)] = w
        /\ ~Shows(w) => t = s /\ \A i \in s : e[i] = d[i]
    BY <2>1, ShownOneMore
  <2>5. ShownWords = s /\ ShownWords' = t /\ played' = e
    BY <1>1, <1>4, <1>5, <2>1 DEF ShownWords, ShownIn
  <2>6. CASE shown
    BY <1>2, <1>4, <2>4, <2>5, <2>6 DEF LatchTold
  <2>7. CASE ~shown
    <3>1. t = s /\ \A i \in s : e[i] = d[i]
      BY <1>2, <1>5, <2>4, <2>7
    <3>2. trigger_latch' = trigger_latch /\ qout_fifo' = qout_fifo
      BY <1>4, <2>7
    <3>3. s # {} => Max(s) \in s
      <4>1. s \subseteq 1 .. Len(d) /\ Len(d) \in Nat
        BY <2>1 DEF ShownIn
      <4> QED
        BY <4>1, GreatestNat
    <3>4. trigger_latch <=> s # {}
      BY <2>5 DEF LatchTold
    <3>5. trigger_latch => qout_fifo = d[Max(s)].data
      BY <1>1, <2>5 DEF LatchTold
    <3>6. s # {} => e[Max(s)] = d[Max(s)]
      BY <3>1, <3>3
    <3>7. /\ trigger_latch' <=> t # {}
          /\ trigger_latch' => qout_fifo' = e[Max(t)].data
      BY <3>1, <3>2, <3>4, <3>5, <3>6
    <3> QED
      BY <2>5, <3>7 DEF LatchTold
  <2> QED
    BY <2>6, <2>7
<1>6. CASE ~fire
  <2>1. UNCHANGED <<trigger_latch, qout_fifo, played>>
    BY <1>1, <1>2, <1>4, <1>6
  <2> QED
    BY <2>1, LatchSame
<1> QED
  BY <1>5, <1>6
-----------------------------------------------------------------------------
(***************************************************************************)
(* What is played is what the program means.  After a reset the source     *)
(* waits until it has passed through the synchronizer: until then nothing  *)
(* is sent, so the read side, which may still show the old program's end,  *)
(* has nothing to read.                                                    *)
(***************************************************************************)
\* The reset has left the synchronizer.
Synced == ~rst_sync[1] /\ ~rst_sync[2] /\ ~rst_sync[3]

\* The program is decoded from the word "base".
PlayFrom(base) ==
  /\ IInv
  /\ settled => ~reset /\ Synced
  /\ ~reset => Flows(prog, pc - 1, base)
  /\ ~reset /\ ~settled => pc = 1 /\ out_ctr_in = 0
  /\ ~reset /\ Synced => ReadInv

PlayInv == PlayFrom(initial_value)

\* The parts of the invariant's type facts that the steps below use.
LEMMA PlayTypes ==
  ASSUME IInv
  PROVE  /\ PartsInv /\ InputFifoInv /\ DecoderTypeOK /\ OutputFifoTypeOK
         /\ played \in Seq(OutWord) /\ prog \in Seq(Element) /\ Plays(prog)
         /\ pc \in 1 .. (Len(prog) + 1) /\ pc \in Nat
         /\ initial_value \in Word /\ reset \in BOOLEAN /\ settled \in BOOLEAN
         /\ rst_sync \in BOOLEAN \X BOOLEAN \X BOOLEAN
         /\ trigger_latch \in BOOLEAN /\ terminal_seen \in BOOLEAN
         /\ done \in BOOLEAN /\ buffer_error \in BOOLEAN
<1>1. PartsInv /\ ControlTypeOK
  BY IInvParts
<1>2. Plays(prog)
  BY <1>1, ProgramsPlay DEF ControlTypeOK
<1>3. prog \in Seq(Element) /\ pc \in 1 .. (Len(prog) + 1)
  BY <1>1, ProgramsAssumption DEF ControlTypeOK
<1>4. pc \in Nat
  BY <1>3
<1> QED
  BY <1>1, <1>2, <1>3, <1>4, InitialAssumption DEF PartsInv, ControlTypeOK, OutputFifoTypeOK

\* Before anything is sent, nothing is on its way.
LEMMA NothingSentYet ==
  ASSUME NEW base \in Word, PlayFrom(base), ~reset, pc = 1
  PROVE  NothingSent /\ Flows(prog, 0, base)
<1>1. Flows(prog, 0, base)
  <2>1. pc - 1 = 0
    OBVIOUS
  <2> QED
    BY <2>1 DEF PlayFrom
<1>2. IInv /\ Plays(prog)
  BY PlayTypes DEF PlayFrom
<1> QED
  BY <1>1, <1>2, NothingYet

\* A clk edge outside reset and reload, with the source sending or not.
LEMMA PlayClkEdge ==
  ASSUME NEW base \in Word, PlayFrom(base), IInv', ~reset,
         NEW valid \in BOOLEAN, NEW data \in Element, NEW init,
         wrreq1(valid) => Offering /\ data = prog[pc],
         ClkEdge(FALSE, valid, data, FALSE, init),
         pc' = IF wrreq1(valid) THEN pc + 1 ELSE pc,
         UNCHANGED <<reset, prog, streamerClkVars>>
  PROVE  PlayFrom(base)'
<1>1. /\ IInv /\ PartsInv /\ InputFifoInv /\ DecoderTypeOK /\ OutputFifoTypeOK
      /\ played \in Seq(OutWord) /\ prog \in Seq(Element) /\ Plays(prog)
      /\ pc \in 1 .. (Len(prog) + 1) /\ pc \in Nat
  BY PlayTypes DEF PlayFrom
<1>2. UNCHANGED <<reset, prog, rst_sync, settled, trigger_latch, played, outReadVars>>
  BY DEF streamerClkVars
<1>3. Synced' <=> Synced
  BY <1>2 DEF Synced
<1>4. OutputWriteTick(FALSE, out_wrreq, [data |-> out_data, control |-> out_control])
  BY DEF ClkEdge
<1>5. Flows(prog, pc - 1, base)'
  <2>1. PICK p, sent : p = prog /\ sent = pc - 1
    OBVIOUS
  <2>2. PICK sent2 : sent2 = IF wrreq1(valid) THEN sent + 1 ELSE sent
    OBVIOUS
  <2>3. wrreq1(valid) => sent < Len(p) /\ data = p[sent + 1]
    <3>1. Offering => sent < Len(p) /\ sent + 1 = pc
      BY <1>1, <2>1 DEF Offering
    <3> QED
      BY <2>1, <3>1
  <2>4. Flows(p, sent, base) /\ Plays(p) /\ played' = played
    BY <1>1, <1>2, <2>1 DEF PlayFrom
  <2>5. Flows(p, sent2, base)'
    <3>1. out_wrreq => ~wrfull(out_fifo, LENGTH_OUT)
      BY <1>1, NeverDrops
    <3>2. ClkEdge(FALSE, valid, data, FALSE, base)
      BY DEF ClkEdge, DecoderTick
    <3>3. PartsInv /\ played \in Seq(OutWord)
      BY <1>1
    <3> QED
      BY <2>2, <2>3, <2>4, <3>1, <3>2, <3>3, ClkFlow, Zenon
  <2>6. sent2 = pc' - 1
    BY <1>1, <2>1, <2>2
  <2> QED
    BY <1>2, <2>1, <2>5, <2>6
<1>6. ~settled => pc' = 1 /\ out_ctr_in' = 0
  <2> SUFFICES ASSUME ~settled PROVE pc' = 1 /\ out_ctr_in' = 0
    OBVIOUS
  <2>1. pc = 1 /\ out_ctr_in = 0
    BY DEF PlayFrom
  <2>2. ~wrreq1(valid)
    BY DEF Offering
  <2>3. ~out_wrreq
    BY <2>1, NothingSentYet DEF NothingSent
  <2> QED
    BY <1>4, <2>1, <2>2, <2>3 DEF OutputWriteTick, Bump
<1>7. ASSUME Synced PROVE ReadInv'
  <2>1. ReadInv
    BY <1>7 DEF PlayFrom
  <2>2. EndTold'
    BY <1>2, <2>1 DEF ReadInv, EndTold, outReadVars
  <2>3. WordsTold'
    <3>1. UNCHANGED out_ctr_out
      BY <1>2 DEF outReadVars
    <3> QED
      BY <1>1, <1>4, <2>1, <3>1, NeverDrops, WriteCounted DEF ReadInv
  <2>4. LatchTold'
    <3>1. UNCHANGED <<played, trigger_latch, qout_fifo>>
      BY <1>2 DEF outReadVars
    <3> QED
      BY <2>1, <3>1, LatchSame DEF ReadInv
  <2> QED
    BY <2>2, <2>3, <2>4 DEF ReadInv
<1> QED
  BY <1>2, <1>3, <1>5, <1>6, <1>7 DEF PlayFrom

\* A clk edge during the reset: nothing is claimed of the program.
LEMMA PlayInReset ==
  ASSUME NEW base, NEW next, PlayFrom(base), IInv', reset, UNCHANGED <<reset, settled>>
  PROVE  PlayFrom(next)'
BY DEF PlayFrom

\* A reload of the initial value before anything is sent: the program is
\* decoded from the new word.
LEMMA PlayReloadEdge ==
  ASSUME NEW base \in Word, PlayFrom(base), IInv', ~reset, pc = 1, NEW init \in Word,
         NEW data, ClkEdge(FALSE, FALSE, data, TRUE, init),
         UNCHANGED <<pc, reset, prog, streamerClkVars>>
  PROVE  PlayFrom(init)'
<1>1. UNCHANGED <<pc, reset, prog, rst_sync, settled, trigger_latch, played, outReadVars>>
  BY DEF streamerClkVars
<1>2. ClkEdge(FALSE, FALSE, Blank, TRUE, init)
  <2>1. ScNext(fifo1, LENGTH1, wrreq1(FALSE), data, rdreq1) = ScNext(fifo1, LENGTH1, wrreq1(FALSE), Blank, rdreq1)
    BY DEF ScNext, wrreq1
  <2> QED
    BY <2>1 DEF ClkEdge, InputFifoTick
<1>3. NothingSent /\ Flows(prog, 0, base)
  BY NothingSentYet
<1>4. IInv /\ Plays(prog)
  BY PlayTypes DEF PlayFrom
<1>5. PICK p : p = prog
  OBVIOUS
<1>6. Flows(p, 0, init)' /\ out_fifo'.q = <<>> /\ out_ctr_in' = out_ctr_in
  BY <1>1, <1>2, <1>3, <1>4, <1>5, ReloadFlow
<1>7. Flows(prog, pc - 1, init)'
  <2>1. p = prog' /\ 0 = pc' - 1
    BY <1>1, <1>5
  <2> QED
    BY <1>6, <2>1
<1>8. ASSUME Synced PROVE ReadInv'
  <2>0. ReadInv
    BY <1>8 DEF PlayFrom
  <2>1. EndTold'
    BY <1>1, <2>0 DEF ReadInv, EndTold, outReadVars
  <2>2. WordsTold'
    <3>1. out_fifo'.q = out_fifo.q /\ out_ctr_out' = out_ctr_out
      BY <1>1, <1>3, <1>6 DEF NothingSent, outReadVars
    <3> QED
      BY <1>6, <2>0, <3>1 DEF ReadInv, WordsTold
  <2>3. LatchTold'
    <3>1. UNCHANGED <<trigger_latch, qout_fifo, played>>
      BY <1>1 DEF outReadVars
    <3> QED
      BY <2>0, <3>1, LatchSame DEF ReadInv
  <2> QED
    BY <2>1, <2>2, <2>3 DEF ReadInv
<1>9. Synced' <=> Synced
  BY <1>1 DEF Synced
<1> QED
  BY <1>1, <1>6, <1>7, <1>8, <1>9 DEF PlayFrom

\* A clk edge, with the source sending or not.
LEMMA PlayClkTick ==
  ASSUME PlayInv, NEW valid \in BOOLEAN, ClkTick(valid)
  PROVE  PlayInv'
<1>1. IInv' /\ IInv /\ initial_value \in Word /\ reset \in BOOLEAN
  BY ClkTickStep, PlayTypes DEF PlayInv, PlayFrom
<1>2. PICK base \in Word : base = initial_value
  BY <1>1
<1>3. PlayFrom(base) /\ base = initial_value'
  BY <1>2 DEF PlayInv, ClkTick
<1>4. UNCHANGED <<reset, prog, streamerClkVars, settled>>
  BY DEF ClkTick, streamerClkVars
<1>5. PlayFrom(base)'
  <2>1. CASE reset
    BY <1>1, <1>3, <1>4, <2>1, PlayInReset
  <2>2. CASE ~reset
    <3>1. PICK data \in Element : data = IF Offering THEN prog[pc] ELSE Blank
      BY <1>1, IInvParts, OfferedElement
    <3>2. ClkEdge(FALSE, valid, data, FALSE, initial_value)
      <4>1. reset = FALSE
        BY <1>1, <2>2
      <4> QED
        BY <3>1, <4>1 DEF ClkTick
    <3>3. wrreq1(valid) => Offering /\ data = prog[pc]
      BY <3>1 DEF ClkTick, wrreq1
    <3>4. pc' = IF wrreq1(valid) THEN pc + 1 ELSE pc
      BY DEF ClkTick, wrreq1, full
    <3> QED
      BY <1>1, <1>3, <1>4, <2>2, <3>2, <3>3, <3>4, PlayClkEdge
  <2> QED
    BY <2>1, <2>2
<1> QED
  BY <1>3, <1>5 DEF PlayInv

\* The initial value is reloaded before anything is sent.
LEMMA PlayReload ==
  ASSUME PlayInv, NEW init \in InitialValues, ReloadInitial(init)
  PROVE  PlayInv'
<1>1. IInv' /\ initial_value \in Word /\ init \in Word
  BY ReloadStep, PlayTypes, InitialAssumption DEF PlayInv, PlayFrom
<1>2. PICK base \in Word : base = initial_value
  BY <1>1
<1>3. /\ PlayFrom(base) /\ ~reset /\ pc = 1 /\ initial_value' = init
      /\ ClkEdge(FALSE, FALSE, Blank, TRUE, init)
      /\ UNCHANGED <<pc, reset, prog, streamerClkVars>>
  BY <1>2 DEF ReloadInitial, PlayInv, PlayFrom
<1>4. PlayFrom(init)'
  BY <1>1, <1>3, PlayReloadEdge
<1> QED
  BY <1>3, <1>4 DEF PlayInv

\* The end of a reset, with the next program.
LEMMA PlayRelease ==
  ASSUME NEW base, PlayFrom(base), ReleaseReset
  PROVE  PlayInv'
<1>0. IInv'
  BY ReleaseStep DEF PlayFrom
<1>1. /\ reset /\ rst_sync[1] /\ rst_sync' = rst_sync /\ settled' = settled
      /\ ClkEdge(TRUE, FALSE, Blank, FALSE, initial_value)
      /\ pc' = 1 /\ played' = <<>> /\ prog' \in Programs /\ initial_value' = initial_value
  BY DEF ReleaseReset, HeldLongEnough
<1>2. IInv /\ initial_value \in Word
  BY PlayTypes DEF PlayFrom
<1>3. PICK p \in Programs : p = prog'
  BY <1>1
<1>4. PICK init \in Word : init = initial_value
  BY <1>2
<1>5. Plays(p)
  BY ProgramsPlay
<1>6. Flows(p, 0, init)' /\ out_ctr_in' = 0
  BY <1>1, <1>2, <1>4, <1>5, RestartFlow
<1>7. Flows(prog, pc - 1, initial_value)'
  <2>1. p = prog' /\ 0 = pc' - 1 /\ init = initial_value'
    BY <1>1, <1>3, <1>4
  <2> QED
    BY <1>6, <2>1
<1>8. ~settled' /\ ~Synced'
  BY <1>1 DEF PlayFrom, Synced
<1> QED
  BY <1>0, <1>1, <1>6, <1>7, <1>8 DEF PlayInv, PlayFrom

\* An edge of streamer_clk outside reset keeps what the read side tells.
LEMMA ReadStep ==
  ASSUME OutputFifoTypeOK, ReadInv, played \in Seq(OutWord), NEW rdreq \in BOOLEAN,
         rdreq => ~terminal_seen, trigger_latch \in BOOLEAN, qc \in OutWord,
         OutputReadTick(FALSE, rdreq), PlaysOn(read_fire(rdreq), qc), UNCHANGED out_ctr_in,
         trigger_latch' = (trigger_latch \/ qout_written(FALSE, rdreq))
  PROVE  ReadInv'
<1>1. /\ EndTold /\ WordsTold /\ LatchTold /\ ReadRun(rdreq)
      /\ terminal_seen \in BOOLEAN /\ done \in BOOLEAN /\ buffer_error \in BOOLEAN
  BY DEF ReadInv, OutputReadTick, OutputFifoTypeOK
<1>2. rdreq => ~done
  BY <1>1 DEF EndTold
<1>3. EndTold'
  BY <1>1, EndStep
<1>4. WordsTold'
  BY <1>1, ReadCounted
<1>5. LatchTold'
  BY <1>1, <1>2, LatchStep
<1> QED
  BY <1>3, <1>4, <1>5 DEF ReadInv

\* The edge at which the reset leaves the synchronizer: everything starts anew.
LEMMA ReadRestart ==
  ASSUME played' = <<>>, out_fifo'.q = <<>>, out_ctr_in' = 0, ReadReset, trigger_latch' = FALSE
  PROVE  ReadInv'
<1>1. /\ out_ctr_out' = 0 /\ done' = FALSE /\ terminal_seen' = FALSE /\ buffer_error' = FALSE
  BY DEF ReadReset
<1>2. Len(<<>>) = 0 /\ DOMAIN <<>> = {} /\ 1 .. (0 - 1) = {} /\ 0 - 0 = 0
  OBVIOUS
<1>3. EndTold'
  BY <1>1, <1>2 DEF EndTold
<1>4. WordsTold'
  BY <1>1, <1>2 DEF WordsTold, Tells
<1>5. LatchTold'
  <2>1. ShownWords' = {}
    BY <1>2 DEF ShownWords
  <2> QED
    BY <2>1 DEF LatchTold
<1> QED
  BY <1>3, <1>4, <1>5 DEF ReadInv

\* An edge of streamer_clk.
LEMMA PlayStreamerTick ==
  ASSUME NEW base \in Word, PlayFrom(base), NEW gated \in BOOLEAN, NEW in, NEW enable \in BOOLEAN,
         NEW force \in BOOLEAN, NEW trig_reset \in BOOLEAN,
         NEW stop \in BOOLEAN, NEW stop_on_error \in BOOLEAN,
         StreamerTick(gated, in, enable, force, trig_reset, stop, stop_on_error)
  PROVE  PlayFrom(base)'
<1>0. IInv'
  BY StreamerTickStep DEF PlayFrom
<1>1. /\ IInv /\ OutputFifoTypeOK /\ played \in Seq(OutWord) /\ trigger_latch \in BOOLEAN
      /\ reset \in BOOLEAN /\ settled \in BOOLEAN /\ rst_sync \in BOOLEAN \X BOOLEAN \X BOOLEAN
  BY PlayTypes DEF PlayFrom
<1>2. PICK rdreq \in BOOLEAN : rdreq = (trigger_activated(stop, stop_on_error) /\ gated)
  OBVIOUS
<1>3. rdreq => ~terminal_seen
  BY <1>2 DEF trigger_activated
<1>4. /\ OutputReadTick(streamer_rst, rdreq)
      /\ rst_sync' = <<reset, rst_sync[1], rst_sync[2]>>
      /\ settled' = (settled \/ (~reset /\ WaitedAfterReset))
      /\ trigger_latch' = latches(rdreq)
      /\ played' = IF read_fire(rdreq) /\ ~streamer_rst THEN Append(played, qc) ELSE played
  BY <1>2 DEF StreamerTick
<1>5. /\ UNCHANGED inputFifoVars /\ UNCHANGED decoderVars /\ UNCHANGED outWriteVars
      /\ UNCHANGED <<pc, reset, initial_value, prog>> /\ out_ctr_in' = out_ctr_in
  BY DEF StreamerTick, clkVars, outWriteVars
<1>6. streamer_rst \in BOOLEAN /\ qc \in OutWord
  <2>1. streamer_rst \in BOOLEAN
    BY <1>1 DEF streamer_rst
  <2> QED
    BY <1>1, <1>4, <1>5, <2>1, OutReadStep
<1>7. /\ rst_sync'[1] = reset /\ rst_sync'[2] = rst_sync[1] /\ rst_sync'[3] = rst_sync[2]
  BY <1>4
<1>8. settled' => ~reset' /\ Synced'
  <2>1. WaitedAfterReset => Synced
    BY DEF WaitedAfterReset, Synced
  <2>2. settled' => ~reset /\ Synced
    BY <1>4, <2>1 DEF PlayFrom
  <2>3. ~reset /\ Synced => Synced'
    BY <1>7 DEF Synced
  <2> QED
    BY <1>5, <2>2, <2>3
<1>9. CASE reset
  BY <1>0, <1>5, <1>8, <1>9 DEF PlayFrom
<1>10. CASE ~reset
  <2>1. ~settled' => pc' = 1 /\ out_ctr_in' = 0
    BY <1>4, <1>5, <1>10 DEF PlayFrom
  <2>2. ~Synced => pc = 1 /\ out_ctr_in = 0 /\ NothingSent
    <3>1. ~Synced => ~settled
      BY DEF PlayFrom
    <3> QED
      BY <1>10, <3>1, NothingSentYet DEF PlayFrom
  <2>3. ~Synced => ~read_fire(rdreq)
    <3>1. read_fire(rdreq) => out_fifo.q # <<>>
      BY <1>1, <1>4, <1>6, ReadTakes
    <3> QED
      BY <2>2, <3>1 DEF NothingSent
  <2>4. streamer_rst => ~Synced
    BY DEF streamer_rst, Synced
  <2>5. Written' = Written
    <3>1. CASE streamer_rst
      <4>1. played' = played /\ out_fifo'.q = out_fifo.q
        BY <1>1, <1>4, <1>6, <2>3, <2>4, <3>1, ReadTakes
      <4>2. Pending' = Pending
        BY <1>5 DEF Pending, decoderVars
      <4> QED
        BY <4>1, <4>2 DEF Written
    <3>2. CASE ~streamer_rst
      <4>1. OutputReadTick(FALSE, rdreq) /\ PlaysOn(read_fire(rdreq), qc)
        BY <1>4, <1>6, <3>2 DEF PlaysOn
      <4> QED
        BY <1>1, <1>5, <4>1, ReadMoves
    <3> QED
      BY <3>1, <3>2
  <2>6. Flows(prog, pc - 1, base)'
    <3>1. PICK p, sent : p = prog /\ sent = pc - 1
      OBVIOUS
    <3>2. Flows(p, sent, base)
      BY <1>10, <3>1 DEF PlayFrom
    <3>3. Flows(p, sent, base)'
      BY <1>5, <2>5, <3>2, FlowSame
    <3> QED
      BY <1>5, <3>1, <3>3
  <2>7. ASSUME Synced' PROVE ReadInv'
    <3>1. ~rst_sync[1] /\ ~rst_sync[2]
      BY <1>7, <2>7 DEF Synced
    <3>2. CASE streamer_rst
      <4>1. played' = <<>> /\ out_fifo'.q = <<>> /\ out_ctr_in' = 0
        BY <1>1, <1>4, <1>5, <1>6, <2>2, <2>3, <2>4, <3>2, ReadTakes DEF NothingSent
      <4>2. ReadReset /\ trigger_latch' = FALSE
        BY <1>4, <3>2 DEF OutputReadTick, latches
      <4> QED
        BY <4>1, <4>2, ReadRestart
    <3>3. CASE ~streamer_rst
      <4>1. Synced
        BY <3>1, <3>3 DEF Synced, streamer_rst
      <4>2. ReadInv
        BY <1>10, <4>1 DEF PlayFrom
      <4>3. OutputReadTick(FALSE, rdreq) /\ PlaysOn(read_fire(rdreq), qc)
        BY <1>4, <1>6, <3>3 DEF PlaysOn
      <4>4. trigger_latch' = (trigger_latch \/ qout_written(FALSE, rdreq))
        BY <1>4, <1>6, <3>3 DEF latches, qout_written
      <4> QED
        BY <1>1, <1>3, <1>5, <1>6, <4>2, <4>3, <4>4, ReadStep
    <3> QED
      BY <3>2, <3>3
  <2> QED
    BY <1>0, <1>5, <1>8, <2>1, <2>6, <2>7 DEF PlayFrom
<1> QED
  BY <1>9, <1>10

\* A step that changes nothing of the streamer.
LEMMA PlayIdle ==
  ASSUME NEW base, PlayFrom(base), IInv', UNCHANGED vars
  PROVE  PlayFrom(base)'
<1>1. /\ UNCHANGED inputFifoVars /\ UNCHANGED decoderVars /\ UNCHANGED outReadVars
      /\ UNCHANGED <<reset, settled, rst_sync, pc, prog, played, out_fifo, out_ctr_in, trigger_latch>>
  BY DEF vars, clkVars, streamerClkVars, outWriteVars
<1>2. Synced' <=> Synced
  BY <1>1 DEF Synced
<1>3. ~reset => Flows(prog, pc - 1, base)'
  <2>1. PICK p, sent : p = prog /\ sent = pc - 1
    OBVIOUS
  <2>2. Written' = Written
    BY <1>1 DEF Written, Pending, decoderVars
  <2>3. ~reset => Flows(p, sent, base)
    BY <2>1 DEF PlayFrom
  <2>4. ~reset => Flows(p, sent, base)'
    BY <1>1, <2>2, <2>3, FlowSame
  <2> QED
    BY <1>1, <2>1, <2>4
<1>4. ReadInv => ReadInv'
  <2>1. EndTold => EndTold'
    BY <1>1 DEF EndTold, outReadVars
  <2>2. WordsTold => WordsTold'
    BY <1>1 DEF WordsTold, outReadVars
  <2>3. LatchTold => LatchTold'
    <3>1. UNCHANGED <<trigger_latch, qout_fifo, played>>
      BY <1>1 DEF outReadVars
    <3> QED
      BY <3>1, LatchSame
  <2> QED
    BY <2>1, <2>2, <2>3 DEF ReadInv
<1> QED
  BY <1>1, <1>2, <1>3, <1>4 DEF PlayFrom

\* At power-up nothing is sent and nothing is played.
LEMMA PlayStart == Init => PlayInv
<1> SUFFICES ASSUME Init PROVE PlayInv
  OBVIOUS
<1>1. IInv /\ Flows(prog, 0, initial_value)
  BY StreamerStart, StartFlow
<1>2. /\ ~reset /\ settled /\ pc - 1 = 0 /\ played = <<>> /\ trigger_latch = FALSE
      /\ rst_sync = <<FALSE, FALSE, FALSE>>
      /\ out_fifo = DcCleared /\ out_ctr_in = 0 /\ out_ctr_out = 0
      /\ done = FALSE /\ terminal_seen = FALSE /\ buffer_error = FALSE
  BY DEF Init, OutputFifoInit
<1>3. Synced
  BY <1>2 DEF Synced
<1>4. Len(<<>>) = 0 /\ DOMAIN <<>> = {} /\ 1 .. (0 - 1) = {} /\ 0 - 0 = 0
  OBVIOUS
<1>5. EndTold
  BY <1>2, <1>4 DEF EndTold
<1>6. WordsTold
  BY <1>2, <1>4 DEF WordsTold, Tells, DcCleared
<1>7. LatchTold
  <2>1. ShownWords = {}
    BY <1>2, <1>4 DEF ShownWords
  <2> QED
    BY <1>2, <2>1 DEF LatchTold
<1> QED
  BY <1>1, <1>2, <1>3, <1>5, <1>6, <1>7 DEF PlayInv, PlayFrom, ReadInv

\* Every step of a streamer keeps what is played to what the program means.
LEMMA PlayStep == PlayInv /\ [Next]_vars => PlayInv'
<1> SUFFICES ASSUME PlayInv, [Next]_vars PROVE PlayInv'
  OBVIOUS
<1>0. IInv'
  BY StreamerStep DEF PlayInv, PlayFrom
<1>1. ASSUME NEW valid \in BOOLEAN, ClkTick(valid) PROVE PlayInv'
  BY <1>1, PlayClkTick
<1>2. ASSUME NEW init \in InitialValues, ReloadInitial(init) PROVE PlayInv'
  BY <1>2, PlayReload
<1>3. CASE AssertReset
  <2>1. reset' = TRUE /\ settled' = FALSE
    BY <1>3 DEF AssertReset
  <2> QED
    BY <1>0, <2>1 DEF PlayInv, PlayFrom
<1>4. CASE ReleaseReset
  <2>1. PICK base : base = initial_value
    OBVIOUS
  <2> QED
    BY <1>4, <2>1, PlayRelease DEF PlayInv
<1>5. CASE RunAny
  <2>1. PICK gated \in GateIn, in \in SUBSET TriggerInputs,
             enable \in EnableIn, force \in ForceIn,
             trig_reset \in TrigResetIn, stop \in StopIn,
             stop_on_error \in StopOnErrorIn :
               StreamerTick(gated, in, enable, force, trig_reset, stop,
                            stop_on_error)
    BY <1>5 DEF RunAny, Run
  <2>2. /\ gated \in BOOLEAN /\ enable \in BOOLEAN /\ force \in BOOLEAN
        /\ trig_reset \in BOOLEAN /\ stop \in BOOLEAN
        /\ stop_on_error \in BOOLEAN
    BY InputsAssumption
  <2>3. PICK base \in Word : base = initial_value
    BY PlayTypes DEF PlayInv, PlayFrom
  <2>4. PlayFrom(base) /\ base = initial_value'
    BY <2>1, <2>3 DEF PlayInv, StreamerTick
  <2>5. PlayFrom(base)'
    BY <2>1, <2>2, <2>4, PlayStreamerTick
  <2> QED
    BY <2>4, <2>5 DEF PlayInv
<1>6. CASE UNCHANGED vars
  <2>1. PICK base : base = initial_value
    OBVIOUS
  <2>2. PlayFrom(base) /\ base = initial_value'
    BY <1>6, <2>1 DEF PlayInv, vars
  <2> QED
    BY <1>0, <1>6, <2>2, PlayIdle DEF PlayInv
<1> QED
  BY <1>1, <1>2, <1>3, <1>4, <1>5, <1>6 DEF Next

\* What the read side has played is a beginning of the program's samples.
LEMMA PlayedMeans ==
  ASSUME PlayInv, ~reset
  PROVE  /\ Samples(Meaning(prog), initial_value) \in Seq(OutWord)
         /\ IsPrefix(played, Samples(Meaning(prog), initial_value))
<1>1. /\ IInv /\ Plays(prog) /\ initial_value \in Word /\ played \in Seq(OutWord)
      /\ DecoderTypeOK /\ OutputFifoTypeOK
  BY PlayTypes DEF PlayInv, PlayFrom
<1>2. PICK n, c : Flow(prog, pc - 1, initial_value, n, c)
  BY DEF PlayInv, PlayFrom, Flows
<1>3. PICK u \in Seq(Element) : u = Meaning(prog)
  BY <1>1, MeaningIs
<1>4. n \in 0 .. Len(u) /\ DecodesAt(Sampling(u, initial_value)[n], Written)
  BY <1>2, <1>3 DEF Flow
<1>5. PICK s \in Seq(OutWord), t \in Seq(OutWord) :
        /\ s = Sampling(u, initial_value)[n].out /\ t = Samples(u, initial_value)
        /\ IsPrefix(s, t)
  <2>1. /\ IsPrefix(Sampling(u, initial_value)[n].out, Samples(u, initial_value))
        /\ Sampling(u, initial_value)[n].out \in Seq(OutWord)
        /\ Samples(u, initial_value) \in Seq(OutWord)
    <3>1. Sampling(u, initial_value)[n] \in Samplings
      BY <1>1, <1>4, SampleTable
    <3>2. Sampling(u, initial_value)[n].out \in Seq(OutWord)
      BY <3>1 DEF Samplings
    <3>3. PICK init \in Word : init = initial_value
      BY <1>1
    <3>4. /\ IsPrefix(Sampling(u, init)[n].out, Samples(u, init))
          /\ Samples(u, init) \in Seq(OutWord)
      BY <1>4, SamplesExtend
    <3> QED
      BY <3>2, <3>3, <3>4
  <2> QED
    BY <2>1
<1>6. PICK d \in Seq(OutWord), q \in Seq(OutWord), x \in Seq(OutWord) :
        d = played /\ q = out_fifo.q /\ x = Pending
  BY <1>1, PendingIs DEF OutputFifoTypeOK, DcTypeOK
<1>7. PICK r \in Seq(OutWord) : s = ((d \o q) \o x) \o r
  <2>1. PICK k \in Nat : s = Written \o RunOf(curr_value, curr_control, k, curr_cnt)
    BY <1>4, <1>5 DEF DecodesAt
  <2>2. RunOf(curr_value, curr_control, k, curr_cnt) \in Seq(OutWord)
    BY <1>1, RunIs DEF DecoderTypeOK
  <2> QED
    BY <1>6, <2>1, <2>2 DEF Written
<1>8. IsPrefix(d, s)
  <2>1. PICK a \in Seq(OutWord) : a = d \o q
    BY ConcatProperties
  <2>2. PICK b \in Seq(OutWord) : b = a \o x
    BY ConcatProperties
  <2>3. \A y \in Seq(OutWord), z \in Seq(OutWord) : IsPrefix(y, y \o z)
    BY PartIsPrefix
  <2>4. IsPrefix(d, a) /\ IsPrefix(a, b) /\ IsPrefix(b, s)
    BY <1>7, <2>1, <2>2, <2>3
  <2>5. \A y \in Seq(OutWord), z \in Seq(OutWord), w \in Seq(OutWord) :
          IsPrefix(y, z) /\ IsPrefix(z, w) => IsPrefix(y, w)
    BY PrefixThrough
  <2> QED
    BY <2>4, <2>5, Zenon
<1>9. IsPrefix(d, t)
  BY <1>5, <1>8, PrefixThrough
<1> QED
  BY <1>3, <1>5, <1>6, <1>9

\* Nothing played is a beginning of what is to be played.
LEMMA NothingExpected ==
  ASSUME Plays(prog), initial_value \in Word
  PROVE  IsPrefix(<<>>, Expected)
<1>1. PICK u \in Seq(Element), init \in Word : u = Meaning(prog) /\ init = initial_value
  BY MeaningIs
<1>2. 0 \in 0 .. Len(u) /\ Sampling(u, init)[0] = SampleStart(init)
  BY SampleTable
<1>3. PICK ws \in Seq(OutWord) : ws = Samples(u, init) /\ IsPrefix(<<>>, ws)
  <2>1. IsPrefix(Sampling(u, init)[0].out, Samples(u, init)) /\ Samples(u, init) \in Seq(OutWord)
    BY <1>2, SamplesExtend
  <2>2. Sampling(u, init)[0].out = <<>>
    BY <1>2 DEF SampleStart
  <2> QED
    BY <2>1, <2>2
<1>4. PICK x \in Seq(OutWord) : x = <<>> /\ \A i \in 1 .. (Len(x) - 1) : ~Is(x[i], "TERMINATE")
  <2>1. <<>> \in Seq(OutWord) /\ 1 .. (Len(<<>>) - 1) = {}
    OBVIOUS
  <2> QED
    BY <2>1
<1>5. IsPrefix(x, UpToTerminator(ws))
  BY <1>3, <1>4, CutAtTerminator
<1> QED
  BY <1>1, <1>3, <1>4, <1>5 DEF Expected, Meaning

\* Once the reset has passed, it is a beginning of what is to be played, and
\* all of it when a terminator has been played.
LEMMA PlayedExpected ==
  ASSUME PlayInv, ~reset
  PROVE  /\ IsPrefix(played, Expected)
         /\ Synced /\ terminal_seen => played = Expected
<1>1. PICK ws \in Seq(OutWord) : ws = Samples(Meaning(prog), initial_value) /\ IsPrefix(played, ws)
  BY PlayedMeans
<1>2. Expected = UpToTerminator(ws)
  BY <1>1 DEF Expected, Meaning
<1>3. PICK x \in Seq(OutWord) : x = played
  BY PlayTypes DEF PlayInv, PlayFrom
<1>4. \A i \in 1 .. (Len(x) - 1) : ~Is(x[i], "TERMINATE")
  <2>1. CASE Synced
    BY <1>3, <2>1 DEF PlayInv, PlayFrom, ReadInv, EndTold
  <2>2. CASE ~Synced
    <3>1. x = <<>>
      <4>1. PICK base \in Word : base = initial_value
        BY PlayTypes DEF PlayInv, PlayFrom
      <4>2. PlayFrom(base) /\ pc = 1
        BY <2>2, <4>1 DEF PlayInv, PlayFrom
      <4> QED
        BY <1>3, <4>2, NothingSentYet DEF NothingSent
    <3>2. Len(<<>>) = 0 /\ 1 .. (0 - 1) = {}
      OBVIOUS
    <3> QED
      BY <3>1, <3>2
  <2> QED
    BY <2>1, <2>2
<1>5. /\ IsPrefix(x, UpToTerminator(ws))
      /\ x # <<>> /\ Is(x[Len(x)], "TERMINATE") => x = UpToTerminator(ws)
  BY <1>1, <1>3, <1>4, CutAtTerminator
<1>6. Synced /\ terminal_seen => x # <<>> /\ Is(x[Len(x)], "TERMINATE")
  BY <1>3 DEF PlayInv, PlayFrom, ReadInv, EndTold
<1> QED
  BY <1>2, <1>3, <1>5, <1>6
-----------------------------------------------------------------------------
\* The invariant about what is played holds in every reachable state.
THEOREM PlayInvariance == Spec => []PlayInv
BY PlayStart, PlayStep, PTL DEF Spec

\* End to end through streamer.sv, for every program, width, FIFO depth and
\* interleaving of the two clocks: the words played are a beginning of what
\* the program means, and the statistics of the output FIFO account for them.
THEOREM StreamerPlaysAsProgrammed == Spec => []PlayedAsProgrammed
<1>1. PlayInv => PlayedAsProgrammed
  <2> SUFFICES ASSUME PlayInv PROVE PlayedAsProgrammed
    OBVIOUS
  <2>1. ~reset => IsPrefix(played, Expected)
    BY PlayedExpected
  <2>2. OutputCounters
    BY DEF PlayInv, PlayFrom, ReadInv, WordsTold, Tells, OutputCounters
  <2> QED
    BY <2>1, <2>2 DEF PlayedAsProgrammed
<1> QED
  BY <1>1, PlayInvariance, PTL

\* output_fifo.sv's done means that the whole program was played without an
\* underrun, and an end without done is always an underrun.
THEOREM DoneIsComplete == Spec => []DoneMeansComplete
<1>1. PlayInv => DoneMeansComplete
  <2> SUFFICES ASSUME PlayInv, settled
               PROVE  /\ done => played = Expected /\ ~buffer_error
                      /\ terminal_seen /\ ~done => buffer_error
    BY DEF DoneMeansComplete
  <2>1. ~reset /\ Synced /\ EndTold
    BY DEF PlayInv, PlayFrom, ReadInv
  <2> QED
    BY <2>1, PlayedExpected DEF EndTold
<1> QED
  BY <1>1, PlayInvariance, PTL

\* The output bus shows the initial value, then always the last word played
\* that is to be shown, through gates, stops, retriggers and underruns.
THEOREM QoutIsPlayed == Spec => []QoutShowsPlayed
<1>1. PlayInv => QoutShowsPlayed
  <2> SUFFICES ASSUME PlayInv, settled
               PROVE  qout = IF ShownWords = {} THEN initial_value
                                                ELSE played[Max(ShownWords)].data
    BY DEF QoutShowsPlayed
  <2>1. LatchTold
    BY DEF PlayInv, PlayFrom, ReadInv
  <2> QED
    BY <2>1 DEF LatchTold, qout
<1> QED
  BY <1>1, PlayInvariance, PTL
-----------------------------------------------------------------------------
(***************************************************************************)
(* The streamer in its Avalon wrapper, for every program, every sequence   *)
(* of register writes and every delay of the crossings.                    *)
(*                                                                         *)
(* The configuration in streamer_clk stands still from the first word of a *)
(* stream to its terminator.                                               *)
(*                                                                         *)
(* The crossing commits while streamer_idle, which the code computes from  *)
(* stream_active.  So what has to be shown is that an unfinished stream is *)
(* active even while its trigger chain is back in IDLE or LOAD, after a    *)
(* retrigger or a trigger reset: stream_in_progress remembers it.          *)
(*                                                                         *)
(* When no reload is outstanding, the value in force in streamer_clk is    *)
(* the one software wrote last, and the words played are the program's     *)
(* from that value on.  The pins change only when a word is read.          *)
(***************************************************************************)
ActiveSinceStart ==
  stream_started /\ ~terminal_seen => stream_in_progress \/ trigger_o

FlagTypes ==
  /\ stream_started \in BOOLEAN /\ terminal_seen \in BOOLEAN
  /\ stream_in_progress \in BOOLEAN

ActiveInv == FlagTypes /\ ActiveSinceStart
-----------------------------------------------------------------------------
\* A posedge of streamer_clk: a read needs the trigger, and the trigger is
\* remembered at the same edge.
LEMMA ActiveStreamerStep ==
  ASSUME ActiveInv, NEW g, NEW in, NEW en, NEW f, NEW tr, NEW stop, NEW soe,
         StreamerTick(g, in, en, f, tr, stop, soe)
  PROVE  ActiveInv'
<1> DEFINE rdreq == trigger_activated(stop, soe) /\ g
<1>1. /\ OutputReadTick(streamer_rst, rdreq)
      /\ stream_in_progress' = (/\ ~streamer_rst /\ ~terminal_seen
                                /\ stream_in_progress \/ trigger_o)
  BY DEF StreamerTick
<1>2. rdreq => trigger_o
  BY DEF trigger_activated
<1> HIDE DEF rdreq
<1>3. CASE streamer_rst
  <2>1. stream_started' = FALSE /\ terminal_seen' = FALSE
    BY <1>1, <1>3 DEF OutputReadTick, ReadReset
  <2>2. stream_in_progress' = FALSE
    BY <1>1, <1>3
  <2> QED
    BY <2>1, <2>2 DEF ActiveInv, FlagTypes, ActiveSinceStart
<1>4. CASE ~streamer_rst
  <2>1. /\ stream_started' = (stream_started \/ read_fire(rdreq))
        /\ terminal_seen' = (terminal_seen \/ (read_fire(rdreq) /\ is_last))
    BY <1>1, <1>4 DEF OutputReadTick, ReadRun
  <2>2. read_fire(rdreq) => trigger_o
    BY <1>2 DEF read_fire, rdreq_nrr
  <2>3. /\ stream_started' \in BOOLEAN /\ terminal_seen' \in BOOLEAN
        /\ stream_in_progress' \in BOOLEAN
    BY <1>1, <2>1
  <2>4. ASSUME stream_started', ~terminal_seen' PROVE stream_in_progress'
    <3>1. ~terminal_seen
      BY <2>1, <2>4
    <3>2. stream_started \/ read_fire(rdreq)
      BY <2>1, <2>4
    <3>3. stream_in_progress \/ trigger_o
      BY <2>2, <3>1, <3>2 DEF ActiveInv, ActiveSinceStart
    <3> QED
      BY <1>1, <1>4, <3>1, <3>3
  <2> QED
    BY <2>3, <2>4 DEF ActiveInv, FlagTypes, ActiveSinceStart
<1> QED
  BY <1>3, <1>4

\* Every other step leaves the registers concerned alone.
LEMMA ActiveQuietStep ==
  ASSUME ActiveInv, UNCHANGED <<outReadVars, trigReadVars,
                                stream_in_progress>>
  PROVE  ActiveInv'
BY DEF ActiveInv, FlagTypes, ActiveSinceStart, outReadVars, trigReadVars,
       trigger_o

\* Every step of the wrapper is a posedge of streamer_clk or leaves all of
\* that domain's registers alone, but for what a reset starts or ends.
LEMMA StepKinds ==
  ASSUME IfNext
  PROVE  \/ IfStreamerAny
         \/ /\ UNCHANGED <<outReadVars, trigReadVars, stream_in_progress>>
            /\ UNCHANGED <<trigger_latch, static_cfg_streamer>>
<1> USE DEF streamerClkVars, wrapStreamerVars
<1>1. ASSUME NEW valid, NEW write, NEW n, IfClkEdge(valid, write, n)
      PROVE  /\ UNCHANGED <<outReadVars, trigReadVars, stream_in_progress>>
             /\ UNCHANGED <<trigger_latch, static_cfg_streamer>>
  BY <1>1 DEF IfClkEdge
<1>2. CASE \E valid \in BOOLEAN, n \in 0 .. MaxReloads : IfClkTick(valid, n)
  BY <1>1, <1>2 DEF IfClkTick
<1>3. CASE \E c \in CtrlWords, valid \in BOOLEAN, n \in 0 .. MaxReloads :
             WriteIfCtrl(c, valid, n)
  BY <1>1, <1>3 DEF WriteIfCtrl
<1>4. CASE \E v \in InitialValues, n \in 0 .. MaxReloads : WriteInitVal(v, n)
  BY <1>1, <1>4 DEF WriteInitVal
<1>5. CASE \E v \in OverrideWords, valid \in BOOLEAN, n \in 0 .. MaxReloads :
             WriteQoutOverride(v, valid, n)
  BY <1>1, <1>5 DEF WriteQoutOverride
<1>6. CASE \E g \in GatingWords, valid \in BOOLEAN, n \in 0 .. MaxReloads :
             WriteGating(g, valid, n)
  BY <1>1, <1>6 DEF WriteGating
<1>7. CASE StartReset
  BY <1>7 DEF StartReset, AssertReset
<1>8. CASE \E n \in 0 .. MaxReloads : EndReset(n)
  BY <1>8 DEF EndReset, ReleaseReset
<1>9. CASE IfStreamerAny
  BY <1>9
<1> QED
  BY <1>2, <1>3, <1>4, <1>5, <1>6, <1>7, <1>8, <1>9 DEF IfNext

\* Every step of the wrapper keeps an unfinished stream active.
LEMMA ActiveStep == ActiveInv /\ [IfNext]_ifVars => ActiveInv'
<1> SUFFICES ASSUME ActiveInv, [IfNext]_ifVars PROVE ActiveInv'
  OBVIOUS
<1>1. CASE UNCHANGED ifVars
  <2>1. UNCHANGED <<outReadVars, trigReadVars, stream_in_progress>>
    BY <1>1 DEF ifVars, vars, streamerClkVars
  <2> QED
    BY <2>1, ActiveQuietStep
<1>2. CASE IfStreamerAny
  BY <1>2, ActiveStreamerStep DEF IfStreamerAny, IfStreamerTick
<1>3. CASE UNCHANGED <<outReadVars, trigReadVars, stream_in_progress>>
  BY <1>3, ActiveQuietStep
<1> QED
  BY <1>1, <1>2, <1>3, StepKinds

\* Power-up: no stream has started.
LEMMA ActiveStart == IfInit => ActiveInv
BY DEF IfInit, Init, OutputFifoInit, ActiveInv, FlagTypes, ActiveSinceStart

\* A step taken during playback commits nothing.
LEMMA PlaybackStep ==
  ActiveInv /\ [IfNext]_ifVars /\ Playing
    => static_cfg_streamer' = static_cfg_streamer
<1> SUFFICES ASSUME ActiveInv, [IfNext]_ifVars, Playing
             PROVE  static_cfg_streamer' = static_cfg_streamer
  OBVIOUS
<1>1. ~accepts_cfg
  BY DEF Playing, ActiveInv, ActiveSinceStart, accepts_cfg, streamer_idle,
         stream_active
<1>2. CASE IfStreamerAny
  <2>1. PICK n \in 0 .. MaxUpdates : WrapperStreamerEdge(n)
    BY <1>2 DEF IfStreamerAny, IfStreamerTick
  <2>2. n = 0
    BY <1>1, <2>1 DEF WrapperStreamerEdge
  <2> QED
    BY <2>1, <2>2 DEF WrapperStreamerEdge, Delivered
<1>3. CASE UNCHANGED ifVars
  BY <1>3 DEF ifVars, wrapStreamerVars
<1> QED
  BY <1>2, <1>3, StepKinds

\* An unfinished stream is active in every reachable state.
THEOREM UnfinishedIsActive == IfSpec => []ActiveInv
BY ActiveStart, ActiveStep, PTL DEF IfSpec

\* st_interface.sv commits no configuration between the first word of a
\* stream and its terminator.
THEOREM ConfigFixed == IfSpec => ConfigFixedDuringPlayback
<1>1. ActiveInv /\ [IfNext]_ifVars
        => [Playing => static_cfg_streamer' = static_cfg_streamer]_ifVars
  BY PlaybackStep, SMTT(60)
<1> QED
  BY <1>1, UnfinishedIsActive, PTL DEF IfSpec, ConfigFixedDuringPlayback
-----------------------------------------------------------------------------
(***************************************************************************)
(* The streamer behind the wrapper keeps the streamer's own invariant.     *)
(***************************************************************************)
Ctrl == [stop_on_buffer_error : BOOLEAN, qout_select : BOOLEAN,
         trigger_reset : BOOLEAN, trigger_enable : BOOLEAN,
         trigger_force : BOOLEAN, stop : BOOLEAN]
Bits == [enable : BOOLEAN, force : BOOLEAN, reset : BOOLEAN, stop : BOOLEAN]
Gating == [gate_mask : SUBSET TriggerInputs, gate_in_en : BOOLEAN,
           gating : BOOLEAN]
Config == [seq : Nat, stop_on_buffer_error : BOOLEAN, gate : Gating,
           initial_value : Word, qout_override : Word, qout_select : BOOLEAN]

\* The registers and channels of the wrapper, by type.
RegTypes == ctrl \in Ctrl /\ gate \in Gating /\ qout_override \in Word
SyncTypes == ctrl_sync \in Bits \X Bits \X Bits
ConfigTypes ==
  /\ initial_reload_seq_clk \in Nat
  /\ cfg_channel \in Seq(Config) /\ static_cfg_streamer \in Config
AckTypes ==
  /\ ack_seq_streamer \in Nat /\ ack_seq_clk \in Nat
  /\ ack_channel \in Seq(Nat)

WrapperInv == IInv /\ RegTypes /\ SyncTypes /\ ConfigTypes /\ AckTypes
-----------------------------------------------------------------------------
(***************************************************************************)
(* The reload handshake.  Requests are numbered; a number travels with the *)
(* value it stands for and comes back when the value has been committed.   *)
(***************************************************************************)
\* A configuration on its way, or committed, that carries the number of the
\* last request carries its value, and no number is ahead of the requests.
Faithful(c) ==
  /\ c.seq <= initial_reload_seq_clk
  /\ c.seq = initial_reload_seq_clk => c.initial_value = initial_value

CommittedInOrder ==
  /\ Faithful(static_cfg_streamer)
  /\ \A i \in DOMAIN cfg_channel :
       /\ Faithful(cfg_channel[i])
       /\ static_cfg_streamer.seq <= cfg_channel[i].seq
  /\ \A i, j \in DOMAIN cfg_channel :
       i <= j => cfg_channel[i].seq <= cfg_channel[j].seq

\* What has been acknowledged has been committed.
AcknowledgedAfter ==
  /\ ack_seq_streamer <= static_cfg_streamer.seq
  /\ ack_seq_clk <= static_cfg_streamer.seq
  /\ \A i \in DOMAIN ack_channel :
       ack_channel[i] <= static_cfg_streamer.seq

\* The request is outstanding until its own value has been committed.
PendingUntilCommitted ==
  ~initial_reload_pending => static_cfg_streamer.seq = initial_reload_seq_clk

HandshakeInv == CommittedInOrder /\ AcknowledgedAfter /\ PendingUntilCommitted
-----------------------------------------------------------------------------
\* What is left of a channel when the first n of its updates are delivered.
LEMMA RemainingFacts ==
  ASSUME NEW S, NEW c \in Seq(S), NEW n \in 0 .. Len(c)
  PROVE  /\ Remaining(c, n) \in Seq(S)
         /\ Len(Remaining(c, n)) = Len(c) - n
         /\ \A i \in 1 .. (Len(c) - n) : Remaining(c, n)[i] = c[i + n]
<1>1. Len(c) \in Nat /\ n \in Nat /\ n + 1 \in 1 .. (Len(c) + 1)
  OBVIOUS
<1>2. /\ SubSeq(c, n + 1, Len(c)) \in Seq(S)
      /\ Len(SubSeq(c, n + 1, Len(c)))
           = IF n + 1 <= Len(c) THEN Len(c) - (n + 1) + 1 ELSE 0
      /\ \A i \in 1 .. (Len(c) - (n + 1) + 1) :
           SubSeq(c, n + 1, Len(c))[i] = c[(n + 1) + i - 1]
  BY <1>1, SubSeqProperties
<1>3. /\ (IF n + 1 <= Len(c) THEN Len(c) - (n + 1) + 1 ELSE 0) = Len(c) - n
      /\ Len(c) - (n + 1) + 1 = Len(c) - n
      /\ \A i \in 1 .. (Len(c) - n) : (n + 1) + i - 1 = i + n
  BY <1>1
<1> QED
  BY <1>2, <1>3, Zenon DEF Remaining

\* What a delivery shows is an update of the channel, or what was shown.
LEMMA DeliveredType ==
  ASSUME NEW S, NEW c \in Seq(S), NEW n \in 0 .. Len(c), NEW shown \in S
  PROVE  Delivered(c, n, shown) \in S
BY DEF Delivered

\* The bundle offered to the crossing.
LEMMA OfferedConfig ==
  ASSUME RegTypes, initial_reload_seq_clk \in Nat, initial_value \in Word
  PROVE  static_cfg_clk \in Config
BY DEF RegTypes, Ctrl, Config, static_cfg_clk

\* Initial values are words.
LEMMA InitialIsWord == IInv => initial_value \in Word
BY InitialAssumption DEF IInv, TypeOK

\* A posedge of clk for wrapper and streamer keeps the streamer's invariant.
LEMMA IfClkKeeps ==
  ASSUME IInv, NEW valid \in BOOLEAN, NEW write, NEW n,
         IfClkEdge(valid, write, n), initial_value' \in InitialValues
  PROVE  IInv'
<1>1. PartsInv /\ ControlTypeOK
  BY IInvParts
<1> DEFINE accepted == valid /\ ~block_input_for_initial_reload
           data == IF Offering THEN prog[pc] ELSE Blank
<1>2. /\ ClkEdge(reset, accepted, data, initial_reload, initial_value)
      /\ pc' = IF accepted /\ ~full THEN pc + 1 ELSE pc
      /\ valid => Offering
      /\ UNCHANGED <<reset, prog, streamerClkVars>>
  BY DEF IfClkEdge
<1>3. data \in Element
  BY <1>1, OfferedElement
<1>4. /\ accepted \in BOOLEAN /\ initial_reload \in BOOLEAN
      /\ reset \in BOOLEAN /\ initial_value \in Word
  BY <1>1, InitialAssumption DEF ControlTypeOK, initial_reload
<1>5. PartsInv'
  <2>1. UNCHANGED <<outReadVars, trigReadVars>>
    BY <1>2 DEF streamerClkVars
  <2> HIDE DEF accepted, data
  <2> QED
    BY <1>1, <1>2, <1>3, <1>4, <2>1, ClkEdgeStep
<1>6. ControlTypeOK'
  <2>1. UNCHANGED <<reset, prog, rst_sync, settled, trigger_latch,
                    stream_in_progress, played, stages_loaded>>
    BY <1>2 DEF streamerClkVars
  <2>2. prog \in Seq(Element) /\ pc \in 1 .. (Len(prog) + 1)
    BY <1>1, ProgramsAssumption DEF ControlTypeOK
  <2>3. pc' \in 1 .. (Len(prog) + 1)
    BY <1>2, <2>2 DEF Offering
  <2> QED
    BY <1>1, <2>1, <2>3 DEF ControlTypeOK
<1> QED
  BY <1>5, <1>6 DEF IInv, PartsInv, ControlTypeOK, TypeOK, InputFifoInv

\* A posedge of streamer_clk behind the wrapper keeps it too.
LEMMA IfStreamerKeeps ==
  ASSUME WrapperInv, IfStreamerAny
  PROVE  IInv'
<1>1. PICK gate_in \in GateIn, in \in SUBSET TriggerInputs,
           enable_ext \in EnableIn, force_ext \in ForceIn,
           reset_ext \in TrigResetIn, n \in 0 .. MaxUpdates :
             IfStreamerTick(gate_in, in, enable_ext, force_ext, reset_ext, n)
  BY DEF IfStreamerAny
<1> DEFINE bits == ctrl_sync[3]
           en == bits.enable \/ enable_ext
           fc == bits.force \/ force_ext
           tr == bits.reset \/ reset_ext
           g == gate_enable(gate_in, in)
           soe == static_cfg_streamer.stop_on_buffer_error
<1>2. bits \in Bits /\ static_cfg_streamer \in Config
  BY DEF WrapperInv, SyncTypes, ConfigTypes
<1>3. bits.stop \in BOOLEAN /\ soe \in BOOLEAN
  BY <1>2 DEF Bits, Config
<1>4. en \in BOOLEAN /\ fc \in BOOLEAN /\ tr \in BOOLEAN /\ g \in BOOLEAN
  BY DEF gate_enable
<1>5. StreamerTick(g, in, en, fc, tr, bits.stop, soe)
  BY <1>1 DEF IfStreamerTick
<1> HIDE DEF bits, en, fc, tr, g, soe
<1> QED
  BY <1>3, <1>4, <1>5, StreamerTickStep DEF WrapperInv

\* What a step of software is: an edge of clk with at most one register
\* written, the start or the end of a reset, or an edge of streamer_clk.
LEMMA WrapperSteps ==
  ASSUME WrapperInv, IfNext
  PROVE  \/ \E valid \in BOOLEAN : \E write, n :
              /\ IfClkEdge(valid, write, n)
              /\ initial_value' \in InitialValues
              /\ write # "INIT_VAL" => UNCHANGED initial_value
              /\ write = "INIT_VAL" => (reset \/ pc = 1) /\ ~valid
              /\ RegTypes'
         \/ StartReset
         \/ \E n : EndReset(n)
         \/ IfStreamerAny
<1> USE DEF RegTypes, WrapperInv
<1>0. initial_value \in InitialValues /\ InitialValues \subseteq Word
  BY InitialAssumption DEF IInv, TypeOK
<1>1. CASE \E valid \in BOOLEAN, n \in 0 .. MaxReloads : IfClkTick(valid, n)
  BY <1>0, <1>1 DEF IfClkTick, regVars
<1>2. CASE \E c \in CtrlWords, valid \in BOOLEAN, n \in 0 .. MaxReloads :
             WriteIfCtrl(c, valid, n)
  BY <1>0, <1>2, InterfaceAssumption DEF WriteIfCtrl, Ctrl
<1>3. CASE \E v \in InitialValues, n \in 0 .. MaxReloads : WriteInitVal(v, n)
  BY <1>0, <1>3 DEF WriteInitVal, regVars
<1>4. CASE \E v \in OverrideWords, valid \in BOOLEAN, n \in 0 .. MaxReloads :
             WriteQoutOverride(v, valid, n)
  BY <1>0, <1>4, InterfaceAssumption DEF WriteQoutOverride
<1>5. CASE \E g \in GatingWords, valid \in BOOLEAN, n \in 0 .. MaxReloads :
             WriteGating(g, valid, n)
  BY <1>0, <1>5, InterfaceAssumption DEF WriteGating, Gating
<1> QED
  BY <1>1, <1>2, <1>3, <1>4, <1>5 DEF IfNext

\* An edge of clk keeps the types of the crossings' clk side.
LEMMA WrapperClkTypes ==
  ASSUME WrapperInv, NEW write, NEW n, WrapperClkEdge(write, n),
         UNCHANGED wrapStreamerVars
  PROVE  SyncTypes' /\ ConfigTypes' /\ AckTypes'
<1>1. static_cfg_clk \in Config
  BY InitialIsWord, OfferedConfig DEF WrapperInv, ConfigTypes
<1>2. SyncTypes'
  BY DEF WrapperInv, SyncTypes, wrapStreamerVars
<1>3. ConfigTypes'
  BY <1>1 DEF WrapperClkEdge, WrapperInv, ConfigTypes, wrapStreamerVars
<1>4. AckTypes'
  <2>1. ack_channel \in Seq(Nat) /\ n \in 0 .. Len(ack_channel)
        /\ ack_seq_clk \in Nat /\ ack_seq_streamer \in Nat
    BY DEF WrapperInv, AckTypes, WrapperClkEdge
  <2>2. Remaining(ack_channel, n) \in Seq(Nat)
    BY <2>1, RemainingFacts
  <2>3. Delivered(ack_channel, n, ack_seq_clk) \in Nat
    BY <2>1, DeliveredType
  <2> QED
    BY <2>1, <2>2, <2>3 DEF WrapperClkEdge, AckTypes, wrapStreamerVars
<1> QED
  BY <1>2, <1>3, <1>4

\* An edge of streamer_clk keeps the types of both crossings.
LEMMA WrapperStreamerTypes ==
  ASSUME WrapperInv, NEW n, WrapperStreamerEdge(n),
         UNCHANGED <<regVars, wrapClkVars>>
  PROVE  RegTypes' /\ SyncTypes' /\ ConfigTypes' /\ AckTypes'
<1>1. RegTypes'
  BY DEF WrapperInv, RegTypes, regVars
<1>2. SyncTypes'
  <2>1. /\ NoBits \in Bits /\ RunBits(ctrl) \in Bits
        /\ ctrl_sync[1] \in Bits /\ ctrl_sync[2] \in Bits
    BY DEF WrapperInv, RegTypes, SyncTypes, NoBits, RunBits, CtrlCleared,
           Bits, Ctrl
  <2> QED
    BY <2>1 DEF WrapperStreamerEdge, SyncTypes
<1>3. /\ cfg_channel \in Seq(Config) /\ static_cfg_streamer \in Config
      /\ n \in 0 .. Len(cfg_channel) /\ initial_reload_seq_clk \in Nat
  <2>1. Len(cfg_channel) \in Nat
    BY DEF WrapperInv, ConfigTypes
  <2> QED
    BY <2>1 DEF WrapperInv, ConfigTypes, WrapperStreamerEdge
<1>4. ConfigTypes'
  <2>1. Remaining(cfg_channel, n) \in Seq(Config)
    BY <1>3, RemainingFacts
  <2>2. Delivered(cfg_channel, n, static_cfg_streamer) \in Config
    BY <1>3, DeliveredType
  <2> QED
    BY <1>3, <2>1, <2>2 DEF WrapperStreamerEdge, ConfigTypes, wrapClkVars
<1>5. AckTypes'
  <2>1. static_cfg_streamer.seq \in Nat
    BY <1>3 DEF Config
  <2> QED
    BY <2>1 DEF WrapperInv, AckTypes, WrapperStreamerEdge, wrapClkVars
<1> QED
  BY <1>1, <1>2, <1>4, <1>5

\* Every step of the wrapper keeps its types and the streamer's invariant.
LEMMA WrapperStep == WrapperInv /\ [IfNext]_ifVars => WrapperInv'
<1> SUFFICES ASSUME WrapperInv, [IfNext]_ifVars PROVE WrapperInv'
  OBVIOUS
<1>1. CASE UNCHANGED ifVars
  <2>1. IInv'
    BY <1>1, StreamerStep DEF ifVars, WrapperInv
  <2> QED
    BY <1>1, <2>1 DEF ifVars, regVars, wrapClkVars, wrapStreamerVars,
       WrapperInv, RegTypes, SyncTypes, ConfigTypes, AckTypes
<1>2. ASSUME NEW valid \in BOOLEAN, NEW write, NEW n,
             IfClkEdge(valid, write, n), initial_value' \in InitialValues,
             RegTypes'
      PROVE  WrapperInv'
  <2>1. IInv'
    BY <1>2, IfClkKeeps DEF WrapperInv
  <2>2. WrapperClkEdge(write, n) /\ UNCHANGED wrapStreamerVars
    BY <1>2 DEF IfClkEdge
  <2>3. SyncTypes' /\ ConfigTypes' /\ AckTypes'
    BY <2>2, WrapperClkTypes
  <2> QED
    BY <1>2, <2>1, <2>3 DEF WrapperInv
<1>3. CASE StartReset
  <2>1. IInv'
    BY <1>3, AssertStep DEF StartReset, WrapperInv
  <2> QED
    BY <1>3, <2>1 DEF StartReset, regVars, wrapStreamerVars,
       WrapperInv, RegTypes, SyncTypes, ConfigTypes, AckTypes
<1>4. ASSUME NEW n, EndReset(n) PROVE WrapperInv'
  <2>1. IInv'
    BY <1>4, ReleaseStep DEF EndReset, WrapperInv
  <2>2. /\ WrapperClkEdge("IF_CTRL", n)
        /\ UNCHANGED wrapStreamerVars /\ UNCHANGED regVars
    BY <1>4 DEF EndReset
  <2>3. SyncTypes' /\ ConfigTypes' /\ AckTypes'
    BY <2>2, WrapperClkTypes
  <2> QED
    BY <2>1, <2>2, <2>3 DEF WrapperInv, RegTypes, regVars
<1>5. CASE IfStreamerAny
  <2>1. IInv'
    BY <1>5, IfStreamerKeeps
  <2>2. PICK n : WrapperStreamerEdge(n) /\ UNCHANGED <<regVars, wrapClkVars>>
    BY <1>5 DEF IfStreamerAny, IfStreamerTick
  <2> QED
    BY <2>1, <2>2, WrapperStreamerTypes DEF WrapperInv
<1> QED
  BY <1>1, <1>2, <1>3, <1>4, <1>5, WrapperSteps

\* Power-up: cleared registers and empty channels.
LEMMA WrapperStart == IfInit => WrapperInv
<1> SUFFICES ASSUME IfInit PROVE WrapperInv
  OBVIOUS
<1>1. IInv
  BY StreamerStart DEF IfInit
<1>2. RegTypes
  BY DEF IfInit, RegTypes, CtrlCleared, Ctrl, Gating, Word
<1>3. SyncTypes
  BY DEF IfInit, SyncTypes, NoBits, RunBits, CtrlCleared, Bits
<1>4. ConfigTypes
  <2>1. initial_reload_seq_clk \in Nat
    BY DEF IfInit
  <2>2. static_cfg_clk \in Config
    BY <1>1, <1>2, <2>1, InitialIsWord, OfferedConfig
  <2> QED
    BY <2>1, <2>2 DEF IfInit, ConfigTypes
<1>5. AckTypes
  BY DEF IfInit, AckTypes
<1> QED
  BY <1>1, <1>2, <1>3, <1>4, <1>5 DEF WrapperInv
-----------------------------------------------------------------------------
(***************************************************************************)
(* The handshake.                                                          *)
(***************************************************************************)
\* The numbers on both crossings are natural numbers.
LEMMA HandshakeTypes ==
  ASSUME WrapperInv
  PROVE  /\ initial_reload_seq_clk \in Nat /\ ack_seq_clk \in Nat
         /\ ack_seq_streamer \in Nat /\ static_cfg_streamer.seq \in Nat
         /\ Len(cfg_channel) \in Nat /\ Len(ack_channel) \in Nat
         /\ DOMAIN cfg_channel = 1 .. Len(cfg_channel)
         /\ DOMAIN ack_channel = 1 .. Len(ack_channel)
         /\ \A i \in 1 .. Len(cfg_channel) : cfg_channel[i].seq \in Nat
         /\ \A i \in 1 .. Len(ack_channel) : ack_channel[i] \in Nat
<1>1. /\ cfg_channel \in Seq(Config) /\ ack_channel \in Seq(Nat)
      /\ static_cfg_streamer \in Config
      /\ initial_reload_seq_clk \in Nat /\ ack_seq_clk \in Nat
      /\ ack_seq_streamer \in Nat
  BY DEF WrapperInv, ConfigTypes, AckTypes
<1>2. \A c \in Config : c.seq \in Nat
  BY DEF Config
<1> QED
  BY <1>1, <1>2

\* An edge of clk: the registers are offered as they are, a new request takes
\* the next number, and it ends when its own number has come back.
LEMMA HandshakeClkEdge ==
  ASSUME WrapperInv, WrapperInv', HandshakeInv, NEW write, NEW n,
         WrapperClkEdge(write, n), UNCHANGED wrapStreamerVars,
         write # "INIT_VAL" => UNCHANGED initial_value
  PROVE  HandshakeInv'
<1> USE HandshakeTypes
<1>1. /\ static_cfg_streamer' = static_cfg_streamer
      /\ ack_seq_streamer' = ack_seq_streamer
  BY DEF wrapStreamerVars
<1>2. /\ initial_reload_seq_clk <= initial_reload_seq_clk'
      /\ \/ initial_reload_seq_clk < initial_reload_seq_clk'
         \/ /\ initial_reload_seq_clk' = initial_reload_seq_clk
            /\ initial_value' = initial_value
  BY DEF WrapperClkEdge
<1>3. initial_reload_seq_clk' \in Nat
  BY DEF WrapperInv, ConfigTypes
<1>4. ASSUME NEW c, Faithful(c), c.seq \in Nat
      PROVE  /\ c.seq <= initial_reload_seq_clk'
             /\ c.seq = initial_reload_seq_clk'
                  => c.initial_value = initial_value'
  BY <1>2, <1>3, <1>4 DEF Faithful
<1>5. /\ static_cfg_clk.seq = initial_reload_seq_clk
      /\ static_cfg_clk.initial_value = initial_value
      /\ Faithful(static_cfg_clk)
  BY DEF static_cfg_clk, Faithful
<1>6. \/ cfg_channel' = cfg_channel
      \/ cfg_channel' = Append(cfg_channel, static_cfg_clk)
  BY DEF WrapperClkEdge
<1>7. /\ DOMAIN cfg_channel' = 1 .. Len(cfg_channel')
      /\ Len(cfg_channel') \in Nat
      /\ \A i \in 1 .. Len(cfg_channel') :
           \/ i \in 1 .. Len(cfg_channel) /\ cfg_channel'[i] = cfg_channel[i]
           \/ i = Len(cfg_channel) + 1 /\ cfg_channel'[i] = static_cfg_clk
  <2>1. cfg_channel \in Seq(Config) /\ cfg_channel' \in Seq(Config)
    BY DEF WrapperInv, ConfigTypes
  <2> QED
    BY <1>6, <2>1
<1>8. CommittedInOrder'
  <2>1. /\ Faithful(static_cfg_streamer)
        /\ \A i \in 1 .. Len(cfg_channel) :
             /\ Faithful(cfg_channel[i])
             /\ static_cfg_streamer.seq <= cfg_channel[i].seq
        /\ \A i, j \in 1 .. Len(cfg_channel) :
             i <= j => cfg_channel[i].seq <= cfg_channel[j].seq
    BY DEF HandshakeInv, CommittedInOrder
  <2>2. Faithful(static_cfg_streamer)'
    BY <1>1, <1>4, <2>1 DEF Faithful
  <2>3. ASSUME NEW i \in 1 .. Len(cfg_channel')
        PROVE  /\ Faithful(cfg_channel'[i])
               /\ cfg_channel'[i].seq \in Nat
               /\ static_cfg_streamer.seq <= cfg_channel'[i].seq
    BY <1>5, <1>7, <2>1, <2>3 DEF Faithful
  <2>4. ASSUME NEW i \in 1 .. Len(cfg_channel'),
               NEW j \in 1 .. Len(cfg_channel'), i <= j
        PROVE  cfg_channel'[i].seq <= cfg_channel'[j].seq
    <3>1. CASE j \in 1 .. Len(cfg_channel) /\ cfg_channel'[j] = cfg_channel[j]
      <4>1. i \in 1 .. Len(cfg_channel) /\ i # Len(cfg_channel) + 1
        BY <1>7, <2>4, <3>1
      <4>2. cfg_channel'[i] = cfg_channel[i]
        BY <1>7, <4>1
      <4> QED
        BY <2>1, <2>4, <3>1, <4>1, <4>2
    <3>2. CASE cfg_channel'[j] = static_cfg_clk
      BY <1>5, <2>3, <3>2 DEF Faithful
    <3> QED
      BY <1>7, <3>1, <3>2
  <2>5. \A i \in 1 .. Len(cfg_channel') : Faithful(cfg_channel[i])'
    BY <1>4, <2>3 DEF Faithful
  <2> QED
    BY <1>1, <1>7, <2>2, <2>3, <2>4, <2>5 DEF CommittedInOrder
<1>9. AcknowledgedAfter'
  <2>1. /\ n \in 0 .. Len(ack_channel) /\ ack_channel \in Seq(Nat)
        /\ ack_seq_clk' = Delivered(ack_channel, n, ack_seq_clk)
        /\ ack_channel' = Remaining(ack_channel, n)
    BY DEF WrapperClkEdge, WrapperInv, AckTypes
  <2>2. ack_seq_clk' <= static_cfg_streamer.seq
    <3>1. /\ ack_seq_clk <= static_cfg_streamer.seq
          /\ \A i \in 1 .. Len(ack_channel) :
               ack_channel[i] <= static_cfg_streamer.seq
      BY SMTT(60) DEF HandshakeInv, AcknowledgedAfter
    <3>2. n = 0 \/ n \in 1 .. Len(ack_channel)
      BY <2>1
    <3> QED
      BY <2>1, <3>1, <3>2 DEF Delivered
  <2>3. /\ Len(ack_channel') = Len(ack_channel) - n
        /\ \A i \in 1 .. (Len(ack_channel) - n) :
             ack_channel'[i] = ack_channel[i + n]
        /\ ack_channel' \in Seq(Nat)
    BY <2>1, RemainingFacts, Zenon
  <2>4. \A i \in DOMAIN ack_channel' :
           ack_channel'[i] <= static_cfg_streamer.seq
    <3>1. \A i \in 1 .. Len(ack_channel) :
            ack_channel[i] <= static_cfg_streamer.seq
      BY DEF HandshakeInv, AcknowledgedAfter
    <3>2. DOMAIN ack_channel' = 1 .. (Len(ack_channel) - n)
      BY <2>3
    <3>3. ASSUME NEW i \in 1 .. (Len(ack_channel) - n)
          PROVE  ack_channel'[i] <= static_cfg_streamer.seq
      <4>1. i + n \in 1 .. Len(ack_channel)
        BY <2>1
      <4> QED
        BY <2>3, <3>1, <4>1
    <3> QED
      BY <3>2, <3>3
  <2> QED
    BY <1>1, <2>2, <2>4 DEF HandshakeInv, AcknowledgedAfter
<1>10. PendingUntilCommitted'
  <2> SUFFICES ASSUME ~initial_reload_pending'
               PROVE  static_cfg_streamer.seq = initial_reload_seq_clk'
    BY <1>1 DEF PendingUntilCommitted
  <2>1. /\ write # "INIT_VAL"
        /\ ~initial_reload_pending \/ initial_reload
        /\ initial_reload_seq_clk' = initial_reload_seq_clk
    BY DEF WrapperClkEdge, reload_outstanding
  <2>2. CASE ~initial_reload_pending
    BY <2>1, <2>2 DEF HandshakeInv, PendingUntilCommitted
  <2>3. CASE initial_reload
    BY <2>1, <2>3 DEF initial_reload, HandshakeInv, AcknowledgedAfter,
       CommittedInOrder, Faithful
  <2> QED
    BY <2>1, <2>2, <2>3
<1> QED
  BY <1>8, <1>9, <1>10 DEF HandshakeInv

\* An edge of streamer_clk: what is committed is newer than what was, and
\* what is acknowledged has been committed.
LEMMA HandshakeStreamerEdge ==
  ASSUME WrapperInv, WrapperInv', HandshakeInv, NEW n,
         WrapperStreamerEdge(n),
         UNCHANGED <<regVars, wrapClkVars, initial_value>>
  PROVE  HandshakeInv'
<1> USE HandshakeTypes
<1>1. /\ n \in 0 .. Len(cfg_channel) /\ cfg_channel \in Seq(Config)
      /\ static_cfg_streamer' = Delivered(cfg_channel, n, static_cfg_streamer)
      /\ cfg_channel' = Remaining(cfg_channel, n)
  BY DEF WrapperStreamerEdge, WrapperInv, ConfigTypes
<1>2. /\ initial_reload_seq_clk' = initial_reload_seq_clk
      /\ initial_reload_pending' = initial_reload_pending
      /\ ack_seq_clk' = ack_seq_clk /\ initial_value' = initial_value
  BY DEF wrapClkVars
<1>3. /\ Len(cfg_channel') = Len(cfg_channel) - n
      /\ DOMAIN cfg_channel' = 1 .. (Len(cfg_channel) - n)
      /\ \A i \in 1 .. (Len(cfg_channel) - n) :
           cfg_channel'[i] = cfg_channel[i + n]
  <2>1. /\ Remaining(cfg_channel, n) \in Seq(Config)
        /\ Len(Remaining(cfg_channel, n)) = Len(cfg_channel) - n
        /\ \A i \in 1 .. (Len(cfg_channel) - n) :
             Remaining(cfg_channel, n)[i] = cfg_channel[i + n]
    BY <1>1, RemainingFacts, Zenon
  <2> QED
    BY <1>1, <2>1, SMTT(60)
<1>4. /\ Faithful(static_cfg_streamer)
      /\ \A i \in 1 .. Len(cfg_channel) :
           /\ Faithful(cfg_channel[i])
           /\ static_cfg_streamer.seq <= cfg_channel[i].seq
      /\ \A i, j \in 1 .. Len(cfg_channel) :
           i <= j => cfg_channel[i].seq <= cfg_channel[j].seq
  BY DEF HandshakeInv, CommittedInOrder
<1>5. \/ n = 0 /\ static_cfg_streamer' = static_cfg_streamer
      \/ n \in 1 .. Len(cfg_channel) /\ static_cfg_streamer' = cfg_channel[n]
  BY <1>1 DEF Delivered
<1>6. /\ static_cfg_streamer.seq <= static_cfg_streamer'.seq
      /\ Faithful(static_cfg_streamer') /\ static_cfg_streamer'.seq \in Nat
  BY <1>4, <1>5
<1>7. CommittedInOrder'
  <2>1. Faithful(static_cfg_streamer)'
    BY <1>2, <1>6 DEF Faithful
  <2>2. ASSUME NEW i \in 1 .. (Len(cfg_channel) - n)
        PROVE  /\ Faithful(cfg_channel[i])'
               /\ static_cfg_streamer'.seq <= cfg_channel'[i].seq
    <3>1. i + n \in 1 .. Len(cfg_channel) /\ cfg_channel'[i] = cfg_channel[i + n]
      BY <1>1, <1>3
    <3>2. static_cfg_streamer'.seq <= cfg_channel[i + n].seq
      BY <1>4, <1>5, <3>1
    <3> QED
      BY <1>2, <1>4, <3>1, <3>2 DEF Faithful
  <2>3. ASSUME NEW i \in 1 .. (Len(cfg_channel) - n),
               NEW j \in 1 .. (Len(cfg_channel) - n), i <= j
        PROVE  cfg_channel'[i].seq <= cfg_channel'[j].seq
    <3>1. /\ i + n \in 1 .. Len(cfg_channel) /\ j + n \in 1 .. Len(cfg_channel)
          /\ i + n <= j + n
      BY <1>1, <2>3
    <3> QED
      BY <1>3, <1>4, <3>1
  <2> QED
    BY <1>3, <2>1, <2>2, <2>3 DEF CommittedInOrder
<1>8. AcknowledgedAfter'
  <2>1. ack_seq_streamer' <= static_cfg_streamer'.seq
    <3>1. /\ ack_seq_streamer <= static_cfg_streamer.seq
          /\ ack_seq_streamer' \in {ack_seq_streamer, static_cfg_streamer.seq}
      BY DEF HandshakeInv, AcknowledgedAfter, WrapperStreamerEdge
    <3> QED
      BY <1>6, <3>1
  <2>2. ack_seq_clk' <= static_cfg_streamer'.seq
    BY <1>2, <1>6 DEF HandshakeInv, AcknowledgedAfter
  <2>3. \A i \in DOMAIN ack_channel' :
           ack_channel'[i] <= static_cfg_streamer'.seq
    <3>1. \/ ack_channel' = ack_channel
          \/ ack_channel' = Append(ack_channel, ack_seq_streamer)
      BY DEF WrapperStreamerEdge
    <3>2. ack_channel \in Seq(Nat)
      BY DEF WrapperInv, AckTypes
    <3>3. \A i \in DOMAIN ack_channel' :
            \/ i \in DOMAIN ack_channel /\ ack_channel'[i] = ack_channel[i]
            \/ ack_channel'[i] = ack_seq_streamer
      BY <3>1, <3>2
    <3>4. /\ \A i \in DOMAIN ack_channel :
               ack_channel[i] <= static_cfg_streamer.seq
          /\ ack_seq_streamer <= static_cfg_streamer.seq
      BY DEF HandshakeInv, AcknowledgedAfter
    <3> QED
      BY <1>6, <3>3, <3>4
  <2> QED
    BY <2>1, <2>2, <2>3 DEF AcknowledgedAfter
<1>9. PendingUntilCommitted'
  BY <1>2, <1>4, <1>6 DEF HandshakeInv, PendingUntilCommitted, Faithful
<1> QED
  BY <1>7, <1>8, <1>9 DEF HandshakeInv

\* Every step of the wrapper keeps the handshake.
LEMMA HandshakeStep ==
  WrapperInv /\ WrapperInv' /\ HandshakeInv /\ [IfNext]_ifVars => HandshakeInv'
<1> SUFFICES ASSUME WrapperInv, WrapperInv', HandshakeInv, [IfNext]_ifVars
             PROVE  HandshakeInv'
  OBVIOUS
<1>1. ASSUME UNCHANGED <<initial_value, cfg_channel, ack_channel,
                         static_cfg_streamer, initial_reload_seq_clk,
                         initial_reload_pending, ack_seq_streamer,
                         ack_seq_clk>>
      PROVE  HandshakeInv'
  BY <1>1 DEF HandshakeInv, CommittedInOrder, AcknowledgedAfter,
     PendingUntilCommitted, Faithful
<1>2. CASE UNCHANGED ifVars
  BY <1>1, <1>2 DEF ifVars, vars, wrapClkVars, wrapStreamerVars
<1>3. CASE StartReset
  BY <1>1, <1>3 DEF StartReset, AssertReset, wrapStreamerVars
<1>4. ASSUME NEW valid \in BOOLEAN, NEW write, NEW n,
             IfClkEdge(valid, write, n),
             write # "INIT_VAL" => UNCHANGED initial_value
      PROVE  HandshakeInv'
  BY <1>4, HandshakeClkEdge DEF IfClkEdge
<1>5. ASSUME NEW n, EndReset(n) PROVE HandshakeInv'
  BY <1>5, HandshakeClkEdge DEF EndReset, ReleaseReset
<1>6. CASE IfStreamerAny
  <2>1. PICK n : /\ WrapperStreamerEdge(n)
                 /\ UNCHANGED <<regVars, wrapClkVars, initial_value>>
    BY <1>6 DEF IfStreamerAny, IfStreamerTick, StreamerTick
  <2> QED
    BY <2>1, HandshakeStreamerEdge
<1> QED
  BY <1>2, <1>3, <1>4, <1>5, <1>6, WrapperSteps

\* Power-up: no request yet, and its number is 0 everywhere.
LEMMA HandshakeStart == IfInit => HandshakeInv
<1> SUFFICES ASSUME IfInit PROVE HandshakeInv
  OBVIOUS
<1>1. /\ static_cfg_streamer.seq = initial_reload_seq_clk
      /\ static_cfg_streamer.initial_value = initial_value
      /\ initial_reload_seq_clk = 0 /\ ack_seq_streamer = 0
      /\ ack_seq_clk = 0
      /\ DOMAIN cfg_channel = {} /\ DOMAIN ack_channel = {}
  BY DEF IfInit, static_cfg_clk
<1> QED
  BY <1>1 DEF HandshakeInv, CommittedInOrder, AcknowledgedAfter,
     PendingUntilCommitted, Faithful

\* Behind its wrapper a streamer keeps the invariant it keeps alone: every
\* register its type, the input FIFOs never over-full, the slack of the output
\* FIFO never used up.
THEOREM WrapperInvariance == IfSpec => []WrapperInv
BY WrapperStart, WrapperStep, PTL DEF IfSpec

\* When no reload is outstanding, the value committed in streamer_clk is the
\* one software wrote last, however the two crossings delay and collapse what
\* they carry.
THEOREM HandshakeIsTrue == IfSpec => []LatestCommitted
<1>1. HandshakeInv => LatestCommitted
  BY DEF HandshakeInv, CommittedInOrder, Faithful, PendingUntilCommitted,
         LatestCommitted
<1>2. IfSpec => []HandshakeInv
  BY HandshakeStart, HandshakeStep, WrapperInvariance, PTL DEF IfSpec
<1> QED
  BY <1>1, <1>2, PTL
-----------------------------------------------------------------------------
\* During playback a step that plays no word leaves the pins alone.
LEMMA PinsStep ==
  ActiveInv /\ WrapperInv /\ [IfNext]_ifVars /\ Playing /\ played' = played
    => qout_pins' = qout_pins
<1> SUFFICES ASSUME ActiveInv, WrapperInv, [IfNext]_ifVars, Playing,
                    played' = played
             PROVE  qout_pins' = qout_pins
  OBVIOUS
<1>1. static_cfg_streamer' = static_cfg_streamer
  BY PlaybackStep
<1>2. SUFFICES trigger_latch' = trigger_latch /\ qout_fifo' = qout_fifo
  BY <1>1 DEF qout_pins, qout_streamer
<1>3. CASE UNCHANGED ifVars
  BY <1>3 DEF ifVars, vars, streamerClkVars, outReadVars
<1>4. CASE UNCHANGED <<outReadVars, trigger_latch>>
  BY <1>4 DEF outReadVars
<1>5. CASE IfStreamerAny
  <2>1. PICK g, in, en, f, tr, stop, soe :
               StreamerTick(g, in, en, f, tr, stop, soe)
    BY <1>5 DEF IfStreamerAny, IfStreamerTick
  <2> DEFINE rdreq == trigger_activated(stop, soe) /\ g
  <2>2. /\ OutputReadTick(streamer_rst, rdreq)
        /\ trigger_latch' = latches(rdreq)
        /\ played' = IF read_fire(rdreq) /\ ~streamer_rst
                       THEN Append(played, qc) ELSE played
    BY <2>1 DEF StreamerTick
  <2> HIDE DEF rdreq
  <2>3. ~streamer_rst
    BY DEF Playing
  <2>4. ~read_fire(rdreq)
    <3>1. played \in Seq(OutWord) /\ trigger_latch \in BOOLEAN
      BY DEF WrapperInv, IInv, TypeOK
    <3>2. Len(played) \in Nat /\ Len(Append(played, qc)) = Len(played) + 1
      BY <3>1
    <3>3. Append(played, qc) # played
      BY <3>2
    <3> QED
      BY <2>2, <2>3, <3>3
  <2>5. ~qout_written(streamer_rst, rdreq) /\ ~qout_written(FALSE, rdreq)
    BY <2>4 DEF qout_written, data_update, wr_last
  <2>6. qout_fifo' = qout_fifo
    BY <2>2, <2>3, <2>5 DEF OutputReadTick, ReadRun
  <2>7. trigger_latch \in BOOLEAN
    BY DEF WrapperInv, IInv, TypeOK
  <2> QED
    BY <2>2, <2>3, <2>5, <2>6, <2>7 DEF latches
<1> QED
  BY <1>3, <1>4, <1>5, StepKinds

\* The pins of a streamer behind its wrapper change only when a word is read
\* from the output FIFO, from the first word of a stream to its terminator.
THEOREM PinsFollowWords == IfSpec => PinsChangeOnlyByPlaying
<1>1. ActiveInv /\ WrapperInv /\ [IfNext]_ifVars
        => [Playing /\ played' = played => qout_pins' = qout_pins]_ifVars
  BY PinsStep
<1> QED
  BY <1>1, UnfinishedIsActive, WrapperInvariance, PTL
     DEF IfSpec, PinsChangeOnlyByPlaying
-----------------------------------------------------------------------------
(***************************************************************************)
(* The reload of the decoder.  Every request is acknowledged once, so a    *)
(* reload happens only while a request is outstanding; and while one is,   *)
(* the input is blocked and nothing of the program has been sent.          *)
(***************************************************************************)
\* The acknowledgements come back in order, each once, and the request is
\* outstanding until its own one has arrived.
AckOnce ==
  /\ ack_seq_clk <= ack_seq_streamer
  /\ \A i \in 1 .. Len(ack_channel) :
       ack_seq_clk < ack_channel[i] /\ ack_channel[i] <= ack_seq_streamer
  /\ \A i, j \in 1 .. Len(ack_channel) : i < j => ack_channel[i] < ack_channel[j]
  /\ ack_update =>
       /\ ack_seq_clk < ack_seq_streamer
       /\ \A i \in 1 .. Len(ack_channel) : ack_channel[i] < ack_seq_streamer
  /\ ~initial_reload_pending => ack_seq_clk = initial_reload_seq_clk /\ ~ack_valid_clk

\* The numbers of the acknowledgements do not exceed that of the last request.
LEMMA AckBounded ==
  ASSUME WrapperInv, HandshakeInv
  PROVE  ack_seq_streamer <= static_cfg_streamer.seq /\ ack_seq_streamer <= initial_reload_seq_clk
<1>1. /\ ack_seq_streamer \in Nat /\ static_cfg_streamer.seq \in Nat
      /\ initial_reload_seq_clk \in Nat
  BY HandshakeTypes
<1> QED
  BY <1>1 DEF HandshakeInv, AcknowledgedAfter, CommittedInOrder, Faithful

\* A reload is about a request that is outstanding.
LEMMA ReloadIsPending ==
  ASSUME AckOnce, initial_reload PROVE initial_reload_pending
BY DEF AckOnce, initial_reload

\* An edge of clk takes acknowledgements from the head of the channel.
LEMMA AckClkEdge ==
  ASSUME WrapperInv, HandshakeInv, AckOnce, NEW write, NEW n,
         WrapperClkEdge(write, n), UNCHANGED wrapStreamerVars
  PROVE  AckOnce'
<1>1. /\ n \in 0 .. Len(ack_channel) /\ ack_channel \in Seq(Nat)
      /\ ack_seq_clk' = Delivered(ack_channel, n, ack_seq_clk)
      /\ ack_channel' = Remaining(ack_channel, n) /\ ack_valid_clk' = (n > 0)
      /\ ack_seq_streamer' = ack_seq_streamer /\ ack_update' = ack_update
  BY DEF WrapperClkEdge, WrapperInv, AckTypes, wrapStreamerVars
<1>2. /\ Len(ack_channel) \in Nat /\ ack_seq_clk \in Nat /\ ack_seq_streamer \in Nat
      /\ initial_reload_seq_clk \in Nat
      /\ \A i \in 1 .. Len(ack_channel) : ack_channel[i] \in Nat
  BY HandshakeTypes
<1>3. /\ ack_channel' \in Seq(Nat) /\ Len(ack_channel') = Len(ack_channel) - n
      /\ \A i \in 1 .. (Len(ack_channel) - n) : ack_channel'[i] = ack_channel[i + n]
  BY <1>1, RemainingFacts
<1>4. \/ n = 0 /\ ack_seq_clk' = ack_seq_clk
      \/ n \in 1 .. Len(ack_channel) /\ ack_seq_clk' = ack_channel[n]
  BY <1>1 DEF Delivered
<1>5. /\ ack_seq_clk <= ack_seq_streamer
      /\ \A i \in 1 .. Len(ack_channel) :
           ack_seq_clk < ack_channel[i] /\ ack_channel[i] <= ack_seq_streamer
      /\ \A i, j \in 1 .. Len(ack_channel) : i < j => ack_channel[i] < ack_channel[j]
      /\ ack_update =>
           /\ ack_seq_clk < ack_seq_streamer
           /\ \A i \in 1 .. Len(ack_channel) : ack_channel[i] < ack_seq_streamer
  BY DEF AckOnce
<1>6. ack_seq_clk' <= ack_seq_streamer
  BY <1>4, <1>5
<1>7. ASSUME NEW i \in 1 .. Len(ack_channel')
      PROVE  /\ i + n \in 1 .. Len(ack_channel) /\ ack_channel'[i] = ack_channel[i + n]
             /\ ack_seq_clk' < ack_channel'[i] /\ ack_channel'[i] <= ack_seq_streamer
  <2>1. i + n \in 1 .. Len(ack_channel) /\ n < i + n /\ ack_channel'[i] = ack_channel[i + n]
    BY <1>1, <1>2, <1>3
  <2>2. ack_seq_clk' < ack_channel[i + n]
    BY <1>4, <1>5, <2>1
  <2> QED
    BY <1>5, <2>1, <2>2
<1>8. ASSUME NEW i \in 1 .. Len(ack_channel'), NEW j \in 1 .. Len(ack_channel'), i < j
      PROVE  ack_channel'[i] < ack_channel'[j]
  <2>1. i + n < j + n
    BY <1>1, <1>2, <1>8
  <2> QED
    BY <1>5, <1>7, <2>1
<1>9. ack_update => /\ ack_seq_clk' < ack_seq_streamer
                    /\ \A i \in 1 .. Len(ack_channel') : ack_channel'[i] < ack_seq_streamer
  BY <1>4, <1>5, <1>7
<1>10. ASSUME ~initial_reload_pending'
       PROVE  ack_seq_clk' = initial_reload_seq_clk' /\ ~ack_valid_clk'
  <2>1. /\ initial_reload_seq_clk' = initial_reload_seq_clk
        /\ ~initial_reload_pending \/ initial_reload
    BY <1>10 DEF WrapperClkEdge, reload_outstanding
  <2>2. ack_seq_clk = initial_reload_seq_clk
    BY <2>1 DEF AckOnce, initial_reload
  <2>3. ack_seq_streamer <= initial_reload_seq_clk
    BY AckBounded
  <2>4. n = 0
    <3> SUFFICES ASSUME n \in 1 .. Len(ack_channel) PROVE FALSE
      BY <1>4
    <3>1. ack_seq_clk < ack_channel[n] /\ ack_channel[n] <= ack_seq_streamer /\ ack_channel[n] \in Nat
      BY <1>2, <1>5
    <3> QED
      BY <1>2, <2>2, <2>3, <3>1
  <2>5. ~(n > 0)
    BY <2>4
  <2>6. ~ack_valid_clk'
    BY <1>1, <2>5
  <2>7. ack_seq_clk' = ack_seq_clk
    BY <1>4, <2>4
  <2> QED
    BY <2>1, <2>2, <2>6, <2>7
<1> QED
  BY <1>1, <1>6, <1>7, <1>8, <1>9, <1>10 DEF AckOnce

\* An edge of streamer_clk acknowledges a request that is newer than those
\* acknowledged before.
LEMMA AckStreamerEdge ==
  ASSUME WrapperInv, HandshakeInv, AckOnce, NEW n, WrapperStreamerEdge(n),
         UNCHANGED <<regVars, wrapClkVars, initial_value>>
  PROVE  AckOnce'
<1>1. /\ ack_seq_clk' = ack_seq_clk /\ ack_valid_clk' = ack_valid_clk
      /\ initial_reload_pending' = initial_reload_pending
      /\ initial_reload_seq_clk' = initial_reload_seq_clk
  BY DEF wrapClkVars
<1>2. /\ Len(ack_channel) \in Nat /\ ack_seq_clk \in Nat /\ ack_seq_streamer \in Nat
      /\ static_cfg_streamer.seq \in Nat
      /\ \A i \in 1 .. Len(ack_channel) : ack_channel[i] \in Nat
  BY HandshakeTypes
<1>3. ack_channel \in Seq(Nat)
  BY DEF WrapperInv, AckTypes
<1>4. /\ ack_seq_streamer' = IF acknowledges THEN static_cfg_streamer.seq ELSE ack_seq_streamer
      /\ ack_update' = acknowledges
      /\ ack_channel' = IF ack_update THEN Append(ack_channel, ack_seq_streamer) ELSE ack_channel
  BY DEF WrapperStreamerEdge
<1>5. /\ ack_seq_streamer <= ack_seq_streamer' /\ ack_seq_streamer' \in Nat
      /\ ack_update' => ack_seq_streamer < ack_seq_streamer'
  BY <1>2, <1>4, AckBounded DEF acknowledges
<1>6. /\ ack_seq_clk <= ack_seq_streamer
      /\ \A i \in 1 .. Len(ack_channel) :
           ack_seq_clk < ack_channel[i] /\ ack_channel[i] <= ack_seq_streamer
      /\ \A i, j \in 1 .. Len(ack_channel) : i < j => ack_channel[i] < ack_channel[j]
      /\ ack_update =>
           /\ ack_seq_clk < ack_seq_streamer
           /\ \A i \in 1 .. Len(ack_channel) : ack_channel[i] < ack_seq_streamer
  BY DEF AckOnce
<1>7. /\ \A i \in 1 .. Len(ack_channel') :
           /\ ack_channel'[i] \in Nat
           /\ ack_seq_clk < ack_channel'[i] /\ ack_channel'[i] <= ack_seq_streamer
      /\ \A i, j \in 1 .. Len(ack_channel') : i < j => ack_channel'[i] < ack_channel'[j]
  <2>1. CASE ack_update
    <3>1. /\ Len(ack_channel') = Len(ack_channel) + 1
          /\ \A i \in 1 .. Len(ack_channel) : ack_channel'[i] = ack_channel[i]
          /\ ack_channel'[Len(ack_channel) + 1] = ack_seq_streamer
      BY <1>2, <1>3, <1>4, <2>1
    <3>2. \A i \in 1 .. Len(ack_channel') : i \in 1 .. Len(ack_channel) \/ i = Len(ack_channel) + 1
      BY <1>2, <3>1
    <3>3. \A i, j \in 1 .. Len(ack_channel') : i < j => i \in 1 .. Len(ack_channel)
      BY <1>2, <3>1
    <3> QED
      BY <1>2, <1>6, <2>1, <3>1, <3>2, <3>3
  <2>2. CASE ~ack_update
    BY <1>2, <1>4, <1>6, <2>2
  <2> QED
    BY <2>1, <2>2
<1>8. ack_seq_clk <= ack_seq_streamer'
  BY <1>2, <1>5, <1>6
<1>9. \A i \in 1 .. Len(ack_channel') : ack_channel'[i] <= ack_seq_streamer'
  BY <1>2, <1>5, <1>7
<1>10. ack_update' => /\ ack_seq_clk < ack_seq_streamer'
                      /\ \A i \in 1 .. Len(ack_channel') : ack_channel'[i] < ack_seq_streamer'
  BY <1>2, <1>5, <1>6, <1>7
<1>11. ~initial_reload_pending => ack_seq_clk = initial_reload_seq_clk /\ ~ack_valid_clk
  BY DEF AckOnce
<1> QED
  BY <1>1, <1>7, <1>8, <1>9, <1>10, <1>11 DEF AckOnce

\* Every step of the wrapper keeps the acknowledgements in order.
LEMMA AckStep ==
  WrapperInv /\ HandshakeInv /\ AckOnce /\ [IfNext]_ifVars => AckOnce'
<1> SUFFICES ASSUME WrapperInv, HandshakeInv, AckOnce, [IfNext]_ifVars PROVE AckOnce'
  OBVIOUS
<1>1. ASSUME UNCHANGED <<ack_channel, initial_reload_seq_clk, initial_reload_pending,
                         ack_seq_streamer, ack_update, ack_seq_clk, ack_valid_clk>>
      PROVE  AckOnce'
  BY <1>1 DEF AckOnce
<1>2. CASE UNCHANGED ifVars
  BY <1>1, <1>2 DEF ifVars, wrapClkVars, wrapStreamerVars
<1>3. CASE StartReset
  BY <1>1, <1>3 DEF StartReset, wrapStreamerVars
<1>4. ASSUME NEW valid \in BOOLEAN, NEW write, NEW n, IfClkEdge(valid, write, n)
      PROVE  AckOnce'
  BY <1>4, AckClkEdge DEF IfClkEdge
<1>5. ASSUME NEW n, EndReset(n) PROVE AckOnce'
  BY <1>5, AckClkEdge DEF EndReset
<1>6. CASE IfStreamerAny
  <2>1. PICK n : /\ WrapperStreamerEdge(n)
                 /\ UNCHANGED <<regVars, wrapClkVars, initial_value>>
    BY <1>6 DEF IfStreamerAny, IfStreamerTick, StreamerTick
  <2> QED
    BY <2>1, AckStreamerEdge
<1> QED
  BY <1>2, <1>3, <1>4, <1>5, <1>6, WrapperSteps

\* Power-up: nothing is outstanding.
LEMMA AckStart == IfInit => AckOnce
<1> SUFFICES ASSUME IfInit PROVE AckOnce
  OBVIOUS
<1>1. /\ ack_seq_clk = 0 /\ ack_seq_streamer = 0 /\ initial_reload_seq_clk = 0
      /\ ack_update = FALSE /\ ack_valid_clk = FALSE /\ Len(ack_channel) = 0
  BY DEF IfInit
<1>2. 1 .. 0 = {}
  OBVIOUS
<1> QED
  BY <1>1, <1>2 DEF AckOnce
-----------------------------------------------------------------------------
\* What is played is decoded from some word, which is the initial value unless
\* a reload is outstanding; and then nothing has been sent.
ReloadInv ==
  /\ \E base \in Word :
       PlayFrom(base) /\ (~reset /\ ~initial_reload_pending => base = initial_value)
  /\ initial_reload_pending /\ ~reset => pc = 1

\* An edge of clk, with a register written or not.
LEMMA ReloadClkEdge ==
  ASSUME WrapperInv, IInv', AckOnce, ReloadInv, NEW valid \in BOOLEAN, NEW write, NEW n,
         IfClkEdge(valid, write, n), write # "INIT_VAL" => UNCHANGED initial_value,
         write = "INIT_VAL" => (reset \/ pc = 1) /\ ~valid
  PROVE  ReloadInv'
<1>1. PICK base \in Word :
        PlayFrom(base) /\ (~reset /\ ~initial_reload_pending => base = initial_value)
  BY DEF ReloadInv
<1>2. /\ IInv /\ initial_value \in Word /\ reset \in BOOLEAN /\ pc \in Nat /\ initial_value' \in Word
  BY PlayTypes, InitialAssumption DEF WrapperInv, IInv, TypeOK
<1>3. PICK acc \in BOOLEAN : acc = (valid /\ ~block_input_for_initial_reload)
  OBVIOUS
<1>4. PICK data \in Element : data = IF Offering THEN prog[pc] ELSE Blank
  BY <1>2, IInvParts, OfferedElement
<1>5. /\ valid => Offering /\ (pc = 1 => IdleSeen)
      /\ ClkEdge(reset, acc, data, initial_reload, initial_value)
      /\ pc' = IF acc /\ ~full THEN pc + 1 ELSE pc
      /\ initial_reload_pending' = reload_outstanding(write)
      /\ UNCHANGED <<reset, prog, streamerClkVars>>
  BY <1>3, <1>4 DEF IfClkEdge, WrapperClkEdge
<1>6. initial_reload_pending /\ ~reset => ~acc /\ pc = 1
  <2>1. IdleSeen => streamer_idle_clk
    BY DEF IdleSeen, streamer_idle_clk
  <2>2. initial_reload_pending /\ ~reset => pc = 1
    BY DEF ReloadInv
  <2> QED
    BY <1>3, <1>5, <2>1, <2>2 DEF block_input_for_initial_reload
<1>7. initial_reload_pending' /\ ~reset' => pc' = 1
  <2> SUFFICES ASSUME initial_reload_pending', ~reset PROVE pc' = 1
    BY <1>5
  <2>1. write = "INIT_VAL" \/ initial_reload_pending
    BY <1>5 DEF reload_outstanding
  <2>2. pc = 1 /\ ~acc
    BY <1>3, <1>6, <2>1
  <2> QED
    BY <1>5, <2>2
<1>8. CASE reset
  <2>1. UNCHANGED settled
    BY <1>5 DEF streamerClkVars
  <2>2. PlayFrom(base)'
    BY <1>1, <1>5, <1>8, <2>1, PlayInReset
  <2> QED
    BY <1>5, <1>7, <1>8, <2>2 DEF ReloadInv
<1>9. CASE ~reset /\ initial_reload
  <2>1. initial_reload_pending /\ ~acc /\ pc = 1 /\ pc' = pc
    BY <1>5, <1>6, <1>9, ReloadIsPending
  <2>2. PICK init \in Word : init = initial_value
    BY <1>2
  <2>3. ClkEdge(FALSE, FALSE, data, TRUE, init)
    <3>1. reset = FALSE /\ acc = FALSE /\ initial_reload = TRUE
      BY <1>2, <1>9, <2>1 DEF initial_reload
    <3> QED
      BY <1>5, <2>2, <3>1
  <2>4. PlayFrom(init)'
    BY <1>1, <1>5, <1>9, <2>1, <2>3, PlayReloadEdge
  <2>5. ~initial_reload_pending' => init = initial_value'
    BY <1>5, <2>2 DEF reload_outstanding
  <2> QED
    BY <1>7, <2>4, <2>5 DEF ReloadInv
<1>10. CASE ~reset /\ ~initial_reload
  <2>1. ClkEdge(FALSE, acc, data, FALSE, initial_value)
    <3>1. reset = FALSE /\ initial_reload = FALSE
      BY <1>2, <1>10 DEF initial_reload
    <3> QED
      BY <1>5, <3>1
  <2>2. wrreq1(acc) => Offering /\ data = prog[pc]
    BY <1>3, <1>4, <1>5 DEF wrreq1
  <2>3. pc' = IF wrreq1(acc) THEN pc + 1 ELSE pc
    BY <1>5 DEF wrreq1, full
  <2>4. PlayFrom(base)'
    BY <1>1, <1>5, <1>10, <2>1, <2>2, <2>3, PlayClkEdge
  <2>5. ~initial_reload_pending' => base = initial_value'
    BY <1>1, <1>5, <1>10 DEF reload_outstanding
  <2> QED
    BY <1>7, <2>4, <2>5 DEF ReloadInv
<1> QED
  BY <1>8, <1>9, <1>10

\* The streamer's edges behind the wrapper play on from the same word.
LEMMA ReloadStreamerEdge ==
  ASSUME WrapperInv, ReloadInv, IfStreamerAny
  PROVE  ReloadInv'
<1>1. PICK base \in Word :
        PlayFrom(base) /\ (~reset /\ ~initial_reload_pending => base = initial_value)
  BY DEF ReloadInv
<1>2. PICK gate_in \in GateIn, in \in SUBSET TriggerInputs,
           enable_ext \in EnableIn, force_ext \in ForceIn,
           reset_ext \in TrigResetIn, n \in 0 .. MaxUpdates :
             IfStreamerTick(gate_in, in, enable_ext, force_ext, reset_ext, n)
  BY DEF IfStreamerAny
<1> DEFINE bits == ctrl_sync[3]
           en == bits.enable \/ enable_ext
           fc == bits.force \/ force_ext
           tr == bits.reset \/ reset_ext
           g == gate_enable(gate_in, in)
           soe == static_cfg_streamer.stop_on_buffer_error
<1>3. bits \in Bits /\ static_cfg_streamer \in Config
  BY DEF WrapperInv, SyncTypes, ConfigTypes
<1>4. bits.stop \in BOOLEAN /\ soe \in BOOLEAN
  BY <1>3 DEF Bits, Config
<1>5. en \in BOOLEAN /\ fc \in BOOLEAN /\ tr \in BOOLEAN /\ g \in BOOLEAN
  BY DEF gate_enable
<1>6. StreamerTick(g, in, en, fc, tr, bits.stop, soe)
  BY <1>2 DEF IfStreamerTick
<1> HIDE DEF bits, en, fc, tr, g, soe
<1>7. PlayFrom(base)'
  BY <1>1, <1>4, <1>5, <1>6, PlayStreamerTick
<1>8. UNCHANGED <<reset, pc, initial_value, initial_reload_pending>>
  BY <1>2, <1>6 DEF StreamerTick, clkVars, IfStreamerTick, wrapClkVars
<1> QED
  BY <1>1, <1>7, <1>8 DEF ReloadInv

\* Every step of the wrapper keeps what is played to what the program means.
LEMMA ReloadStepKeeps ==
  WrapperInv /\ WrapperInv' /\ AckOnce /\ ReloadInv /\ [IfNext]_ifVars => ReloadInv'
<1> SUFFICES ASSUME WrapperInv, WrapperInv', AckOnce, ReloadInv, [IfNext]_ifVars
             PROVE  ReloadInv'
  OBVIOUS
<1>0. IInv'
  BY DEF WrapperInv
<1>1. CASE UNCHANGED ifVars
  <2>1. PICK base \in Word :
          PlayFrom(base) /\ (~reset /\ ~initial_reload_pending => base = initial_value)
    BY DEF ReloadInv
  <2>2. UNCHANGED vars /\ UNCHANGED <<initial_reload_pending, reset, initial_value, pc>>
    BY <1>1 DEF ifVars, wrapClkVars, vars, clkVars
  <2>3. PlayFrom(base)'
    BY <1>0, <2>1, <2>2, PlayIdle
  <2> QED
    BY <2>1, <2>2, <2>3 DEF ReloadInv
<1>2. ASSUME NEW valid \in BOOLEAN, NEW write, NEW n, IfClkEdge(valid, write, n),
             write # "INIT_VAL" => UNCHANGED initial_value,
             write = "INIT_VAL" => (reset \/ pc = 1) /\ ~valid
      PROVE  ReloadInv'
  BY <1>0, <1>2, ReloadClkEdge
<1>3. CASE StartReset
  <2>1. reset' = TRUE /\ settled' = FALSE
    BY <1>3 DEF StartReset, AssertReset
  <2>2. PICK base \in Word : base = initial_value
    BY InitialIsWord DEF WrapperInv
  <2>3. PlayFrom(base)'
    BY <1>0, <2>1 DEF PlayFrom
  <2> QED
    BY <2>1, <2>3 DEF ReloadInv
<1>4. ASSUME NEW n, EndReset(n) PROVE ReloadInv'
  <2>1. PICK base \in Word : PlayFrom(base)
    BY DEF ReloadInv
  <2>2. ReleaseReset /\ pc' = 1
    BY <1>4 DEF EndReset, ReleaseReset
  <2>3. PlayInv'
    BY <2>1, <2>2, PlayRelease
  <2>4. initial_value' \in Word
    BY InitialAssumption DEF WrapperInv, IInv, TypeOK
  <2> QED
    BY <2>2, <2>3, <2>4 DEF ReloadInv, PlayInv
<1>5. CASE IfStreamerAny
  BY <1>5, ReloadStreamerEdge
<1> QED
  BY <1>1, <1>2, <1>3, <1>4, <1>5, WrapperSteps

\* With a reload outstanding nothing has been played, without one the initial
\* value is what the program is decoded from.
LEMMA ReloadPlays == ASSUME ReloadInv PROVE PlayedAsProgrammed
<1>1. PICK base \in Word :
        PlayFrom(base) /\ (~reset /\ ~initial_reload_pending => base = initial_value)
  BY DEF ReloadInv
<1>2. OutputCounters
  BY <1>1 DEF PlayFrom, ReadInv, WordsTold, Tells, OutputCounters
<1>3. ASSUME ~reset PROVE IsPrefix(played, Expected)
  <2>1. CASE ~initial_reload_pending
    BY <1>1, <1>3, <2>1, PlayedExpected DEF PlayInv
  <2>2. CASE initial_reload_pending
    <3>1. played = <<>>
      BY <1>1, <1>3, <2>2, NothingSentYet DEF ReloadInv, NothingSent
    <3>2. Plays(prog) /\ initial_value \in Word
      BY <1>1, PlayTypes DEF PlayFrom
    <3> QED
      BY <3>1, <3>2, NothingExpected
  <2> QED
    BY <2>1, <2>2
<1> QED
  BY <1>2, <1>3 DEF PlayedAsProgrammed

\* Behind its wrapper, too, a streamer plays what the program means, from the
\* initial value software wrote last: a reload of the decoder throws away no
\* element, however late it comes and however the crossings collapse writes.
THEOREM ReloadsAgree == IfSpec => []ReloadAgrees
<1>1. IfInit => ReloadInv
  <2> SUFFICES ASSUME IfInit PROVE ReloadInv
    OBVIOUS
  <2>1. PlayInv /\ initial_reload_pending = FALSE
    BY PlayStart DEF IfInit
  <2>2. initial_value \in Word
    BY <2>1, PlayTypes DEF PlayInv, PlayFrom
  <2> QED
    BY <2>1, <2>2 DEF ReloadInv, PlayInv
<1>2. IfSpec => []HandshakeInv
  BY HandshakeStart, HandshakeStep, WrapperInvariance, PTL DEF IfSpec
<1>3. IfSpec => []AckOnce
  BY <1>2, AckStart, AckStep, WrapperInvariance, PTL DEF IfSpec
<1>4. IfSpec => []ReloadInv
  BY <1>1, <1>3, ReloadStepKeeps, WrapperInvariance, PTL DEF IfSpec
<1>5. ReloadInv => PlayedAsProgrammed
  BY ReloadPlays
<1> QED
  BY <1>4, <1>5, HandshakeIsTrue, PTL DEF ReloadAgrees
=============================================================================
