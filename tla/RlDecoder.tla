----------------------------- MODULE RlDecoder -----------------------------
(***************************************************************************)
(* The run-length decoder of ip/streamer/rl_decoder.sv with its            *)
(* pseudorandom generator (ip/streamer/prng.sv), one posedge of clk at a   *)
(* time.                                                                   *)
(***************************************************************************)
EXTENDS Elements

VARIABLES
  prev_value,                           \* last emitted sample
  curr_value, curr_cnt, curr_control,   \* the run being emitted
  out_wrreq, out_data, out_control,     \* registered write to the output FIFO
  prng_k                                \* advances of the generator

decoderVars == <<prev_value, curr_value, curr_cnt, curr_control,
                 out_wrreq, out_data, out_control, prng_k>>

DecoderInit(initial_data) ==
  /\ prev_value = initial_data
  /\ curr_value = {} /\ curr_cnt = 0 /\ curr_control = {}
  /\ out_wrreq = FALSE /\ out_data = {} /\ out_control = {}
  /\ prng_k = 0
-----------------------------------------------------------------------------
curr_is_prng == "PRNG" \in curr_control
emit_value == IF curr_is_prng THEN Rnd(prng_k) ELSE curr_value

\* Mutant: the decoder ignores the back-pressure.
MutIgnoresThrottle(out_almost_full) == curr_cnt # 0
can_emit(out_almost_full) == curr_cnt # 0 /\ ~out_almost_full
finishing_run(out_almost_full) == can_emit(out_almost_full) /\ curr_cnt = 1
can_load_next(out_almost_full) ==
  curr_cnt = 0 \/ finishing_run(out_almost_full)

\* load_base: the sample a bit operation starts from.
\* Mutant: always the last sample already emitted.
MutStaleBase(out_almost_full) == prev_value
load_base(out_almost_full) ==
  IF finishing_run(out_almost_full) THEN emit_value ELSE prev_value

\* in_rdreq: the element at the input is popped at this edge.
load_fire(rst, reload, in_valid, out_almost_full) ==
  ~rst /\ ~reload /\ can_load_next(out_almost_full) /\ in_valid

DecoderReload(initial_data) ==
  /\ prev_value' = initial_data
  /\ curr_value' = {} /\ curr_cnt' = 0 /\ curr_control' = {}
  /\ out_wrreq' = FALSE /\ out_data' = {} /\ out_control' = {}

\* Emit one sample of the current run if there is room, and load the element
\* e when the run is over or ends now.  A run of length zero is dropped.
DecoderRun(in_valid, e, out_almost_full) ==
  LET emit == can_emit(out_almost_full)
      load == load_fire(FALSE, FALSE, in_valid, out_almost_full) /\ e.cnt # 0
  IN
  /\ out_wrreq' = emit
  /\ out_data' = IF emit THEN emit_value ELSE out_data
  /\ out_control' = IF emit THEN curr_control ELSE out_control
  /\ prev_value' = IF emit THEN emit_value ELSE prev_value
  /\ curr_value' = IF load
                    THEN apply_op(load_base(out_almost_full), e.val, e.mode)
                    ELSE curr_value
  /\ curr_cnt' = IF load THEN e.cnt
                 ELSE IF emit THEN curr_cnt - 1 ELSE curr_cnt
  /\ curr_control' = IF load THEN e.control ELSE curr_control

\* One posedge of clk.  Only the reset restarts the generator; it advances at
\* every emitted pseudorandom sample, even while the decoder is reloaded.
DecoderTick(rst, reload, in_valid, e, initial_data, out_almost_full) ==
  /\ IF rst \/ reload THEN DecoderReload(initial_data)
                      ELSE DecoderRun(in_valid, e, out_almost_full)
  /\ prng_k' = CASE rst -> 0
                 [] ~rst /\ can_emit(out_almost_full) /\ curr_is_prng ->
                      (prng_k + 1) % Len(PrngOrbit)
                 [] OTHER -> prng_k

DecoderTypeOK ==
  /\ prev_value \in Word /\ curr_value \in Word /\ out_data \in Word
  /\ curr_cnt \in Nat /\ prng_k \in Nat
  /\ curr_control \in SUBSET ControlBits
  /\ out_control \in SUBSET ControlBits
  /\ out_wrreq \in BOOLEAN
=============================================================================
