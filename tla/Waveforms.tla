----------------------------- MODULE Waveforms -----------------------------
(***************************************************************************)
(* The programs that make sequences: the generators of c++/sequences.hh,   *)
(* the function generator of c++/ppfg.hh, and the SPI encoder of           *)
(* tools/spi_payload with the two devices it programs.                     *)
(***************************************************************************)
EXTENDS SequenceFiles

CONSTANTS
  BYTE,          \* bits of a byte: 8
  FULL_DUTY,     \* 100 percent
  SERVO_PERIOD   \* 20 ms, in units of the shortest servo pulse
-----------------------------------------------------------------------------
(***************************************************************************)
(* sequences.hh.  A generator that draws numbers is the set of the         *)
(* sequences it may return.                                                *)
(***************************************************************************)
prepare_counter_sequence(v, c) ==
  [i \in 1 .. v |-> Regular(c, "LOAD", WordOf(i - 1))]

\* Blocks of random length, no two neighbours of which show the same value;
\* the first one is a load.
prepare_general_random_test_sequence(nr, max_block_len, Operands) ==
  LET Block == {Regular(len, mode, v) : len \in 1 .. max_block_len, mode \in BitOps,
                                        v \in Operands}
      Values(s) == [i \in DOMAIN s |-> convert_to_BitLoad(s, {})[i].val]
  IN  {s \in [1 .. nr -> Block] :
         /\ nr > 0 => s[1].mode = "LOAD"
         /\ \A i \in 1 .. nr :
              Values(s)[i] # IF i = 1 THEN {} ELSE Values(s)[i - 1]}
prepare_random_test_sequence(nr, max_block_len, Operands) ==
  {s \in prepare_general_random_test_sequence(nr, max_block_len, Operands) :
     \A i \in 1 .. nr : s[i].mode = "LOAD"}

prepare_random_pulses(nr, max_block_len) ==
  {FlattenSeq([i \in 1 .. nr |-> <<Regular(waits[i], "LOAD", {}),
                                   Regular(1, "LOAD", {0})>>]) :
     waits \in [1 .. nr -> 1 .. max_block_len]}
prepare_equally_spaced_pulses(nr, block_len) ==
  FlattenSeq([i \in 1 .. nr |-> <<Regular(block_len - 1, "LOAD", {}),
                                  Regular(1, "LOAD", {0})>>])
-----------------------------------------------------------------------------
(***************************************************************************)
(* ppfg.hh.  Times are whole numbers of half clock periods, duties whole   *)
(* parts of FULL_DUTY.                                                     *)
(***************************************************************************)
Rounded(halves) == (halves + 1) \div 2

\* Mutant: the short end of the split is not repaired.
MutNoRepair(halves, duty) ==
  LET nr == IF Rounded(halves) > 0 THEN Rounded(halves) ELSE 2
      pos == (duty * nr) \div FULL_DUTY
  IN  IF halves <= 0 \/ duty < 0 \/ duty > FULL_DUTY THEN Error
      ELSE <<pos, nr - pos>>
calc_pos_neg(halves, duty) ==
  LET nr == IF Rounded(halves) > 0 THEN Rounded(halves) ELSE 2
      some == IF (duty * nr) \div FULL_DUTY > 0 THEN (duty * nr) \div FULL_DUTY ELSE 1
      pos == IF some = nr THEN some - 1 ELSE some
  IN  IF \/ halves <= 0
         \/ duty < 0 \/ duty > FULL_DUTY
         \/ pos = 0 \/ pos > MAX_COUNT_T \/ nr - pos > MAX_COUNT_T
        THEN Error ELSE <<pos, nr - pos>>

calc_delay(halves) ==
  IF halves < 0 THEN Error ELSE Fits(Rounded(halves), MAX_COUNT_T)

\* The stored period: the two halves of it, in slots 0 and 1.
StoredPeriod(nr_pos, nr_neg, v1, v0, start0) ==
  LET high == Regular(nr_pos, "LOAD", v1)
      low == Regular(nr_neg, "LOAD", v0)
  IN  IF start0 THEN <<stored_in(low, 0), stored_in(high, 1)>>
                ELSE <<stored_in(high, 0), stored_in(low, 1)>>
Delay(nr_delay, v0) ==
  IF nr_delay > 0 THEN <<Regular(nr_delay, "LOAD", v0)>> ELSE <<>>

seq_continuous(p, m, nr_delay, nr_pos, nr_neg, v1, v0, start0) ==
  <<Trigger(p, m, TRUE)>> \o StoredPeriod(nr_pos, nr_neg, v1, v0, start0)
    \o Delay(nr_delay, v0) \o <<Replay(0, 2), Final("LOAD", default_final_value)>>
seq_burst(p, m, nr_delay, nr_pos, nr_neg, v1, v0, rep, start0, final) ==
  <<Trigger(p, m, TRUE)>> \o StoredPeriod(nr_pos, nr_neg, v1, v0, start0)
    \o Delay(nr_delay, v0) \o <<Replay(rep, 2), NoStrobe(1, final)>>
seq_once(p, m, nr_delay, nr_pos, nr_neg, v1, v0, final) ==
  <<Trigger(p, m, TRUE)>> \o Delay(nr_delay, v0)
    \o <<Regular(nr_pos, "LOAD", v1), Regular(nr_neg, "LOAD", v0), Final("LOAD", final)>>

\* n_max bursts, each after a trigger of its own; the last one ends the sequence.
burst_train(burst, n_max, final) ==
  FlattenSeq([n \in 1 .. n_max |->
    Append(burst, IF n < n_max THEN Retrig(default_final_value) ELSE Final("LOAD", final))])

\* The duration of a pulse in clock periods, at least one.
calc_duration_nr(halves) ==
  IF halves < 0 THEN Error
  ELSE Fits(IF Rounded(halves) > 0 THEN Rounded(halves) ELSE 1, MAX_COUNT_T)

\* The pulse of a servo, one to two units long, for an angle of 0 .. FULL_DUTY
\* parts of the range, in parts of FULL_DUTY of a unit.
servo_pwm_pulse_width(angle) ==
  FULL_DUTY + (IF angle < 0 THEN 0 ELSE IF angle > FULL_DUTY THEN FULL_DUTY ELSE angle)

\* The period asked for, in units, and the duty: -servo replaces both unless
\* the period is given.
resolve_ppfg_timing(period, freq_period, duty, servo) ==
  LET asked == IF period # None THEN period ELSE freq_period
      unit == IF asked = None THEN SERVO_PERIOD ELSE asked
  IN  IF period # None /\ freq_period # None THEN Error
      ELSE IF servo # None
        THEN IF unit = 0 THEN <<0, 0>>     \* refused by calc_pos_neg
             ELSE <<unit, servo_pwm_pulse_width(servo) \div unit>>
        ELSE <<IF asked = None THEN 0 ELSE asked,
               IF duty = None THEN FULL_DUTY \div 2 ELSE duty>>
-----------------------------------------------------------------------------
(***************************************************************************)
(* SpiRleEncoder.  A configuration holds the pins and the timing; the      *)
(* encoder holds its tokens (runs of pin levels), whether the device is    *)
(* selected, and the level of MOSI and of the auxiliary pin.               *)
(***************************************************************************)
Cpol(cfg) == cfg.mode \in {2, 3}
Cpha(cfg) == cfg.mode \in {1, 3}

validate_config(cfg) ==
  /\ cfg.mode \in 0 .. 3
  /\ {cfg.sclk, cfg.mosi, cfg.cs, cfg.aux} \subseteq Pins
  /\ Cardinality({cfg.sclk, cfg.mosi, cfg.cs, cfg.aux}) = 4

half_period_ticks(decoder_clock, spi_clock) ==
  LET r == (decoder_clock + spi_clock) \div (2 * spi_clock)
  IN  IF r < 1 THEN 1 ELSE r

compose_pins(cfg, sclk, mosi, selected, aux) ==
  {b \in {cfg.sclk} : sclk} \cup {b \in {cfg.mosi} : mosi}
    \cup {b \in {cfg.cs} : selected = cfg.cs_high} \cup {b \in {cfg.aux} : aux}

\* Joins a run to a list of runs.
PushRun(runs, pins, ticks) ==
  IF runs # <<>> /\ Last(runs).val = pins
    THEN [runs EXCEPT ![Len(runs)].cnt = @ + ticks]
    ELSE Append(runs, Regular(ticks, "LOAD", pins))
\* Joins two lists of runs; src has no equal neighbours.
append_tokens(dst, src) ==
  IF dst = <<>> \/ src = <<>> THEN dst \o src
  ELSE PushRun(dst, Head(src).val, Head(src).cnt) \o Tail(src)

emit_state(cfg, enc, sclk, mosi, selected, ticks) ==
  IF ticks = 0 THEN enc
  ELSE [enc EXCEPT !.tokens = PushRun(@, compose_pins(cfg, sclk, mosi, selected, enc.aux),
                                      ticks),
                   !.mosi = mosi]
emit_idle(cfg, enc, ticks) == emit_state(cfg, enc, Cpol(cfg), enc.mosi, FALSE, ticks)

clear_encoder(cfg) ==
  emit_idle(cfg, [tokens |-> <<>>, selected |-> FALSE, mosi |-> FALSE,
                  aux |-> cfg.aux_default], 1)
set_aux(enc, value) == [enc EXCEPT !.aux = value]

select(cfg, enc) ==
  IF enc.selected THEN enc
  ELSE emit_state(cfg, [enc EXCEPT !.selected = TRUE], Cpol(cfg), enc.mosi, TRUE,
                  cfg.setup)
deselect(cfg, enc) ==
  IF ~enc.selected THEN enc
  ELSE LET held == emit_state(cfg, enc, Cpol(cfg), enc.mosi, TRUE, cfg.hold)
       IN  emit_state(cfg, [held EXCEPT !.selected = FALSE], Cpol(cfg), held.mosi,
                      FALSE, IF cfg.post > 0 THEN cfg.post ELSE 1)

\* Mutant: the phase of the clock is ignored.
MutNoPhase(cfg, enc, bit) ==
  emit_state(cfg, emit_state(cfg, enc, Cpol(cfg), bit, TRUE, cfg.half),
             ~Cpol(cfg), bit, TRUE, cfg.half)
write_bit(cfg, enc, bit) ==
  LET idle == Cpol(cfg)
      Half(e, level) == emit_state(cfg, e, level, bit, TRUE, cfg.half)
  IN  IF ~enc.selected THEN Error
      ELSE IF ~Cpha(cfg) THEN Half(Half(enc, idle), ~idle)
      ELSE Half(Half(enc, ~idle), idle)

\* A byte is a list of bits, the most significant one first.
write_byte(cfg, enc, byte) ==
  FoldLeft(LAMBDA e, b : write_bit(cfg, e, b), enc,
           IF cfg.msb_first THEN byte ELSE Reverse(byte))
write_word16(cfg, enc, word) ==
  LET high == SubSeq(word, 1, BYTE)
      low == SubSeq(word, BYTE + 1, 2 * BYTE)
  IN  IF cfg.msb_first THEN write_byte(cfg, write_byte(cfg, enc, high), low)
                       ELSE write_byte(cfg, write_byte(cfg, enc, low), high)
write_word(cfg, enc, word) == deselect(cfg, write_word16(cfg, select(cfg, enc), word))
dump_tokens_seq(tokens) == [seq |-> tokens, force |-> TRUE]
-----------------------------------------------------------------------------
(***************************************************************************)
(* The devices: the words that program the AD9833 generator (a frequency   *)
(* in two halves, low half first) and the MCP41010 potentiometer.          *)
(***************************************************************************)
BitsOf(n, width) == [k \in 1 .. width |-> (n \div 2^(width - k)) % 2 = 1]
HALF == 2 * BYTE - 2

ControlFlags == <<"B28", "HLB", "FSELECT", "PSELECT", "RESET", "SLEEP1",
                  "SLEEP12", "OPBITEN", "DIV2", "MODE">>
set_control_bit(control, flag, enabled) ==
  IF enabled THEN control \cup {flag} ELSE control \ {flag}
set_waveform(control, waveform) ==
  (control \ {"OPBITEN", "DIV2", "MODE"})
    \cup CASE waveform = "sine" -> {}
           [] waveform = "triangle" -> {"MODE"}
           [] waveform = "square" -> {"OPBITEN", "DIV2"}
           [] waveform = "square_div2" -> {"OPBITEN"}
control_word(control) ==
  <<FALSE, FALSE>> \o [k \in 1 .. HALF |-> k <= Len(ControlFlags)
                                           /\ ControlFlags[k] \in control]

frequency_word(reg, value) ==
  IF value >= 2^HALF THEN Error ELSE <<reg = 1, reg = 0>> \o BitsOf(value, HALF)
frequency_words(reg, tuning_word) ==
  IF tuning_word >= 2^(2 * HALF) THEN Error
  ELSE <<frequency_word(reg, tuning_word % 2^HALF), frequency_word(reg, tuning_word \div 2^HALF)>>
phase_word(reg, value) ==
  IF value >= 2^(HALF - 1) THEN Error
  ELSE <<TRUE, TRUE, reg = 1>> \o BitsOf(value, HALF - 1)
tuning_word_for_frequency(output, master) ==
  LET scale == 2^(2 * HALF)
  IN  IF output < 0 \/ master <= 0 \/ output * scale > (scale - 1) * master THEN Error
      ELSE (2 * output * scale + master) \div (2 * master)

\* The programming of the generator: reset, frequency, phase, run.
ProgramDds(tuning_word) ==
  LET control == set_waveform({"B28"}, "sine")
  IN  <<control_word(set_control_bit(control, "RESET", TRUE))>>
        \o frequency_words(0, tuning_word)
        \o <<phase_word(0, 0), control_word(set_control_bit(control, "RESET", FALSE))>>

command_word(cmd, data) ==
  BitsOf(IF cmd = "write" THEN 1 ELSE 2, BYTE) \o BitsOf(data, BYTE)
wiper_for_gain(gain, max_gain) ==
  LET clipped == IF gain < 0 THEN 0 ELSE IF gain > max_gain THEN max_gain ELSE gain
  IN  (2 * (2^BYTE - 1) * clipped + max_gain) \div (2 * max_gain)
=============================================================================
