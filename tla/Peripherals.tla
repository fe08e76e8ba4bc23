---------------------------- MODULE Peripherals ----------------------------
(***************************************************************************)
(* The devices around the board as the host drives them: the DAC of the    *)
(* PMOD DA3 over the streamer's own pins (c++/SPI.hh, c++/PMODDA3.hh), and *)
(* over I2C (c++/I2C.hh) the AD5693 DAC that steers the oscillator         *)
(* (c++/DAC.hh, with the control loop of c++/PID.hh and                    *)
(* c++/pptool_measurement.cc) and the MCP9808 thermometer (c++/MCP9808.hh).*)
(*                                                                         *)
(* Voltages, errors and temperatures are whole numbers of a small unit.    *)
(***************************************************************************)
EXTENDS Waveforms

Clamp(x, lo, hi) == IF x < lo THEN lo ELSE IF x > hi THEN hi ELSE x
\* x / y, rounded to the nearest whole number, halves upward, for y > 0.
RoundedQuotient(x, y) == (2 * x + y) \div (2 * y)
-----------------------------------------------------------------------------
(***************************************************************************)
(* SPI.hh: the builder emits the states the encoder of tools/spi_payload   *)
(* emits, but as elements, whose counts must not overflow.                 *)
(***************************************************************************)
SequenceBuilder(cfg, words) ==
  LET built == FoldLeft(LAMBDA e, w : write_word(cfg, e, w), clear_encoder(cfg), words)
  IN  IF ~validate_config(cfg) \/ \E i \in DOMAIN built.tokens :
                                     built.tokens[i].cnt > MAX_COUNT_T
        THEN Error
        ELSE built.tokens
builder_half_period(decoder_clock, spi_clock) ==
  IF decoder_clock <= 0 \/ spi_clock <= 0 THEN Error
  ELSE Fits(half_period_ticks(decoder_clock, spi_clock), MAX_COUNT_T)

\* PMODDA3.hh.  Mode 0, chip select active low, the auxiliary pin (~LDAC) low.
default_spi_config(half) ==
  [mode |-> 0, cs_high |-> FALSE, setup |-> 2, hold |-> 2, post |-> 4, half |-> half,
   msb_first |-> TRUE, aux_default |-> FALSE, sclk |-> 3, mosi |-> 1, cs |-> 0, aux |-> 2]

FullScale == 2^(2 * BYTE)
code_from_voltage(volts, vref) ==
  IF vref <= 0 THEN Error
  ELSE Clamp(RoundedQuotient(FullScale * Clamp(volts, 0, vref), vref), 0, FullScale - 1)
transaction_for_code(code, cfg) == SequenceBuilder(cfg, <<BitsOf(code, 2 * BYTE)>>)
transaction_for_voltage(volts, vref, cfg) ==
  transaction_for_code(code_from_voltage(volts, vref), cfg)
-----------------------------------------------------------------------------
(***************************************************************************)
(* The I2C bus.  A transfer is one message, or it fails as a whole.        *)
(***************************************************************************)
AddressOK(addr7) == addr7 \in 3 .. 119
write_reg2(reg, bytes) == <<reg>> \o bytes

\* AD5693.
CMD_WRITE_DAC_AND_INPUT == "write_dac"
CMD_WRITE_CONTROL == "write_control"
write_cmd16(cmd, word) == write_reg2(cmd, <<word \div 2^BYTE, word % 2^BYTE>>)
write_control(gain_2x, ref_disable) ==
  write_cmd16(CMD_WRITE_CONTROL, (IF ref_disable THEN 2^(BYTE + 4) ELSE 0)
                                   + IF gain_2x THEN 2^(BYTE + 3) ELSE 0)
set_voltage(vout, vref, gain) ==
  IF vref <= 0 \/ gain \notin {1, 2} THEN Error
  ELSE write_cmd16(CMD_WRITE_DAC_AND_INPUT,
                   Clamp(RoundedQuotient(vout * (FullScale - 1), vref * gain), 0, FullScale - 1))

\* MCP9808: two bytes, of which the low BYTE + 4 bits are the magnitude and the
\* next one is the sign; the flags above are ignored.
SIGN == 2^(BYTE + 4)
decode_temp_c(msb, lsb) ==
  LET raw == msb * 2^BYTE + lsb
  IN  (raw % SIGN) - IF (raw \div SIGN) % 2 = 1 THEN SIGN ELSE 0
\* pptemp's table: which columns it has, a line of it, and the line of a reading
\* that failed.  A line is a list of columns; temperatures are in sixteenths of
\* a degree times five, which makes those in Fahrenheit and Kelvin whole.
print_csv_header(args) ==
  <<"timestamp", "temp_c">> \o (IF args.fahrenheit THEN <<"temp_f">> ELSE <<>>)
                            \o (IF args.kelvin THEN <<"temp_k">> ELSE <<>>)
format_line(args, t_c) ==
  (IF args.csv \/ args.timestamp THEN <<"now">> ELSE <<>>)
    \o <<5 * t_c>> \o (IF args.fahrenheit THEN <<9 * t_c + 80 * 32>> ELSE <<>>)
                   \o (IF args.kelvin THEN <<5 * t_c + 21852>> ELSE <<>>)
emit_quiet_error_placeholder(args) ==
  IF ~args.csv THEN <<>>
  ELSE <<<<"now", "NaN">> \o (IF args.fahrenheit THEN <<"NaN">> ELSE <<>>)
                          \o (IF args.kelvin THEN <<"NaN">> ELSE <<>>)>>
-----------------------------------------------------------------------------
(***************************************************************************)
(* The control loop of ppgpsdo: pairs of time stamps give a phase, its     *)
(* change is rejected when it is absurd, clipped, averaged, and steers the *)
(* DAC through the PID controller.  Products of gains and errors stay      *)
(* whole: an average of nr errors counts in units of 1/nr.                 *)
(***************************************************************************)
Sgn(x) == IF x > 0 THEN 1 ELSE IF x < 0 THEN -1 ELSE 0
AbsVal(x) == x * Sgn(x)

InitialPid == [i |-> 0, has_t |-> FALSE, control |-> 0]
\* pid holds kp, ki, the dead bands dp and di, the leak eps and the limits umin
\* and umax; dt is the time since the update before.  kd is zero, as ppgpsdo
\* leaves it.
update(pid, st, e, dt) ==
  LET p == pid.kp * (IF AbsVal(e) > pid.dp THEN e ELSE 0)
      i_candidate == (1 - pid.eps) * st.i
                       + pid.ki * (IF AbsVal(e) > pid.di THEN e ELSE 0) * dt
      u_unsat == p + i_candidate
      u_sat == Clamp(u_unsat, pid.umin, pid.umax)
      pushes == (u_sat >= pid.umax /\ e > 0) \/ (u_sat <= pid.umin /\ e < 0)
      i == IF u_unsat # u_sat /\ pushes THEN st.i ELSE i_candidate
  IN  IF ~st.has_t
        THEN [st EXCEPT !.has_t = TRUE, !.control = Clamp(pid.kp * e + st.i, pid.umin, pid.umax)]
        ELSE [i |-> i, has_t |-> TRUE, control |-> Clamp(p + i, pid.umin, pid.umax)]

dac_linear(lin, x) == Clamp(lin.k + lin.l * x, lin.ymin, lin.ymax)

\* The aggregation task on one pair, dt after the one before: loop is
\* [cnt, diff_prev, sum, ctr, pid, dac]; dac is the last message to the DAC.
Steered(cfg, loop, delta, dt) ==
  LET sum == loop.sum + (IF AbsVal(delta) < cfg.clip THEN delta ELSE cfg.clip * Sgn(delta))
      pid == update(cfg.pid, loop.pid, sum, dt)
  IN  IF loop.ctr + 1 < cfg.avg
        THEN [loop EXCEPT !.sum = sum, !.ctr = @ + 1]
        ELSE [loop EXCEPT !.sum = 0, !.ctr = 0, !.pid = pid,
                          !.dac = set_voltage(dac_linear(cfg.linear, pid.control),
                                              cfg.vref, cfg.gain)]
AggregationTask(cfg, loop, diff, dt) ==
  LET delta == IF loop.cnt > 0 THEN loop.diff_prev - diff ELSE 0
      after == IF loop.cnt > 0 /\ AbsVal(delta) < cfg.reject
                 THEN Steered(cfg, loop, delta, dt) ELSE loop
  IN  [after EXCEPT !.cnt = @ + 1, !.diff_prev = diff]
InitialLoop(cfg) ==
  [cnt |-> 0, diff_prev |-> 0, sum |-> 0, ctr |-> 0, pid |-> InitialPid,
   dac |-> set_voltage(cfg.start, cfg.vref, cfg.gain)]
=============================================================================
