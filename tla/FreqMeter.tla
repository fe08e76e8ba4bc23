----------------------------- MODULE FreqMeter -----------------------------
(***************************************************************************)
(* The frequency meter: ip/freq_meter/freq_meter.sv, its driver            *)
(* c++/freq_meter.hh, and ppfreq (c++/pptool_measurement.cc).              *)
(*                                                                         *)
(* The four channels share one gate; one of them is modelled.  Its clock   *)
(* is steady, so that the two stages behind its Gray counter delay every   *)
(* count alike and are left out.  One Cycle is a cycle of the reference    *)
(* clock and of the bus clock, which run at one rate.                      *)
(***************************************************************************)
EXTENDS SequenceOps

CONSTANTS
  COUNTER_W,      \* width of the edge counters and of the gate length
  CYCLES_PER_US,  \* the reference clock: 50
  SETTLE_US,      \* cdc_settle, in microseconds: 10
  DEFAULT_GATE    \* default_gate_len

MAX_TICKS == 2^COUNTER_W - 1
-----------------------------------------------------------------------------
(***************************************************************************)
(* The hardware.  A request crosses as a toggle through three flip-flops   *)
(* and arrives when the last two differ.                                   *)
(***************************************************************************)
Toggled(p) == [p EXCEPT ![1] = 1 - @]
Shifted(p, tgl) == <<tgl, p[1], p[2], p[3]>>
Arrives(p) == p[3] # p[4]
Quiet == <<0, 0, 0, 0>>

MeterReset ==
  [reg_enable |-> FALSE, reg_gate_len |-> MAX_TICKS, enable |-> Quiet, clear |-> Quiet,
   gate |-> Quiet, upd |-> Quiet, enable_cnt |-> FALSE, gate_len_cnt |-> MAX_TICKS,
   gate_down_cnt |-> 0, bin |-> 0, bin_prev |-> 0, result_cnt |-> 0, result_avs |-> 0]

WriteCtrl(m, bits) ==
  [m EXCEPT !.reg_enable = "ENABLE" \in bits, !.enable = Toggled(@),
            !.clear = IF "CLEAR" \in bits THEN Toggled(@) ELSE @]
WriteGateLen(m, n) == [m EXCEPT !.reg_gate_len = n, !.gate = Toggled(@)]

\* One cycle, in which the measured clock has so many edges.
Cycle(m, edges) ==
  LET clears == Arrives(m.clear)
      ends == ~clears /\ m.enable_cnt /\ m.gate_down_cnt <= 1
      restarts == clears \/ ends \/ ~m.enable_cnt
  IN  [m EXCEPT
         !.enable = Shifted(@, @[1]), !.clear = Shifted(@, @[1]), !.gate = Shifted(@, @[1]),
         !.upd = Shifted(@, IF clears \/ ends THEN 1 - @[1] ELSE @[1]),
         !.enable_cnt = IF Arrives(m.enable) THEN m.reg_enable ELSE @,
         !.gate_len_cnt = IF ~Arrives(m.gate) THEN @
                          ELSE IF m.reg_gate_len = 0 THEN 1 ELSE m.reg_gate_len,
         !.gate_down_cnt = IF restarts THEN m.gate_len_cnt ELSE @ - 1,
         !.bin = (@ + edges) % (MAX_TICKS + 1),
         !.bin_prev = IF restarts THEN m.bin ELSE @,
         !.result_cnt = IF ends THEN (m.bin - m.bin_prev) % (MAX_TICKS + 1)
                        ELSE IF restarts THEN 0 ELSE @,
         !.result_avs = IF Arrives(m.upd) THEN m.result_cnt ELSE @]
-----------------------------------------------------------------------------
(***************************************************************************)
(* The driver.  Times are in half microseconds.                            *)
(***************************************************************************)
normalize_gate_len(n) == IF n = 0 THEN 1 ELSE n
gate_len_from_time(t) ==
  IF t <= 0 \/ t * CYCLES_PER_US > 2 * MAX_TICKS THEN Error
  ELSE normalize_gate_len((t * CYCLES_PER_US) \div 2)
\* Rounded to microseconds, and at least one.
gate_wait_time_us(gate_len) ==
  LET us == (2 * gate_len + CYCLES_PER_US) \div (2 * CYCLES_PER_US)
  IN  IF us = 0 THEN 1 ELSE us

\* What the driver does, one register access or sleep after the other.
Ctrl(bits) == [op |-> "ctrl", bits |-> bits]
GateLen(n) == [op |-> "gate_len", n |-> n]
Sleep(us) == [op |-> "sleep", us |-> us]
Read == [op |-> "read"]
cdc_settle == Sleep(SETTLE_US)
set_gate_len(n) ==
  <<Ctrl({}), cdc_settle, GateLen(normalize_gate_len(n)), cdc_settle,
    Ctrl({"CLEAR"}), cdc_settle, Ctrl({"ENABLE"}), cdc_settle>>
Reading(gate_len) == <<Sleep(gate_wait_time_us(gate_len)), Read>>

\* ppfreq: the constructor's default gate, the gate that was asked for, and
\* reading after reading.
ppfreq(m, edges, gate_len, nr) ==
  [m |-> m, edges |-> edges, gate_len |-> normalize_gate_len(gate_len), nr |-> nr,
   todo |-> set_gate_len(DEFAULT_GATE) \o set_gate_len(gate_len)
              \o Reading(normalize_gate_len(gate_len)),
   wait |-> 0, n |-> 0, printed |-> None, ended |-> None]

\* While the program sleeps, the meter runs.
MeterRuns(p) ==
  [p EXCEPT !.m = Cycle(p.m, p.edges), !.wait = @ - 1]
\* A sleep may last longer than asked for, by late cycles.
DriverStep(p, late) ==
  LET step == Head(p.todo)
      rest == [p EXCEPT !.todo = Tail(@)]
      more == p.nr = 0 \/ p.n + 1 < p.nr
  IN  CASE step.op = "ctrl" -> [rest EXCEPT !.m = WriteCtrl(@, step.bits)]
        [] step.op = "gate_len" -> [rest EXCEPT !.m = WriteGateLen(@, step.n)]
        [] step.op = "sleep" -> [rest EXCEPT !.wait = step.us * CYCLES_PER_US + late]
        [] step.op = "read" ->
             IF p.m.result_avs = 0
               THEN [rest EXCEPT !.ended = "EXCEPTION"]       \* set_streamer_clk
               ELSE [rest EXCEPT !.n = @ + 1, !.printed = p.m.result_avs,
                                 !.todo = IF more THEN Reading(p.gate_len) ELSE <<>>,
                                 !.ended = IF more THEN None ELSE "OK"]
=============================================================================
