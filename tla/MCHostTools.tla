---------------------------- MODULE MCHostTools ----------------------------
(***************************************************************************)
(* Four output pins, counts up to seven, bytes of six bits.                *)
(***************************************************************************)
EXTENDS HostTools

MCOrbit == <<{0}, {0, 1}>>
MCPool ==
  {Regular(2, "LOAD", {0}), Regular(6, "LOAD", {0}), Regular(1, "FLIP", {0, 1}),
   Regular(1, "SLL", {0}), Regular(2, "CLEAR", {0}),
   Regular(0, "FLIP", {0}), NoStrobe(1, {1}), stored_in(Regular(1, "SET", {1}), 1),
   Trigger({}, {0}, FALSE), Replay(2, 2), Retrig(Pins),
   PseudoRandom(2), Final("LOAD", {1}), Final("OR", {})}

MCCaptures ==
  {Regular(1, "LOAD", {0}), Regular(7, "LOAD", {0}), Regular(2, "LOAD", {}), Regular(3, "LOAD", {1})}

Config(mode, cs_high, setup, hold, msb) ==
  [mode |-> mode, cs_high |-> cs_high, setup |-> setup, hold |-> hold, post |-> 0,
   half |-> 2, msb_first |-> msb, aux_default |-> TRUE,
   sclk |-> 3, mosi |-> 1, cs |-> 0, aux |-> 2]
MCSpiConfigs ==
  {Config(m, m \in {0, 3}, t, t, t = 0) : m \in 0 .. 3, t \in {0, 1}}
MCSpiBytes == {BitsOf(37, 6), BitsOf(12, 6)}

MCDds == [Config(2, FALSE, 2, 2, TRUE) EXCEPT !.sclk = 2, !.cs = 3, !.aux = 0]
MCPga == [Config(3, FALSE, 2, 2, TRUE) EXCEPT !.sclk = 2, !.cs = 0, !.aux = 3]
MCScaleArgs == (0 .. 9) \X (0 .. 7) \X (1 .. 6)

T(no, test) == [no |-> no, test |-> test]
MCMarks == [pre |-> 1, mid |-> 2, sep |-> 1, post |-> 2]
MCSweep == default_spi_config(2)
MCSelfTests ==
  {T(1, test1), T(42, test42(<<Record("d", "", <<2, 1>>), Record("f", "", <<>>)>>))}
    \cup {T(2, test2(c, v)) : c \in 0 .. 2, v \in {{}, {0, 1}}}
    \cup {T(3, test3(c, v0, vmax)) : c \in 1 .. 2, v0 \in 0 .. 2, vmax \in 0 .. 3}
    \cup {T(4, test4(s)) : s \in prepare_random_test_sequence(2, 2, {{}, {0}, Pins})}
    \cup {T(8, test8(s)) : s \in prepare_general_random_test_sequence(2, 1, {{0}, {1}})}
    \cup {T(5, test5(c)) : c \in 0 .. 2} \cup {T(6, test6(c)) : c \in 1 .. 2}
    \cup {T(7, test7({2}, ns, 1, {0, 1})) : ns \in BOOLEAN}
    \cup {T(9, test9(1, {0, 1}, {3}))}
    \cup {T(10, test10(w, MCMarks, c, vmax, rep, nr)) :
            w \in SUBSET DOMAIN MCMarks, c \in 1 .. 2, vmax \in 0 .. 3, rep \in 1 .. 2,
            nr \in 1 .. 2}
    \cup {T(11, test11(2, Pins, {})), T(19, test19(0)), T(19, test19(2))}
    \cup {T(12, test12({0}, {0}, 1, {0}))}
    \cup {T(13, test13(p, {0}, r, {1}, 1, {0})) : p, r \in SUBSET TriggerInputs}
    \cup {T(14, test14(2, p, m, r, {1}, 1, {0})) : p, m, r \in SUBSET TriggerInputs}
    \cup {T(15, test15(3, 2, 2, p, {0}, r, {1})) : p, r \in SUBSET TriggerInputs}
    \cup {T(16, test16(n, c)) : n \in 1 .. 8, c \in 1 .. 2}
    \cup {[no |-> 21, test |-> test21(lo, hi, st, dw, 3, MCSweep), dwell |-> dw, vref |-> 3,
           points |-> Voltages(lo, hi, st), cfg |-> MCSweep] :
            lo \in {0, 1}, hi \in {0, 1}, st \in 1 .. 2, dw \in {1, 2}}
    \cup {[no |-> 25, test |-> test25(<<2, v>>, dw, reps, size, 3, MCSweep), dwell |-> dw,
           vref |-> 3, points |-> Repeated(<<2, v>>, IF reps = 0 THEN 2 ELSE reps),
           cfg |-> MCSweep] :
            v \in {0, 2, 3}, dw \in {0, 2}, reps \in {0, 2}, size \in {10, 99}}

MCLoop(avg, clip, dead, leak) ==
  [avg |-> avg, clip |-> clip, reject |-> 4, vref |-> 5, gain |-> 2, start |-> 5,
   pid |-> [kp |-> 1, ki |-> 2, dp |-> 0, di |-> dead, eps |-> leak,
           umin |-> -1000, umax |-> 1000],
   linear |-> [k |-> 5, l |-> -1, ymin |-> 0, ymax |-> 9]]
MCLoops ==
  {MCLoop(a, c, d, l) : a \in 1 .. 2, c \in {2, 9}, d \in 0 .. 1, l \in 0 .. 1}

MCTempArgs == [fahrenheit : BOOLEAN, kelvin : BOOLEAN, csv : BOOLEAN, timestamp : {FALSE}]

\* The meter after a reset of the FPGA, and as a program before left it.
MCMeters ==
  {MeterReset,
   [MeterReset EXCEPT !.reg_enable = TRUE, !.enable_cnt = TRUE, !.reg_gate_len = 7,
                      !.gate_len_cnt = 7, !.gate_down_cnt = 4, !.result_cnt = 7,
                      !.result_avs = 7]}
MCFreqRuns ==
  {ppfreq(m, e, g, nr) : m \in MCMeters, e \in 0 .. 2, nr \in {0, 2},
     g \in {0, 8} \cup ({gate_len_from_time(t) : t \in {0, 3, 25}} \ {Error})}
=============================================================================
