----------------------------- MODULE SelfTests -----------------------------
(***************************************************************************)
(* The self tests of c++/pptest.hh: for each, the sequence it streams, how *)
(* it is triggered, and the reference its read-back is checked against.    *)
(*                                                                         *)
(* A test is a record: seq; forced, whether the trigger is forced; lines,  *)
(* the levels its helper thread drives the internal trigger lines to; ref, *)
(* the reference of -check; start, the value the outputs start from;       *)
(* override, the word selected in place of the streamer's, or None.        *)
(***************************************************************************)
EXTENDS Peripherals

CONSTANT MAX_SIZE    \* max_size: elements that fit the queues before a trigger

Load(c, n) == Regular(c, "LOAD", WordOf(n))
Terminated(s) == Append(s, no_modify_final_output)
Checked(s) == convert_for_readback_check(Terminated(s), {})
Against(s, ref) == [seq |-> s, forced |-> TRUE, lines |-> <<>>, ref |-> ref,
                    start |-> {}, override |-> None]
Test(s) == Against(s, Checked(s))
OnLines(s, lines) == [Test(s) EXCEPT !.forced = FALSE, !.lines = lines]
-----------------------------------------------------------------------------
(***************************************************************************)
(* Elements, values, counts.                                               *)
(***************************************************************************)
test1 == Test(<<>>)
test2(c, v) == Test(<<Regular(c, "LOAD", v)>>)
test3(c, v0, vmax) ==
  Test([k \in 1 .. (IF vmax > v0 THEN vmax - v0 ELSE 0) |-> Load(c, v0 + k - 1)])
test4(s) == Test(s)      \* s from prepare_random_test_sequence
test8(s) == Test(s)      \* s from prepare_general_random_test_sequence

\* The reference is the sequence without its second element.
drop1(s) == IF Len(s) > 1 THEN RemoveAt(s, 2) ELSE s
test5(c) ==
  LET s == <<Load(c, 1), NoStrobe(c, WordOf(2)), Load(c, 3)>>
  IN  Against(s, drop1(Terminated(s)))

test6(c) ==
  LET Op(mode, k) == Regular(c, mode, WordOf(2^k))
      Each(mode) == [k \in 1 .. 4 |-> Op(mode, k - 1)]
      Pairs(m1, m2) == FlattenSeq([k \in 1 .. 4 |-> <<Op(m1, k - 1), Op(m2, k - 1)>>])
      low == Load(c, 0)
      high == Load(c, 255)
  IN  Test(<<low, high, low>> \o Each("SET") \o Each("CLEAR") \o Pairs("SET", "CLEAR")
             \o <<low>> \o Each("FLIP") \o Each("FLIP") \o Pairs("FLIP", "FLIP")
             \o <<high, low, high, low>>)

\* Nothing is triggered: the outputs keep the initial value.
test7(initial_value, ns, c, v) ==
  [Test((IF ns THEN <<NoStrobe(1, initial_value)>> ELSE <<>>) \o <<Regular(c, "LOAD", v)>>)
     EXCEPT !.forced = FALSE, !.start = initial_value]
test9(c, v, q) == [Test(<<Regular(c, "LOAD", v)>>) EXCEPT !.override = q]
-----------------------------------------------------------------------------
(***************************************************************************)
(* The preprocessor.                                                       *)
(***************************************************************************)
\* with is the set of options among "pre", "mid", "sep" and "post"; marks gives
\* the lengths of their elements.  The reference is built without the memory.
test10(with, marks, c, vmax, repetitions, nr_replays) ==
  LET Mark(opt, v) == IF opt \in with THEN <<Load(marks[opt], v)>> ELSE <<>>
      Sep(n) == IF n # nr_replays THEN Mark("sep", 255) ELSE <<>>
      values == [v \in 1 .. vmax |-> Load(c, v - 1)]
      Around(stores, Body(_)) ==
        Mark("pre", 170) \o stores \o Mark("mid", 187)
          \o FlattenSeq([n \in 1 .. nr_replays |-> Body(n) \o Sep(n)]) \o Mark("post", 204)
      s == Around([v \in 1 .. vmax |-> stored_in(values[v], v - 1)],
                  LAMBDA n : <<Replay(repetitions, vmax)>>)
      el_ref == Around(<<>>, LAMBDA n : Repeated(values, repetitions))
  IN  IF vmax > MEMORY_POSITIONS THEN Error
      ELSE Against(s, merge(Append(el_ref, Final("LOAD", default_final_value))))
Endless(first, second) == <<stored_in(first, 0), stored_in(second, 1), Replay(0, 2)>>
test11(c, v1, v0) == Test(Endless(Regular(c, "LOAD", v0), Regular(c, "LOAD", v1)))
test19(c) ==
  Test(IF c > 0 THEN <<PseudoRandom(c)>>
       ELSE <<stored_in(PseudoRandom(MAX_COUNT_T), 0), Replay(0, 1)>>)
\* pphelloworld: all outputs toggle without end.
pphelloworld(c) == Endless(Regular(c, "LOAD", Pins), Regular(c, "LOAD", {}))
-----------------------------------------------------------------------------
(***************************************************************************)
(* Triggers.  The helper thread writes the lines while the test waits.     *)
(***************************************************************************)
trig12 == <<{0}, {}>>
test12(p, m, c, v) == OnLines(<<Trigger(p, m, TRUE), Regular(c, "LOAD", v)>>, trig12)
trig13(p, r) == <<p, r, {}>>
test13(p, m, r, n, c, v) ==
  OnLines(<<Trigger(p, m, FALSE), Trigger(r, n, TRUE), Regular(c, "LOAD", v)>>, trig13(p, r))
trig14(cycles, p, r) == Append(Repeated(<<p, r>>, cycles), {})
test14(cycles, p, m, r, n, c, v) ==
  OnLines(FlattenSeq([i \in 1 .. cycles |-> <<Trigger(p, m, FALSE), Trigger(r, n, i = cycles)>>])
            \o <<Regular(c, "LOAD", v)>>, trig14(cycles, p, r))
trig15(cycles, p, r) == Append([i \in 1 .. cycles |-> IF i % 2 = 1 THEN p ELSE r], {})
test15(cycles, c, v, p, m, r, n) ==
  LET Block(i) == [j \in 1 .. v |-> Load(c, (i - 1) + (j - 1) * 2^(WIDTH_DATA \div 2))]
      Segment(i) ==
        <<IF i % 2 = 1 THEN Trigger(p, m, TRUE) ELSE Trigger(r, n, TRUE)>> \o Block(i)
          \o (IF i < cycles THEN <<Retrig(default_final_value)>> ELSE <<>>)
  IN  OnLines(FlattenSeq([i \in 1 .. cycles |-> Segment(i)]), trig15(cycles, p, r))

\* Pin j flips in every (j+1)-th step.  The trigger comes with the element that
\* fills the queues; the read-back is not checked.
test16(cycles, c) ==
  [Test([i \in 1 .. cycles |-> Regular(c, "FLIP", {j \in Pins : (i - 1) % (j + 1) = 0})])
     EXCEPT !.forced = (cycles >= MAX_SIZE)]
-----------------------------------------------------------------------------
(***************************************************************************)
(* The sweep of the PMOD DA3: one transaction per voltage, held for dwell  *)
(* ticks; and ppdmatest's waveform of given points (a sine), written to a  *)
(* buffer of so many elements and played reps times, or without end.       *)
(***************************************************************************)
Voltages(vmin, vmax, vstep) ==
  [k \in 1 .. (1 + (2 * (vmax - vmin) + vstep) \div (2 * vstep)) |-> vmin + (k - 1) * vstep]
test21(vmin, vmax, vstep, dwell, vref, cfg) ==
  LET Point(v) == LET tx == transaction_for_voltage(v, vref, cfg)
                  IN  Append(tx, Regular(dwell, "LOAD", Last(tx).val))
      points == Voltages(vmin, vmax, vstep)
      swept == merge(FlattenSeq([k \in DOMAIN points |-> Point(points[k])]))
  IN  IF vstep <= 0 \/ dwell <= 0 \/ vmax < vmin \/ swept = Error THEN Error ELSE Test(swept)
test25(points, dwell, reps, max_elements, vref, cfg) ==
  LET Point(v) == LET tx == transaction_for_voltage(v, vref, cfg)
                  IN  tx \o (IF dwell # 0 THEN <<Regular(dwell, "LOAD", Last(tx).val)>> ELSE <<>>)
      waveform == FlattenSeq([k \in DOMAIN points |-> Point(points[k])])
      size == Len(waveform) + (IF reps = 0 THEN 0 ELSE 1)
      played == IF reps = 0 THEN Repeated(waveform, 2)
                ELSE Append(Repeated(waveform, reps), Final("LOAD", Last(waveform).val))
  IN  IF Len(points) < 2 \/ dwell < 0 \/ size > max_elements THEN Error
      ELSE Against(played, Error)          \* never checked

\* A file: its own flag says whether the trigger is forced.
test42(recs) ==
  LET loaded == parse_sequence_from_stream(recs)
  IN  IF loaded = Error THEN Error
      ELSE [Test(loaded.seq) EXCEPT !.forced = loaded.force]
=============================================================================
