---------------------------- MODULE SequenceOps ----------------------------
(***************************************************************************)
(* What the host computes from sequences before and after it sends them:   *)
(* class el of c++/elements.hh, class Sequence of c++/sequence.hh and the  *)
(* preparation steps of c++/ppworkflow.hh.                                 *)
(*                                                                         *)
(* An operation that may throw returns Error in place of its result.       *)
(***************************************************************************)
EXTENDS Elements

CONSTANTS
  MAX_COUNT_T,   \* largest count: 2^32 - 1
  Error, None    \* an exception; a value that is not there

ASSUME CountAssumption == MAX_COUNT_T \in Nat \ {0}
ASSUME NoneAssumption ==
  None \notin Element /\ \A w \in Word : w # None
-----------------------------------------------------------------------------
(***************************************************************************)
(* el: classification and values.                                          *)
(***************************************************************************)
type_from_control(control) ==
  IF "TRIGGER" \in control THEN "trigger"
  ELSE IF {"NOPASS", "REPLAY"} \subseteq control THEN "replay"
  ELSE IF "RETRIG" \in control THEN "retrig"
  ELSE IF "PRNG" \in control THEN "prng"
  ELSE IF "TERMINATE" \in control THEN "final"
  ELSE "regular"

kind(e) == type_from_control(e.control)
is_regular(e) == kind(e) = "regular"
is_trigger(e) == kind(e) = "trigger"
is_final(e) == kind(e) = "final"
is_stored(e) == {"NOPASS", "STORE"} \subseteq e.control

sll(value, shamt) == {b \in Pins : (b - shamt) \in value}
srl(value, shamt) == {b \in Pins : (b + shamt) \in value}

apply_value_kind(mode, operand, previous) ==
  CASE mode = "LOAD"  -> operand
    [] mode = "SET"   -> previous \cup operand
    [] mode = "CLEAR" -> previous \cap (Pins \ operand)
    [] mode = "FLIP"  -> SymDiff(previous, operand)
    [] mode = "NOT"   -> Pins \ previous
    [] mode = "AND"   -> operand \cap previous
    [] mode = "OR"    -> operand \cup previous
    [] mode = "XOR"   -> SymDiff(operand, previous)
    [] mode = "XNOR"  -> Pins \ SymDiff(operand, previous)
    [] mode = "SLL"   -> sll(previous, NumberOf(operand))
    [] mode = "SRL"   -> srl(previous, NumberOf(operand))

updated_value(e, v_prev) == apply_value_kind(e.mode, e.val, v_prev)

with_count(e, count) == [e EXCEPT !.cnt = count]
with_regular_value(e, mode, value) ==
  [e EXCEPT !.val = value, !.mode = mode,
            !.control = @ \ {"TRIGGER", "TRIGGER_FINAL"}]
as_bitload_after(e, previous_value) ==
  IF is_regular(e)
    THEN with_regular_value(e, "LOAD", updated_value(e, previous_value))
    ELSE e

\* A triple read from a binary file: what its kind does not use is set to the
\* value the constructors give it.
from_raw_triplet(control, mode, pos, count, value) ==
  LET raw == [control |-> control, mode |-> mode, pos |-> pos,
              cnt |-> count, val |-> value]
  IN  CASE type_from_control(control) = "trigger" -> with_count(raw, 0)
        [] type_from_control(control) = "replay" ->
             IF NumberOf(value) > MEMORY_POSITIONS THEN Error ELSE raw
        [] type_from_control(control) \in {"retrig", "final"} ->
             with_count(raw, 1)
        [] type_from_control(control) = "prng" -> [raw EXCEPT !.val = {}]
        [] OTHER -> raw
-----------------------------------------------------------------------------
(***************************************************************************)
(* Sequence.                                                               *)
(***************************************************************************)
SumOfCounts(s) == FoldLeft(LAMBDA n, e : n + e.cnt, 0, s)
length(s) == SumOfCounts(SelectSeq(s, is_regular))
data_size(s) == Len(SelectSeq(s, is_regular))

validate_final_is_terminal(s) ==
  \A i \in DOMAIN s : is_final(s[i]) => i = Len(s)

\* The values of the outputs after each element, empty ones included.
ValuesAlong(s, initial_value) ==
  LET v[i \in 0 .. Len(s)] == IF i = 0 THEN initial_value
                              ELSE IF is_regular(s[i]) THEN updated_value(s[i], v[i - 1])
                              ELSE v[i - 1]
  IN  v
convert_to_BitLoad(s, initial_value) ==
  [i \in DOMAIN s |-> as_bitload_after(s[i], ValuesAlong(s, initial_value)[i - 1])]

checked_count_sum(x, y) == IF x + y > MAX_COUNT_T THEN Error ELSE x + y

\* Two elements merge when nothing but their counts differs; the sum of two
\* counts that does not fit is an error.
MergesWith(x, y) ==
  /\ is_regular(x) /\ is_regular(y)
  /\ x = [y EXCEPT !.cnt = x.cnt]
\* Mutant: the count of a merged element wraps.
MutMergeWraps(merged, e) ==
  IF merged # <<>> /\ MergesWith(Last(merged), e)
    THEN Append(Front(merged),
                with_count(Last(merged), (Last(merged).cnt + e.cnt) % (MAX_COUNT_T + 1)))
    ELSE Append(merged, e)
\* merge_adjacent, one element further: it joins the one before it if it can.
MergeStep(merged, e) ==
  IF merged = Error THEN Error
  ELSE IF merged = <<>> \/ ~MergesWith(Last(merged), e) THEN Append(merged, e)
  ELSE LET sum == checked_count_sum(Last(merged).cnt, e.cnt)
       IN  IF sum = Error THEN Error ELSE Append(Front(merged), with_count(Last(merged), sum))
\* Mutant: nothing is merged.
MutNoMerge(s) == s
merge(s) ==
  LET merged[i \in 0 .. Len(s)] == IF i = 0 THEN <<>> ELSE MergeStep(merged[i - 1], s[i])
  IN  merged[Len(s)]
-----------------------------------------------------------------------------
(***************************************************************************)
(* ppworkflow.hh: the final output, and the reference for the readback.    *)
(***************************************************************************)
drop_count0(s) ==
  FlattenSeq([i \in DOMAIN s |-> IF s[i].cnt # 0 THEN <<s[i]>> ELSE <<>>])

convert_for_readback_check(s, initial_value) ==
  merge(convert_to_BitLoad(s, initial_value))

explicit_final_output(s) ==
  IF ~validate_final_is_terminal(s) THEN Error
  ELSE IF s # <<>> /\ is_final(Last(s)) THEN Last(s).val ELSE None

\* The value the outputs end at, or None when a replay, a retrigger or a
\* pseudo-random element makes it unknown.
Predictable(s) == \A i \in DOMAIN s : is_regular(s[i]) \/ is_trigger(s[i]) \/ is_final(s[i])
\* Mutant: an element of length zero is applied as well.
MutInferZero(s, initial_value) ==
  LET cur[i \in 0 .. Len(s)] ==
        IF i = 0 THEN initial_value
        ELSE IF is_trigger(s[i]) THEN cur[i - 1] ELSE updated_value(s[i], cur[i - 1])
  IN  IF Predictable(s) THEN cur[Len(s)] ELSE None
infer_sequence_final_output(s, initial_value) ==
  LET applied(e) == is_final(e) \/ (is_regular(e) /\ e.cnt # 0)
      cur[i \in 0 .. Len(s)] ==
        IF i = 0 THEN initial_value
        ELSE IF applied(s[i]) THEN updated_value(s[i], cur[i - 1]) ELSE cur[i - 1]
  IN  IF ~validate_final_is_terminal(s) THEN Error
      ELSE IF Predictable(s) THEN cur[Len(s)] ELSE None

default_final_value == Pins
no_modify_final_output == Final("OR", {})

\* opts.t is the value of -t or None; opts.random the value drawn for
\* -random_final or None.
append_final_output(s, opts, initial_value) ==
  LET explicit == explicit_final_output(s)
      ask == {v \in {opts.t, opts.random} : v # None}
      appended == Append(s, no_modify_final_output)
  IN  IF \/ opts.t # None /\ opts.random # None
         \/ explicit = Error
         \/ explicit # None /\ ask # {}
        THEN Error
      ELSE CASE explicit # None ->
                  [seq |-> s, final |-> infer_sequence_final_output(s, initial_value)]
             [] explicit = None /\ ask # {} ->
                  LET v == CHOOSE x \in ask : TRUE
                  IN  [seq |-> Append(s, Final("LOAD", v)), final |-> v]
             [] explicit = None /\ ask = {} ->
                  [seq |-> appended, final |-> infer_sequence_final_output(appended, initial_value)]

prepare_sequence_for_streaming(s, opts, initial_value) ==
  append_final_output(s, opts, initial_value)
=============================================================================
