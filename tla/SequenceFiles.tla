--------------------------- MODULE SequenceFiles ---------------------------
(***************************************************************************)
(* The files a sequence is kept in: the text records and the binary format *)
(* of c++/sequence.hh, VCD traces (c++/vcd_parser.hh, sequence.hh and      *)
(* tools/rle32_to_vcd), and the choice among them                          *)
(* (c++/sequence_file_format.hh).                                          *)
(*                                                                         *)
(* A text file is a list of records and a VCD file a list of lines, each   *)
(* with its numbers; a binary file is a header and a list of words.        *)
(***************************************************************************)
EXTENDS SequenceOps

CONSTANTS
  MAX_U64,   \* largest 64-bit number
  KILO       \* ratio of two neighbouring VCD time units: 1000

Fits(n, limit) == IF n > limit THEN Error ELSE n
\* An exception ends the caller too.
Then(x, Rest(_)) == IF x = Error THEN Error ELSE Rest(x)
-----------------------------------------------------------------------------
(***************************************************************************)
(* Text.                                                                   *)
(***************************************************************************)
RegularModes ==
  [d |-> "LOAD", s |-> "SET", c |-> "CLEAR", x |-> "FLIP", n |-> "NOT",
   a |-> "AND", o |-> "OR", xr |-> "XOR", xn |-> "XNOR", sl |-> "SLL",
   sr |-> "SRL"]

is_regular_token(token) == token = "dn" \/ token \in DOMAIN RegularModes

regular_token(e) ==
  IF "NO_STROBE" \in e.control THEN IF e.mode # "LOAD" THEN Error ELSE "dn"
  ELSE CHOOSE t \in DOMAIN RegularModes : RegularModes[t] = e.mode

Record(token, op, args) == [token |-> token, op |-> op, args |-> args]

sequence_record(e) ==
  LET tok == regular_token(e)
      val == NumberOf(e.val)
  IN  CASE is_regular(e) ->
             IF tok = Error THEN Error
             ELSE IF is_stored(e) THEN Record("store", tok, <<e.pos, e.cnt, val>>)
             ELSE Record(tok, "", <<e.cnt, val>>)
        [] is_trigger(e) ->
             Record(IF "TRIGGER_FINAL" \in e.control THEN "t" ELSE "tn", "",
                    <<NumberOf(PatternOf(e.val)), NumberOf(MaskOf(e.val))>>)
        [] is_final(e) -> IF e.mode # "LOAD" THEN Error ELSE Record("final", "", <<val>>)
        [] kind(e) = "replay" -> Record("r", "", <<e.cnt, val>>)
        [] kind(e) = "retrig" -> Record("rt", "", <<>>)
        [] OTHER -> Record("pr", "", <<e.cnt>>)

write_sequence_to_stream(s, force_trigger) ==
  LET recs == [i \in DOMAIN s |-> sequence_record(s[i])]
  IN  IF \E i \in DOMAIN s : recs[i] = Error THEN Error
      ELSE recs \o IF force_trigger THEN <<Record("f", "", <<>>)>> ELSE <<>>

parse_count_t(n) == Fits(n, MAX_COUNT_T)
parse_value_t(n) == IF n >= 2^WIDTH_DATA THEN Error ELSE WordOf(n)
parse_trigger_t(n) == IF n >= 2^WIDTH_TRIGGER THEN Error ELSE WordOf(n)

\* el::stored_in: the slot is or-ed into the position field.
stored_in(e, i) ==
  IF i >= MEMORY_POSITIONS THEN Error
  ELSE [WithBits(e, {"NOPASS", "STORE"}) EXCEPT
          !.pos = NumberOf(WordOf(@) \cup WordOf(i))]

from_regular_token(token, count, value) ==
  IF is_regular_token(token) /\ count # Error /\ value # Error
    THEN IF token = "dn" THEN NoStrobe(count, value)
                         ELSE Regular(count, RegularModes[token], value)
    ELSE Error

\* The element a record stands for, or Error.
Arity(token) ==
  CASE is_regular_token(token) \/ token \in {"r", "t", "tn"} -> 2
    [] token = "store" -> 3
    [] token \in {"pr", "final"} -> 1
    [] OTHER -> 0
parse_record(rec) ==
  LET tok == rec.token
      a == rec.args
      t(final) == LET p == parse_trigger_t(a[1])
                      m == parse_trigger_t(a[2])
                  IN  IF p = Error \/ m = Error THEN Error ELSE Trigger(p, m, final)
  IN  IF Len(a) < Arity(tok) THEN Error ELSE
      CASE is_regular_token(tok) ->
             from_regular_token(tok, parse_count_t(a[1]), parse_value_t(a[2]))
        [] tok = "store" ->
             LET e == from_regular_token(rec.op, parse_count_t(a[2]), parse_value_t(a[3]))
             IN  IF e = Error \/ parse_count_t(a[1]) = Error THEN Error
                 ELSE stored_in(e, a[1])
        [] tok = "r" -> IF parse_count_t(a[1]) = Error \/ a[2] > MEMORY_POSITIONS
                          THEN Error ELSE Replay(a[1], a[2])
        [] tok = "rt" -> Retrig(default_final_value)
        [] tok = "pr" -> IF parse_count_t(a[1]) = Error THEN Error
                         ELSE PseudoRandom(a[1])
        [] tok = "final" -> IF parse_value_t(a[1]) = Error THEN Error
                            ELSE Final("LOAD", parse_value_t(a[1]))
        [] tok = "t" -> t(TRUE)
        [] tok = "tn" -> t(FALSE)
        [] OTHER -> Error

parse_sequence_from_stream(recs) ==
  LET Step(st, rec) ==
        IF st = Error THEN Error
        ELSE IF rec.token = "f" THEN [st EXCEPT !.force = TRUE]
        ELSE Then(parse_record(rec), LAMBDA e : [st EXCEPT !.seq = Append(@, e)])
      Check(all) == IF validate_final_is_terminal(all.seq) THEN all ELSE Error
  IN  Then(FoldLeft(Step, [seq |-> <<>>, force |-> FALSE], recs), Check)
-----------------------------------------------------------------------------
(***************************************************************************)
(* Binary.  The payload is one word after the other, three for an element; *)
(* sizes are in words where the code counts bytes.                         *)
(***************************************************************************)
PPBF_HEADER ==
  [magic |-> "PPBF", version |-> 1, endianness |-> "little",
   payload_kind |-> "triples", widths |-> <<WIDTH_DATA, WIDTH_TRIGGER>>,
   header_size |-> 48]

write_binary_header(n, size, force_trigger) ==
  PPBF_HEADER @@ [force |-> force_trigger, element_count |-> n, payload_size |-> size]

write_binary(s, force_trigger) ==
  [header |-> write_binary_header(Len(s), 3 * Len(s), force_trigger),
   words  |-> FlattenSeq([i \in DOMAIN s |->
                <<[control |-> s[i].control, mode |-> s[i].mode, pos |-> s[i].pos],
                  s[i].cnt, s[i].val>>])]

validate_binary_header(h) ==
  /\ \A f \in DOMAIN PPBF_HEADER : h[f] = PPBF_HEADER[f]
  /\ h.payload_size = (3 * h.element_count) % (MAX_U64 + 1)

\* Mutant: the reader takes the elements that are there.
MutShortRead(f) ==
  [seq |-> [i \in 1 .. (Len(f.words) \div 3) |->
              LET c == f.words[3 * i - 2]
              IN  from_raw_triplet(c.control, c.mode, c.pos, f.words[3 * i - 1],
                                   f.words[3 * i])],
   force |-> f.header.force]
read_binary(f) ==
  LET n == f.header.element_count
      Triple(i) == LET c == f.words[3 * i - 2]
                   IN  from_raw_triplet(c.control, c.mode, c.pos,
                                        f.words[3 * i - 1], f.words[3 * i])
      seq == [i \in 1 .. n |-> Triple(i)]
  IN  IF \/ ~validate_binary_header(f.header)
         \/ Len(f.words) # 3 * n      \* ends early, or trailing data
         \/ \E i \in 1 .. n : seq[i] = Error
         \/ ~validate_final_is_terminal(seq)
        THEN Error ELSE [seq |-> seq, force |-> f.header.force]

\* A write that stops after k words leaves this on the disk.
Torn(f, k) == [f EXCEPT !.words = SubSeq(@, 1, k)]
-----------------------------------------------------------------------------
(***************************************************************************)
(* VCD.                                                                    *)
(***************************************************************************)
checked_mul_u64(a, b) == Fits(a * b, MAX_U64)

\* The length of a time unit as a fraction of nanoseconds.
parse_timescale(multiplier, unit) ==
  LET num == CASE unit = "s"  -> checked_mul_u64(multiplier, KILO * KILO * KILO)
               [] unit = "ms" -> checked_mul_u64(multiplier, KILO * KILO)
               [] unit = "us" -> checked_mul_u64(multiplier, KILO)
               [] unit \in {"ns", "ps", "fs"} -> multiplier
               [] OTHER -> Error
      den == CASE unit = "ps" -> KILO [] unit = "fs" -> KILO * KILO [] OTHER -> 1
  IN  IF multiplier = 0 \/ num = Error THEN Error
      ELSE [numerator_ns |-> num, denominator |-> den]

\* a * b / divisor without a product that overflows: b is taken bit by bit,
\* a / divisor is doubled as a quotient and a remainder, and a quotient above
\* the limit stays just above it.
mul_div_floor_capped(a, b, divisor, limit) ==
  LET overflow == limit + 1
      AddQ(q, add) == IF add >= overflow \/ q > limit - add THEN overflow ELSE q + add
      bits == CHOOSE n \in 0 .. b : 2^n > b /\ \A m \in 0 .. (n - 1) : 2^m <= b
      Step(st, i) ==
        LET wraps == st.r >= divisor - st.tr
            take == (b \div 2^(i - 1)) % 2 = 1
            q1 == AddQ(st.q, st.tq)
            carry == IF st.tr >= divisor - st.tr THEN 1 ELSE 0
        IN  [q  |-> IF ~take THEN st.q ELSE IF wraps THEN AddQ(q1, 1) ELSE q1,
             r  |-> IF ~take THEN st.r
                    ELSE IF wraps THEN st.r - (divisor - st.tr) ELSE st.r + st.tr,
             tq |-> IF st.tq >= overflow \/ st.tq > (overflow - carry) \div 2
                      THEN overflow ELSE st.tq * 2 + carry,
             tr |-> IF carry = 1 THEN st.tr - (divisor - st.tr) ELSE st.tr + st.tr]
  IN  IF divisor = 0 THEN Error
      ELSE Fits(FoldLeft(Step, [q |-> 0, r |-> 0, tq |-> a \div divisor,
                                tr |-> a % divisor],
                         [i \in 1 .. bits |-> i]).q, limit)

parse_timestamp(v, scale_factor, timescale) ==
  LET den == checked_mul_u64(scale_factor, timescale.denominator)
  IN  IF scale_factor = 0 \/ v > MAX_U64 \/ den = Error THEN Error
      ELSE mul_div_floor_capped(v, timescale.numerator_ns, den, MAX_COUNT_T)

\* Lines of a VCD file.  The payload of a time scale may stand on the line of
\* its keyword or on a later one, and so may its $end.
TimescaleLine(open, scale, ended) ==
  [line |-> "timescale", open |-> open, scale |-> scale, ended |-> ended]
VarLine(id, name) == [line |-> "var", id |-> id, name |-> name]
EndDefinitions == [line |-> "enddefinitions"]
TimeLine(v) == [line |-> "time", v |-> v]
ValueLine(id, v) == [line |-> "value", id |-> id, v |-> v]

parseVcdUpdates(lines, target_name, scale_factor) ==
  LET Defs(st, l) ==
        IF st.in_timescale /\ l.line # "timescale" THEN Error ELSE
        CASE l.line = "timescale" ->
               Then(IF l.scale = None THEN st.timescale
                    ELSE parse_timescale(l.scale[1], l.scale[2]),
                    LAMBDA ts : [st EXCEPT !.timescale = ts, !.in_timescale = ~l.ended])
          [] l.line = "var" /\ l.name = target_name -> [st EXCEPT !.id = l.id]
          [] l.line = "enddefinitions" -> [st EXCEPT !.defs = FALSE]
          [] OTHER -> st
      Body(st, l) ==
        CASE l.line = "time" ->
               Then(parse_timestamp(l.v, scale_factor, st.timescale),
                    LAMBDA t : IF t < st.now THEN Error ELSE [st EXCEPT !.now = t])
          [] l.line = "value" /\ st.id # None /\ l.id = st.id ->
               Then(parse_value_t(l.v),
                    LAMBDA v : [st EXCEPT !.out = Append(@, [value |-> v, count |-> st.now])])
          [] OTHER -> st
      Step(st, l) == IF st = Error THEN Error
                     ELSE IF st.defs THEN Defs(st, l) ELSE Body(st, l)
      Finish(all) == IF all.id = None \/ all.out = <<>> THEN Error
                     ELSE Append(all.out, [value |-> {}, count |-> all.now])
  IN  Then(FoldLeft(Step, [id |-> None, defs |-> TRUE, in_timescale |-> FALSE,
                           timescale |-> [numerator_ns |-> 1, denominator |-> 1],
                           now |-> 0, out |-> <<>>], lines), Finish)

\* The elements a trace adds to a sequence.
load_VCD(lines, target_name, scale_factor) ==
  Then(parseVcdUpdates(lines, target_name, scale_factor),
       LAMBDA l : [i \in 1 .. (Len(l) - 1) |->
                     Regular(l[i + 1].count - l[i].count, "LOAD", l[i].value)])

Header(target_name, timescale) ==
  <<TimescaleLine(TRUE, timescale, TRUE), VarLine("!", target_name), EndDefinitions>>
\* What a run-length encoded list of values looks like as a trace.
Changes(runs, id, dt) ==
  LET Step(st, r) == [t |-> st.t + r.cnt * dt,
                      out |-> st.out \o <<TimeLine(st.t), ValueLine(id, NumberOf(r.val))>>]
      all == FoldLeft(Step, [t |-> 0, out |-> <<>>], runs)
  IN  Append(all.out, TimeLine(all.t))

\* Mutant: the end of the trace is not written.
MutNoEndTime(s, target_name, timescale) ==
  Header(target_name, timescale) \o Front(Changes(s, "!", 1))
\* The updates are applied from zero, elements of length zero included, before
\* those are dropped.
write_VCD(s, target_name, timescale) ==
  LET bitload == convert_to_BitLoad(s, {})
      Plain(e) == IF is_regular(e) THEN Regular(e.cnt, "LOAD", e.val) ELSE e
      values == SelectSeq([i \in DOMAIN s |-> Plain(bitload[i])],
                          LAMBDA e : ~(is_regular(e) /\ e.cnt = 0))
      runs == merge(values)
  IN  IF runs = Error \/ \E i \in DOMAIN runs : ~is_regular(runs[i]) THEN Error
      ELSE Header(target_name, timescale)
             \o IF runs = <<>> THEN <<TimeLine(0), ValueLine("!", 0)>> ELSE Changes(runs, "!", 1)

\* tools/rle32_to_vcd: a list of runs to a trace; the ones of length zero are
\* skipped, and equal neighbours are written again.
rle32_to_vcd(runs, dt, timescale) ==
  LET kept == SelectSeq(runs, LAMBDA r : r.cnt # 0)
  IN  IF dt = 0 \/ kept = <<>> THEN Error
      ELSE <<TimescaleLine(TRUE, timescale, TRUE), VarLine("b", "bus32"),
             EndDefinitions>> \o Changes(kept, "b", dt)
-----------------------------------------------------------------------------
(***************************************************************************)
(* The choice of the format.                                               *)
(***************************************************************************)
infer_sequence_file_format_from_filename(extension) ==
  CASE extension = "vcd" -> "vcd"
    [] extension \in {"seq", "txt"} -> "text"
    [] extension \in {"bin", "ppbin"} -> "binary"
    [] OTHER -> Error

\* -format decides, then the caller's default, then the name.
resolve_sequence_file_format(asked, forced_default, extension) ==
  IF asked # None THEN IF asked \in {"vcd", "text", "binary"} THEN asked ELSE Error
  ELSE IF forced_default # None THEN forced_default
  ELSE infer_sequence_file_format_from_filename(extension)

validate_sequence_file_options(format, has_target, scale) ==
  IF format = "vcd" THEN scale # 0 ELSE ~has_target /\ scale = None

\* A file is its format, its extension and its data; one in another format is
\* refused (its magic number, its first token, its declarations).  A trace has
\* no flag of its own: -force decides; elsewhere -force adds to the flag.
load_sequence_from_file(f, format, options) ==
  Then(IF f.format # format THEN Error ELSE
       CASE format = "vcd" -> Then(load_VCD(f.data, options.target, options.scale),
                                   LAMBDA s : [seq |-> s, force |-> FALSE])
         [] format = "text" -> parse_sequence_from_stream(f.data)
         [] format = "binary" -> read_binary(f.data),
       LAMBDA loaded : [loaded EXCEPT !.force = @ \/ options.force])

\* What ppplay plays, or why it plays nothing.
PlayAs(f, format, options) ==
  IF format # Error /\ validate_sequence_file_options(format, options.target # None, options.scale)
    THEN load_sequence_from_file(f, format, options)
    ELSE Error
ppplay(f, options) ==
  PlayAs(f, resolve_sequence_file_format(options.format, None, f.extension), options)
\* ppvcd: the format is VCD unless -format says otherwise, and then refused.
ppvcd(f, options) ==
  LET format == resolve_sequence_file_format(options.format, "vcd", f.extension)
  IN  IF format # "vcd" THEN Error ELSE PlayAs(f, format, options)
=============================================================================
