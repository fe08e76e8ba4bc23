----------------------------- MODULE HostTools -----------------------------
(***************************************************************************)
(* The programs that work on sequences and on single devices, each a       *)
(* process of its own: a script on a Sequence (python/pp_bind_sequence.cc),*)
(* ppread's capture, the files they write and ppplay and ppvcd load, the   *)
(* function generator (c++/ppfg.hh), the SPI encoder and the two-device    *)
(* program (tools/spi_payload), the scaling of VCD time stamps             *)
(* (c++/vcd_parser.hh), the self tests (c++/pptest.hh), and ppgpsdo,       *)
(* pptemp and ppfreq (c++/pptool_measurement.cc).                          *)
(*                                                                         *)
(* Saving may be cut short: the file then holds the words written so far.  *)
(***************************************************************************)
EXTENDS SelfTests, FreqMeter

CONSTANTS
  Programs,        \* which of the programs run
  Pool, Captures,  \* the elements a script may add; the runs ppread may read
  WIDTH_CONTROL, WIDTH_COUNTER, WIDTH_AVS_BUS,   \* fields of an element; bus words
  MaxElements,     \* bound: elements of a script's sequence
  InitialValues,   \* initial values of the outputs
  FgPeriods, FgServos, FgDuties, FgRepetitions,   \* arguments of the function generator
  SpiConfigs, SpiBytes, MaxBytes, MaxTicks,    \* SPI: configurations, bytes, bounds
  DdsConfig, PgaConfig, Outputs, MasterClock, Gains, MaxGain,   \* the two devices
  ScaleArgs,       \* operands of the time stamp scaling
  SelfTestRuns,    \* the self tests that are run, with their arguments
  TRIGGER_AT, NrContinuous,   \* pptest 20: when it triggers (10), its elements
  LoopConfigs, Phases, MaxPairs,   \* ppgpsdo: settings, phases, bound: pairs
  TempArgs, MaxPolls,   \* pptemp: its options; bound: readings of pptemp and ppfreq
  FreqRuns, MaxLate    \* ppfreq: what is measured; bound: how long a sleep overruns

\* A script's elements come from the constructors of el or a file: a terminator
\* has length one.
ASSUME ScriptAssumption ==
  /\ Pool \subseteq {e \in Element : is_final(e) => e.cnt = 1}
  /\ InitialValues \subseteq Word /\ {0, 1} \subseteq Pins
\* The widths of the read-back's fields and of the bus.  The provers do not know
\* that a power of two is a positive number.
ASSUME FieldsAssumption ==
  /\ WIDTH_CONTROL \in Nat /\ WIDTH_COUNTER \in Nat /\ WIDTH_AVS_BUS \in Nat \ {0}
  /\ \A n \in 0 .. WIDTH_AVS_BUS : 2^n \in Nat \ {0}

VARIABLES
  program,   \* the program that runs
  initial,   \* the value the outputs start from
  seq,       \* its sequence
  disk,      \* the file: its format and content, or None
  saved,     \* history: the sequence the file was written from, and its flag
  asked,     \* history: what the result is to be: samples, bits, or operands
  enc        \* the SPI encoder and its configuration; the runs of the read-back

Encoder(cfg, todo) == [cfg |-> cfg, st |-> clear_encoder(cfg), todo |-> todo]

\* pptest 20 and the streamer it drives: the writer's index, the elements in the
\* streamer, the open run and the finished runs of the read-back, the shared
\* list, and the reader.
InitialStream ==
  [i |-> 0, previous |-> {}, wrote_all |-> FALSE, triggered |-> FALSE, pipe |-> <<>>, open |-> None,
   back |-> <<>>, shared |-> <<>>, n |-> 0, n_error |-> 0, reader |-> "polls",
   starved |-> FALSE]

\* pptemp: its options, the readings so far, what it printed, and, as history,
\* the temperatures it read (None: a failure).
pptemp(args, count, quiet) ==
  [args |-> args, count |-> count, quiet |-> quiet, n |-> 0, ended |-> None,
   out |-> IF args.csv THEN <<print_csv_header(args)>> ELSE <<>>, read |-> <<>>]

vars == <<program, initial, seq, disk, saved, asked, enc>>

Init ==
  /\ program \in Programs
  /\ initial \in IF program = "script" THEN InitialValues ELSE {{}}
  /\ seq = <<>> /\ disk = None /\ saved = None
  /\ asked \in CASE program = "continuous" -> {InitialStream}
                 [] program = "gpsdo" -> {[cfg |-> c, loop |-> InitialLoop(c), phases |-> <<>>] :
                                            c \in LoopConfigs}
                 [] program = "pptemp" -> {pptemp(a, c, q) : a \in TempArgs, c \in 0 .. 2,
                                                             q \in BOOLEAN}
                 [] program = "ppfreq" -> FreqRuns
                 [] OTHER -> {None}
  /\ enc \in CASE program = "spi" -> {Encoder(c, <<>>) : c \in SpiConfigs}
               [] program = "ppread" -> {<<>>}
               [] program = "dds" -> {Encoder(DdsConfig, <<>>)}
               [] OTHER -> {None}
-----------------------------------------------------------------------------
(***************************************************************************)
(* readback::read: the fields of an element, cut from the bus words it     *)
(* comes in: the words left, the bits of the first that are left, and the  *)
(* field so far.                                                           *)
(***************************************************************************)
\* The number a list of bits stands for.
NumberOfBits(bits) ==
  LET n[i \in 0 .. Len(bits)] == IF i = 0 THEN 0 ELSE 2 * n[i - 1] + IF bits[i] THEN 1 ELSE 0
  IN  n[Len(bits)]

fifo_words_per_element ==
  (WIDTH_CONTROL + WIDTH_COUNTER + WIDTH_DATA + WIDTH_AVS_BUS - 1) \div WIDTH_AVS_BUS
read_fifo_word(g) ==
  LET w == IF g.avail > 0 THEN g ELSE [g EXCEPT !.words = Tail(@), !.avail = WIDTH_AVS_BUS]
      take == IF w.remaining < w.avail THEN w.remaining ELSE w.avail
      shift == w.avail - take
  IN  [w EXCEPT !.field = @ * 2^take + ((w.words[1] \div 2^shift) % 2^take),
                !.avail = shift, !.remaining = @ - take]
read_fifo_field(f, width_bits) ==
  LET turn[i \in 0 .. width_bits] ==
        IF i = 0 THEN [f EXCEPT !.field = 0, !.remaining = width_bits]
        ELSE IF turn[i - 1].remaining = 0 THEN turn[i - 1] ELSE read_fifo_word(turn[i - 1])
  IN  turn[width_bits]
read(words) ==
  LET start == [words |-> <<0>> \o words, avail |-> 0, field |-> 0, remaining |-> 0]
      control == read_fifo_field(start, WIDTH_CONTROL)
      count == read_fifo_field(control, WIDTH_COUNTER)
      value == read_fifo_field(count, WIDTH_DATA)
  IN  Regular(count.field, "LOAD", WordOf(value.field))
-----------------------------------------------------------------------------
(***************************************************************************)
(* A script on a Sequence, and ppread's capture.                           *)
(***************************************************************************)
Script == program \in {"script", "ppread"}

push_back(e) ==
  /\ program = "script" /\ disk = None /\ Len(seq) < MaxElements
  /\ seq' = Append(seq, e)
  /\ UNCHANGED <<program, initial, disk, saved, asked, enc>>

\* The test sequences of pptest and ppdelay.
Prepare(s) ==
  /\ program = "script" /\ disk = None /\ seq = <<>>
  /\ seq' = s
  /\ UNCHANGED <<program, initial, disk, saved, asked, enc>>

\* ppread takes runs from the read-back until its time-out: it may have captured
\* nothing.  A run ends where the value changes or the count is full.  The FIFO
\* gives it as bus words (external), most significant bits first.
BusWords(e) ==
  LET bits == [k \in 1 .. WIDTH_CONTROL |-> FALSE]
                \o BitsOf(e.cnt, WIDTH_COUNTER)
                \o [k \in 1 .. WIDTH_DATA |-> WIDTH_DATA - k \in e.val]
      Slice(j) == NumberOfBits([i \in 1 .. WIDTH_AVS_BUS |-> bits[(j - 1) * WIDTH_AVS_BUS + i]])
  IN  [j \in 1 .. fifo_words_per_element |-> Slice(j)]
Capture(e) ==
  /\ program = "ppread" /\ disk = None /\ Len(seq) < MaxElements
  /\ seq # <<>> => Last(seq).val # e.val \/ Last(seq).cnt = MAX_COUNT_T
  /\ seq' = Append(seq, read(BusWords(e)))
  /\ enc' = Append(enc, e)
  /\ UNCHANGED <<program, initial, disk, saved, asked>>

Save(format, extension, tick, force, content) ==
  /\ Script /\ disk = None
  /\ content # Error
  /\ disk' = [format |-> format, extension |-> extension, tick |-> tick, data |-> content]
  /\ saved' = [seq |-> seq, force |-> force]
  /\ UNCHANGED <<program, initial, seq, asked, enc>>
WriteText(force) == Save("text", "seq", None, force, write_sequence_to_stream(seq, force))
WriteBinary(force) == Save("binary", "ppbin", None, force, write_binary(seq, force))
WriteVcd(scale) == Save("vcd", "vcd", scale, FALSE, write_VCD(seq, "outs", <<scale, "ns">>))
\* A list of runs becomes a trace with the tool rle32_to_vcd.
ExportRuns(dt) ==
  /\ \A i \in DOMAIN seq : is_regular(seq[i]) /\ seq[i].control = {} /\ seq[i].mode = "LOAD"
  /\ Save("vcd", "vcd", dt, FALSE, rle32_to_vcd(seq, dt, <<1, "ns">>))

\* The program dies, or the disk is full, before all is written.
CutShort ==
  /\ Script /\ disk # None /\ asked = None /\ disk.format = "binary"
  /\ ~disk.data.header.force /\ Len(disk.data.words) = 3 * Len(saved.seq) /\ saved.seq # <<>>
  /\ \E k \in {0, Len(disk.data.words) - 3, Len(disk.data.words) - 1} :
       disk' = [disk EXCEPT !.data = Torn(@, k)]
  /\ UNCHANGED <<program, initial, seq, saved, asked, enc>>

\* ppplay or ppvcd loads the file, with -force or without: a trace is named and
\* its time unit given.
LoadFile(tool, force) ==
  LET options == [format |-> None, force |-> force,
                  target |-> IF disk.format = "vcd" THEN disk.data[2].name ELSE None,
                  scale |-> disk.tick]
  IN  /\ Script /\ disk # None /\ asked = None
      /\ asked' = [tool |-> tool, force |-> force,
                    loaded |-> IF tool = "ppplay" THEN ppplay(disk, options)
                                                  ELSE ppvcd(disk, options)]
      /\ UNCHANGED <<program, initial, seq, disk, saved, enc>>
-----------------------------------------------------------------------------
(***************************************************************************)
(* The function generator: asked records the samples the pulse parameters  *)
(* describe.                                                               *)
(***************************************************************************)
Copies(n, v) == [k \in 1 .. n |-> v]
Generate(period, servo, duty, rep, n_max, start0, delay) ==
  LET timing == resolve_ppfg_timing(period, None, duty, servo)
      pn == calc_pos_neg(timing[1], timing[2])
      nr_delay == calc_delay(delay)
      v1 == {0}
      v0 == {}
      pulse == IF start0 THEN Copies(pn[2], v0) \o Copies(pn[1], v1)
                          ELSE Copies(pn[1], v1) \o Copies(pn[2], v0)
      rounds(n) == Copies(nr_delay, v0) \o FlattenSeq([k \in 1 .. n |-> pulse])
  IN  /\ program = "ppfg" /\ asked = None
      /\ pn # Error
      /\ \/ /\ rep > 0
            /\ seq' = burst_train(seq_burst({0}, {0}, nr_delay, pn[1], pn[2], v1, v0, rep,
                                            start0, {1}), n_max, {1})
            /\ asked' = Append(Repeated(Append(rounds(rep), {1}), n_max), {1})
         \/ /\ rep = 0 /\ ~start0 /\ n_max = 1
            /\ seq' = seq_continuous({0}, {0}, nr_delay, pn[1], pn[2], v1, v0, start0)
            /\ asked' = rounds(3)
      /\ UNCHANGED <<program, initial, disk, saved, enc>>

\* ppdelay: after the trigger and a delay, one pulse of the duration asked for;
\* and pphelloworld.
GenerateDelay(delay, duration) ==
  LET nr == calc_duration_nr(duration)
  IN  /\ program = "ppfg" /\ asked = None /\ nr # Error
      /\ seq' = seq_once({0}, {0}, calc_delay(delay), nr, 1, {0}, {}, {1})
      /\ asked' = Copies(calc_delay(delay), {}) \o Copies(nr, {0}) \o <<{}, {1}>>
      /\ UNCHANGED <<program, initial, disk, saved, enc>>
HelloWorld ==
  /\ program = "ppfg" /\ asked = None
  /\ seq' = pphelloworld(2)
  /\ asked' = Repeated(<<Pins, Pins, {}, {}>>, 3)
  /\ UNCHANGED <<program, initial, disk, saved, enc>>
-----------------------------------------------------------------------------
(***************************************************************************)
(* The SPI encoder: asked records the bits that were written.              *)
(***************************************************************************)
Bits == IF asked = None THEN <<>> ELSE asked
Encode(st, bits) ==
  /\ enc' = [enc EXCEPT !.st = st]
  /\ asked' = bits
  /\ UNCHANGED <<program, initial, seq, disk, saved>>
Spi == program = "spi" /\ Len(Bits) <= MaxBytes * BYTE

SpiSelect == Spi /\ Encode(select(enc.cfg, enc.st), Bits)
SpiDeselect == Spi /\ SumOfCounts(enc.st.tokens) < MaxTicks /\ Encode(deselect(enc.cfg, enc.st), Bits)
SpiAux(level) == Spi /\ SumOfCounts(enc.st.tokens) < BYTE /\ Encode(set_aux(enc.st, level), Bits)
SpiWrite(byte) ==
  /\ Spi /\ enc.st.selected /\ Len(Bits) < MaxBytes * BYTE
  /\ Encode(write_byte(enc.cfg, enc.st, byte),
            Bits \o IF enc.cfg.msb_first THEN byte ELSE Reverse(byte))

\* The two-device program: first the generator, then, with an encoder of its
\* own, the potentiometer; the two lists of runs are joined.
SpiProgram(output, gain) ==
  LET tuning_word == tuning_word_for_frequency(output, MasterClock)
  IN
  /\ program = "dds" /\ asked = None
  /\ tuning_word # Error
  /\ asked' = [output |-> output, gain |-> gain, done |-> FALSE]
  /\ enc' = [enc EXCEPT !.todo = ProgramDds(tuning_word)]
  /\ UNCHANGED <<program, initial, seq, disk, saved>>
SpiSendWord ==
  /\ program = "dds" /\ enc.todo # <<>>
  /\ enc' = [enc EXCEPT !.st = write_word(enc.cfg, @, Head(enc.todo)), !.todo = Tail(@)]
  /\ UNCHANGED <<program, initial, seq, disk, saved, asked>>
SpiAppend ==
  /\ program = "dds" /\ asked # None /\ enc.todo = <<>> /\ ~asked.done
  /\ seq' = append_tokens(seq, enc.st.tokens)
  /\ enc' = Encoder(PgaConfig, IF enc.cfg = DdsConfig
                                 THEN <<command_word("write", wiper_for_gain(asked.gain, MaxGain))>>
                                 ELSE <<>>)
  /\ asked' = [asked EXCEPT !.done = (enc.cfg = PgaConfig)]
  /\ UNCHANGED <<program, initial, disk, saved>>

\* The scaling of one time stamp.
Scale(a) ==
  /\ program = "vcdtime" /\ asked = None
  /\ asked' = [args |-> a, result |-> mul_div_floor_capped(a[1], a[2], a[3], MAX_COUNT_T)]
  /\ UNCHANGED <<program, initial, seq, disk, saved, enc>>
-----------------------------------------------------------------------------
(***************************************************************************)
(* pptest: a self test and what it is to show.                             *)
(***************************************************************************)
RunTest(r) ==
  /\ program = "pptest" /\ asked = None
  /\ r.test # Error                      \* else it throws, or is unknown
  /\ asked' = r /\ seq' = r.test.seq
  /\ UNCHANGED <<program, initial, disk, saved, enc>>
-----------------------------------------------------------------------------
(***************************************************************************)
(* pptest 20: a writer thread streams elements and keeps a copy of each, a *)
(* reader thread compares the copies with the read-back.  Each holds the   *)
(* lock of the FPGA for its step, and looks at the end without it.         *)
(***************************************************************************)
Stream(s) ==
  /\ program = "continuous"
  /\ asked' = s
  /\ UNCHANGED <<program, initial, seq, disk, saved, enc>>
writer(len, value) ==
  LET e == Regular(len, "LOAD", value)
  IN  /\ program = "continuous"
      /\ asked.i < NrContinuous
      /\ asked.i > 0 => value # asked.previous
      /\ Stream([asked EXCEPT !.i = @ + 1, !.pipe = Append(@, e), !.shared = Append(@, e),
                              !.previous = value,
                              !.triggered = @ \/ asked.i = TRIGGER_AT])
writer_ends ==
  /\ program = "continuous"
  /\ asked.i = NrContinuous /\ ~asked.wrote_all
  /\ Stream([asked EXCEPT !.wrote_all = TRUE,
                          !.pipe = Append(@, Final("LOAD", default_final_value))])

\* The streamer (external to the test): it plays an element, and the read-back
\* closes a run when another value begins, when the sequence ends, or when the
\* streamer runs dry.
Closed(s) == IF s.open = None THEN s
             ELSE [s EXCEPT !.back = Append(@, s.open), !.open = None]
Plays ==
  /\ program = "continuous"
  /\ asked.triggered /\ asked.pipe # <<>>
  /\ LET e == Head(asked.pipe)
         next == [asked EXCEPT !.pipe = Tail(@)]
     IN  IF ~is_final(e) /\ asked.open # None /\ asked.open.val = e.val
           THEN Stream([next EXCEPT !.open.cnt = @ + e.cnt])
           ELSE Stream([Closed(next) EXCEPT !.open = IF is_final(e) THEN None ELSE e])
RunsDry ==
  /\ program = "continuous"
  /\ asked.triggered /\ asked.pipe = <<>> /\ ~asked.wrote_all /\ asked.open # None
  /\ Stream([Closed(asked) EXCEPT !.starved = TRUE])

reader ==
  /\ program = "continuous"
  /\ asked.reader = "polls"
  /\ Stream(IF asked.back = <<>> THEN [asked EXCEPT !.reader = "looks"]
            ELSE [asked EXCEPT !.reader = "looks", !.n = @ + 1,
                               !.back = Tail(@), !.shared = Tail(@),
                               !.n_error = @ + IF Head(asked.back) = Head(asked.shared)
                                                 THEN 0 ELSE 1])
reader_looks ==
  /\ program = "continuous"
  /\ asked.reader = "looks"
  /\ Stream([asked EXCEPT !.reader = IF asked.n > 0 /\ asked.shared = <<>>
                                       THEN "done" ELSE "polls"])
-----------------------------------------------------------------------------
(***************************************************************************)
(* ppgpsdo's control loop on a pair of time stamps, and pptemp's readings  *)
(* of a sensor at temperature t, some of which fail.                       *)
(***************************************************************************)
Pair(phase) ==
  /\ program = "gpsdo"
  /\ Len(asked.phases) < MaxPairs
  /\ asked' = [asked EXCEPT !.loop = AggregationTask(asked.cfg, @, phase, 1),
                            !.phases = Append(@, phase)]
  /\ UNCHANGED <<program, initial, seq, disk, saved, enc>>

CountReading(lines, t) ==
  LET n == asked.n + 1
  IN  [asked EXCEPT !.n = n, !.out = @ \o lines, !.read = Append(@, t),
                    !.ended = IF asked.count # 0 /\ n >= asked.count THEN "OK" ELSE None]
Polls == program = "pptemp" /\ asked.ended = None /\ asked.n < MaxPolls
ReadTemp(t, flags) ==
  LET raw == flags * 2 * SIGN + (t % (2 * SIGN))      \* the sensor's register (external)
      t_c == decode_temp_c(raw \div 2^BYTE, raw % 2^BYTE)
  IN  /\ Polls
      /\ asked' = CountReading(<<format_line(asked.args, t_c)>>, t)
      /\ UNCHANGED <<program, initial, seq, disk, saved, enc>>
ReadFails ==
  /\ Polls
  /\ asked' = IF asked.quiet THEN CountReading(emit_quiet_error_placeholder(asked.args), None)
               ELSE [asked EXCEPT !.ended = "EXCEPTION"]
  /\ UNCHANGED <<program, initial, seq, disk, saved, enc>>

\* ppfreq and the meter.
Measure(p) ==
  /\ asked' = p
  /\ UNCHANGED <<program, initial, seq, disk, saved, enc>>
MeterCycle == program = "ppfreq" /\ asked.wait > 0 /\ Measure(MeterRuns(asked))
PpfreqStep(late) ==
  /\ program = "ppfreq" /\ asked.wait = 0 /\ asked.todo # <<>> /\ asked.n < MaxPolls
  /\ Len(asked.todo) > 2 => late = 0
  /\ Measure(DriverStep(asked, late))
-----------------------------------------------------------------------------
Next ==
  \/ \E e \in Pool : push_back(e)
  \/ \E e \in Captures : Capture(e)
  \/ \E s \in prepare_random_pulses(2, 2)
         \cup {prepare_counter_sequence(3, 1), prepare_equally_spaced_pulses(2, 3)} : Prepare(s)
  \/ \E force \in BOOLEAN : WriteText(force) \/ WriteBinary(force)
  \/ \E scale \in {1, 9} : WriteVcd(scale) \/ ExportRuns(scale)
  \/ CutShort
  \/ \E force \in BOOLEAN : LoadFile("ppplay", force)
  \/ LoadFile("ppvcd", FALSE)
  \/ \E p \in FgPeriods \cup {None}, a \in FgServos \cup {None}, d \in FgDuties,
        r \in FgRepetitions, n \in 1 .. 2, s0 \in BOOLEAN, dl \in {0, 2} :
          Generate(p, a, d, r, n, s0, dl)
  \/ \E dl \in {0, 2, 3}, du \in 0 .. 5 : GenerateDelay(dl, du)
  \/ HelloWorld
  \/ SpiSelect
  \/ SpiDeselect
  \/ \E level \in BOOLEAN : SpiAux(level)
  \/ \E byte \in SpiBytes : SpiWrite(byte)
  \/ \E f \in Outputs, g \in Gains : SpiProgram(f, g)
  \/ SpiSendWord
  \/ SpiAppend
  \/ \E a \in ScaleArgs : Scale(a)
  \/ \E r \in SelfTestRuns : RunTest(r)
  \/ \E len \in 1 .. 2, v \in {{}, {0}, {1}} : writer(len, v)
  \/ writer_ends
  \/ Plays
  \/ RunsDry
  \/ reader
  \/ reader_looks
  \/ \E phase \in Phases : Pair(phase)
  \/ \E t \in {-SIGN, -1, 0, 5, SIGN - 1}, flags \in {0, 5} : ReadTemp(t, flags)
  \/ ReadFails
  \/ MeterCycle
  \/ \E late \in 0 .. MaxLate : PpfreqStep(late)

Spec == Init /\ [][Next]_vars
-----------------------------------------------------------------------------
(***************************************************************************)
(* Properties.                                                             *)
(***************************************************************************)
Data(ws) == [i \in DOMAIN ws |-> ws[i].data]
Regulars(s) == SelectSeq(s, is_regular)
NothingEmpty(s) == \A i \in DOMAIN s : is_regular(s[i]) => s[i].cnt > 0
NothingStored(s) == \A i \in DOMAIN s : ~is_stored(s[i])

\* The value infer_sequence_final_output predicts, when it predicts one, is
\* the value the decoder leaves on the outputs: bit operations, runs of length
\* zero, trigger conditions and the terminator included.
FinalKnown ==
  LET final == infer_sequence_final_output(seq, initial)
      played == UpToTerminator(Samples(seq, initial))
  IN  Script /\ NothingStored(seq) /\ final \notin {Error, None} =>
        final = IF played = <<>> THEN initial ELSE Last(played).data

\* The reference of the read-back check shows the samples of the sequence, as
\* runs no two neighbours of which could be one; a run that is too long is
\* refused, never cut (sequence.hh, merge and checked_count_sum).
ScriptReference ==
  LET ref == convert_for_readback_check(seq, initial)
  IN  Script /\ NothingEmpty(seq) /\ ref # Error =>
        /\ Data(Samples(Regulars(ref), initial)) = Data(Samples(Regulars(seq), initial))
        /\ \A i \in 1 .. (Len(ref) - 1) : ~MergesWith(ref[i], ref[i + 1])

\* The maximal runs of equal values in a sequence, each with its ends.
RunsOf(s) ==
  LET begins == SelectSeq([i \in DOMAIN s |-> i], LAMBDA i : i = 1 \/ s[i] # s[i - 1])
      last(k) == IF k = Len(begins) THEN Len(s) ELSE begins[k + 1] - 1
  IN  [k \in DOMAIN begins |-> [val |-> s[begins[k]], first |-> begins[k], last |-> last(k)]]

\* What the read-back of a self test records: the runs of the samples that are
\* strobed, once the sequence is triggered by force or by the trigger lines.
Ended(t) == append_final_output(t.seq, [t |-> None, random |-> None], t.start).seq
Output(t) ==
  UpToTerminator(Samples(Unrolled(Ended(t), [p \in Positions |-> Regular(1, "LOAD", {})], 3),
                         t.start))
ReadBack(t) ==
  LET strobed(w) == w.control \cap {"NO_STROBE", "RETRIG", "TERMINATE"} = {}
      runs == RunsOf(Data(SelectSeq(Output(t), strobed)))
  IN  [k \in DOMAIN runs |-> Regular(runs[k].last - runs[k].first + 1, "LOAD", runs[k].val)]
StageMet(e, level) == level \cap MaskOf(e.val) = PatternOf(e.val) \cap MaskOf(e.val)
StagesPassed(t) ==
  LET stages == Stages(t.seq)
      ahead(k, level) == {n \in k .. Len(stages) :
                            \A j \in (k + 1) .. n : StageMet(stages[j], level)}
      Hold(k, level) == CHOOSE n \in ahead(k, level) : \A m \in ahead(k, level) : m <= n
  IN  FoldLeft(Hold, 0, <<{}>> \o t.lines) = Len(stages)
Activated(t) == t.forced \/ (t.lines # <<>> /\ StagesPassed(t))
Checkable(t) ==
  /\ t.ref # Error
  /\ \A i \in DOMAIN t.seq : /\ kind(t.seq[i]) # "prng"
                             /\ kind(t.seq[i]) \in {"regular", "replay"} => t.seq[i].cnt > 0

\* A self test cannot fail on a streamer that works: the levels its helper
\* thread drives lead through every stage of its trigger chain, and the
\* read-back of what it plays is the reference it is checked against, also the
\* one test 10 builds without the preprocessor's memory.  (Test 19 and the
\* endless ones cannot be checked, nor a run of more samples than a count holds.)
TestsSound ==
  program = "pptest" /\ asked # None =>
    LET t == asked.test
        expected == SelectSeq(t.ref, LAMBDA e : is_regular(e) /\ e.cnt # 0)
    IN  /\ t.lines # <<>> => Activated(t)
        /\ Activated(t) /\ Checkable(t) => ReadBack(t) = expected
        /\ asked.no = 16 => \A k \in DOMAIN ReadBack(t) :
             ReadBack(t)[k].val = {j \in Pins : ((k - 1) \div (j + 1)) % 2 = 0}

\* pptest 20 never reports a difference, and unless the streamer ran dry its
\* reader stops only when it has checked every element that was written.
CheckerTruthful ==
  program = "continuous" =>
    /\ asked.n_error = 0
    /\ asked.reader = "done" /\ ~asked.starved => asked.n = NrContinuous

\* Together: a check against a reference tells right from wrong.
ReferenceMatches == ScriptReference /\ TestsSound /\ CheckerTruthful

\* A capture is the runs of the read-back, whatever the widths of the fields and
\* of the bus.  A file loads as the sequence and the trigger flag it was written from, or is
\* refused: a text file when its terminator is not the last element and only
\* then, a binary one wherever the write stopped.  (A retrigger keeps only the default
\* value: its text record has none.)
FilesFaithful ==
  /\ program = "ppread" => seq = enc
  /\ Script /\ asked # None => (disk.format # "vcd" =>
    /\ asked.loaded # Error => /\ asked.loaded.seq = saved.seq
                               /\ asked.loaded.force = (saved.force \/ asked.force)
    /\ disk.format = "text" /\ asked.tool = "ppplay" =>
         (asked.loaded # Error <=> validate_final_is_terminal(saved.seq)))

\* A trace written by write_VCD and loaded at the scale of its time unit plays
\* the samples of the sequence; it is refused only when it is too long.
VcdPlaysTheSame ==
  Script /\ asked # None => (disk.format = "vcd" /\ NothingEmpty(saved.seq) =>
    IF length(saved.seq) > MAX_COUNT_T THEN asked.loaded = Error
    ELSE /\ asked.loaded # Error
         /\ Data(Samples(asked.loaded.seq, {})) = Data(Samples(saved.seq, {})))

\* The sequences of the function generator, once the preprocessor has unrolled
\* their stored period, play the delay and the pulses that were asked for, and
\* a split of a period leaves neither half empty.
PulsesAsAsked ==
  program = "ppfg" /\ asked # None =>
    LET unrolled == Unrolled(seq, [p \in Positions |-> Regular(1, "LOAD", {})], 3)
        shown == SelectSeq(UpToTerminator(Samples(unrolled, initial)), LAMBDA w : ~Is(w, "RETRIG"))
    IN  /\ Data(shown) = asked
        /\ \A i \in DOMAIN unrolled : unrolled[i].cnt = 0 => is_trigger(unrolled[i])

\* An SPI device (external): it samples MOSI on the clock edge its mode names
\* while it is selected.  One list of bits per selection; None where MOSI
\* changes together with the sampling edge.
Selected(cfg, pins) == (cfg.cs \in pins) = cfg.cs_high
Received(cfg, tokens) ==
  LET Active(i) == Selected(cfg, tokens[i].val)
      Clk(i) == cfg.sclk \in tokens[i].val
      Mosi(i) == cfg.mosi \in tokens[i].val
      Samples1(i) == /\ i > 1 /\ Active(i) /\ Clk(i) # Clk(i - 1)
                     /\ (Clk(i) # Cpol(cfg)) = ~Cpha(cfg)
      Indices == [i \in DOMAIN tokens |-> i]
      begins == SelectSeq(Indices, LAMBDA i : Active(i) /\ (i = 1 \/ ~Active(i - 1)))
      Next1(k) == IF k = Len(begins) THEN Len(tokens) + 1 ELSE begins[k + 1]
      Edges(k) == SelectSeq(Indices, LAMBDA i : Samples1(i) /\ i >= begins[k] /\ i < Next1(k))
  IN  [k \in DOMAIN begins |->
         [j \in DOMAIN Edges(k) |->
            LET i == Edges(k)[j] IN IF Mosi(i) = Mosi(i - 1) THEN Mosi(i) ELSE None]]

\* What an SPI device receives is what was written, bit for bit, in all four
\* modes and whatever the set-up and hold times.
SpiDelivers ==
  program = "spi" => FlattenSeq(Received(enc.cfg, enc.st.tokens)) = Bits

\* The AD9833 (external): its registers after the words it received.
DdsAfter(words) ==
  LET Step(r, w) ==
        LET half == NumberOfBits(SubSeq(w, 3, Len(w)))
        IN  CASE ~w[1] /\ ~w[2] -> [r EXCEPT !.control = {ControlFlags[k] : k \in
                                       {j \in DOMAIN ControlFlags : w[j + 2]}},
                                     !.low = None]
              [] w[2] /\ ~w[1] -> IF r.low = None THEN [r EXCEPT !.low = half]
                                   ELSE [r EXCEPT !.freq0 = half * 2^HALF + r.low,
                                                  !.low = None]
              [] OTHER -> r
  IN  FoldLeft(Step, [control |-> {}, low |-> None, freq0 |-> None], words)

\* On the bus the generator and the potentiometer share, each receives its own
\* words and nothing of the other's: the generator runs, its tuning word within
\* half a step of the frequency asked for, and the potentiometer holds the
\* wiper position nearest to the gain.
DevicesProgrammed ==
  program = "dds" /\ asked # None => (asked.done =>
    LET dds == DdsAfter(Received(DdsConfig, seq))
        pga == Received(PgaConfig, seq)
        Near(x, y, step) == 2 * (x - y) <= step /\ 2 * (y - x) <= step
        wiper == NumberOfBits(SubSeq(pga[1], BYTE + 1, 2 * BYTE))
    IN  /\ dds.control = {"B28"}
        /\ Near(dds.freq0 * MasterClock, asked.output * 2^(2 * HALF), MasterClock)
        /\ Len(pga) = 1 /\ Near(wiper * MaxGain, asked.gain * (2^BYTE - 1), MaxGain))

\* A scaled time stamp is the floor of the exact quotient, or refused when that
\* does not fit a count.
TimeScaled ==
  program = "vcdtime" /\ asked # None =>
    LET exact == (asked.args[1] * asked.args[2]) \div asked.args[3]
    IN  asked.result = IF exact > MAX_COUNT_T THEN Error ELSE exact

\* The sweep of the PMOD DA3, and the waveform that is repeated from the DMA
\* buffer, reach the DAC as the codes of their voltages, in order, and each of
\* them is held for the dwell time.
SweepDelivered ==
  program = "pptest" /\ asked # None => (asked.no \in {21, 25} =>
    LET select_line == RunsOf([i \in DOMAIN seq |-> seq[i].val \cap {asked.cfg.cs}])
        Held(run) == SumOfCounts(SubSeq(seq, run.first, run.last))
    IN  /\ Received(asked.cfg, seq) =
             [k \in DOMAIN asked.points |->
                BitsOf(code_from_voltage(asked.points[k], asked.vref), 2 * BYTE)]
        /\ \A k \in DOMAIN select_line : k > 1 /\ ~Selected(asked.cfg, select_line[k].val) =>
             Held(select_line[k]) >= asked.dwell)

\* The control loop, from the list of phases: which changes count, their
\* averages, and the integral of all averages but the first: with a full leak,
\* of the newest alone.
LoopSteers ==
  program = "gpsdo" =>
    LET cfg == asked.cfg
        ph == asked.phases
        deltas == [k \in 1 .. (IF ph = <<>> THEN 0 ELSE Len(ph) - 1) |-> ph[k] - ph[k + 1]]
        counted == SelectSeq(deltas, LAMBDA d : AbsVal(d) < cfg.reject)
        clipped == [k \in DOMAIN counted |-> Clamp(counted[k], -cfg.clip, cfg.clip)]
        Total(s) == FoldLeft(LAMBDA x, y : x + y, 0, s)
        updates == Len(clipped) \div cfg.avg
        errors == [k \in 1 .. updates |->
                     Total(SubSeq(clipped, (k - 1) * cfg.avg + 1, k * cfg.avg))]
        kept == SubSeq(errors, IF cfg.pid.eps = 1 /\ updates > 2 THEN updates ELSE 2, updates)
        live == SelectSeq(kept, LAMBDA e : AbsVal(e) > cfg.pid.di)
        volts == cfg.linear.k + cfg.linear.l * asked.loop.pid.control
        code == asked.loop.dac[2] * 2^BYTE + asked.loop.dac[3]
        wanted == IF updates = 0 THEN cfg.start
                  ELSE Clamp(volts, cfg.linear.ymin, cfg.linear.ymax)
        error == code * cfg.vref * cfg.gain
                   - (FullScale - 1) * Clamp(wanted, 0, cfg.vref * cfg.gain)
    IN  /\ asked.loop.pid.i = cfg.pid.ki * Total(live)
        /\ 2 * AbsVal(error) <= cfg.vref * cfg.gain

\* pptemp prints the temperatures of the sensor, whatever its alert flags, and
\* ends after as many readings as were asked for, failed ones included.  In its
\* table every reading has a line, and every column the unit its header says.
Celsius(unit, x) ==
  CASE unit = "temp_c" -> x [] unit = "temp_f" -> (5 * (x - 80 * 32)) \div 9
    [] unit = "temp_k" -> x - 21852
TemperatureTrue ==
  program = "pptemp" =>
    /\ asked.ended = "OK" <=> (asked.count > 0 /\ asked.n = asked.count)
    /\ ~asked.args.csv => Len(asked.out) = Len(SelectSeq(asked.read, LAMBDA t : t # None))
    /\ asked.args.csv =>
         /\ Len(asked.out) = 1 + asked.n
         /\ \A k \in 1 .. asked.n :
              /\ Len(asked.out[k + 1]) = Len(asked.out[1])
              /\ \A c \in 2 .. Len(asked.out[1]) :
                   asked.read[k] # None =>
                     Celsius(asked.out[1][c], asked.out[k + 1][c]) = 5 * asked.read[k]

\* What ppfreq prints is the frequency of the clock, from the first reading on:
\* never a count of the gate before, divided by the length of the new one, nor
\* the zero of a gate that has not ended; and it gives up only on a clock that
\* does not run (as long as a gate has no more edges than a counter counts).
MeterTrue ==
  program = "ppfreq" /\ asked.edges * asked.gate_len <= MAX_TICKS =>
    /\ asked.printed # None => asked.printed = asked.edges * asked.gate_len
    /\ asked.ended = "EXCEPTION" => asked.edges = 0

\* Together: the devices hold, and show, what the programs were asked for.
DevicesHold ==
  /\ SpiDelivers /\ DevicesProgrammed /\ SweepDelivered
  /\ LoopSteers /\ TemperatureTrue /\ MeterTrue
\* Together: a trace keeps its samples and its time.
TraceKept == VcdPlaysTheSame /\ TimeScaled
=============================================================================
