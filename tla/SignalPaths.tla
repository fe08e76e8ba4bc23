---------------------------- MODULE SignalPaths ----------------------------
(***************************************************************************)
(* The output and trigger combiners (ip/combiner, ip/combiner_trig) and    *)
(* the programs that set them up: c++/combiner.hh, qout.hh, trigger.hh,    *)
(* trigger_int.hh, the pio registers, and pptool qout and trig.            *)
(*                                                                         *)
(* A program is a list of register writes, one step each; it may be killed *)
(* between any two.  The registers outlive it; its copy c of the           *)
(* configuration word does not, and starts at zero.  The crossing into the *)
(* signal clock is that of CdcBusUpdate: it may skip settings, and delays  *)
(* them all.                                                               *)
(***************************************************************************)
EXTENDS Integers, Sequences, FiniteSets, FiniteSetsExt, SequencesExt

CONSTANTS
  W,                  \* width of a word; a multiple of four
  PathPrograms(_),    \* command lines, by number: see PathProgram
  NPathPrograms,
  Streams(_),         \* the four streamers' outputs, as 4-tuples of words
  NStreams,
  TestRounds(_),      \* words of ppqout -test: records of value, mask, invert
  NTestRounds,
  PythonPorts,      \* ports the Python program works on
  MaxPathProcesses    \* bound: processes

ASSUME WAssumption == W \in Nat \ {0} /\ W % 4 = 0

VARIABLES
  reg,           \* the registers of the two combiners
  c,             \* the program's copies of their configuration
  pio_trig_int,  \* the internal trigger's register
  streams,       \* what the streamers put out
  todo,          \* register writes to come
  spc, prog,     \* the program's phase, and its command line
  saved,         \* what self_test saved
  found,         \* history: the registers self_test found
  path_rc,
  pathProcesses

pathVars == <<reg, c, pio_trig_int, streams, todo, spc, prog, saved, found, path_rc,
              pathProcesses>>

Bits == 0 .. (W - 1)
NR == 4
Ports == 0 .. NR            \* 0 is the output
Combiners == {"qout", "trig"}
comb_mode == {"SEL1", "SEL2", "SEL3", "SEL4", "AND", "OR", "XOR", "XNOR", "MAJ", "BLOCK8",
              "BLOCK16", "SUM12", "SUM1234", "DIFF12"}

NoCfg == [mode |-> "SEL1", force |-> {}, rb |-> {}]
Passthrough ==
  [cfg |-> NoCfg, invert |-> [n \in Ports |-> {}], mask |-> [n \in Ports |-> Bits],
   value |-> [n \in Ports |-> {}]]
-----------------------------------------------------------------------------
(***************************************************************************)
(* The combiner: inputs forced, inverted, masked; combined; the result     *)
(* inverted and masked, or forced.                                         *)
(***************************************************************************)
Xor(a, b) == (a \ b) \cup (b \ a)
Num(w) == SumSet({2^b : b \in w})
ToWord(n) == {b \in Bits : (n \div 2^b) % 2 = 1}
Low(w, bits, k) == {b + k * bits : b \in {b \in w : b < bits}}

y(r, ins, n) == Xor(IF n \in r.cfg.force THEN r.value[n] ELSE ins[n], r.invert[n]) \cap r.mask[n]
z(mode, a) ==
  CASE mode = "SEL1" -> a[1]
    [] mode = "SEL2" -> a[2]
    [] mode = "SEL3" -> a[3]
    [] mode = "SEL4" -> a[4]
    [] mode = "AND"  -> {b \in Bits : \A n \in 1..NR : b \in a[n]}
    [] mode = "OR"   -> UNION {a[n] : n \in 1..NR}
    [] mode = "XOR"  -> {b \in Bits : Cardinality({n \in 1..NR : b \in a[n]}) % 2 = 1}
    [] mode = "XNOR" -> {b \in Bits : Cardinality({n \in 1..NR : b \in a[n]}) % 2 = 0}
    [] mode = "MAJ"  -> {b \in Bits : Cardinality({n \in 1..NR : b \in a[n]}) >= 3}
    [] mode = "BLOCK8"  -> UNION {Low(a[n], W \div 4, n - 1) : n \in 1..NR}
    [] mode = "BLOCK16" -> UNION {Low(a[n], W \div 2, n - 1) : n \in 1..2}
    [] mode = "SUM12"   -> ToWord((Num(a[1]) + Num(a[2])) % 2^W)
    [] mode = "SUM1234" -> ToWord((Num(a[1]) + Num(a[2]) + Num(a[3]) + Num(a[4])) % 2^W)
    [] mode = "DIFF12"  -> ToWord((Num(a[1]) - Num(a[2])) % 2^W)
o(r, ins) ==
  IF 0 \in r.cfg.force THEN r.value[0]
  ELSE Xor(z(r.cfg.mode, [n \in 1..NR |-> y(r, ins, n)]), r.invert[0]) \cap r.mask[0]

\* The value registers read as stored, or as the port, as the RB bits say.
value_read(r, ins, n) ==
  IF n \notin r.cfg.rb THEN r.value[n] ELSE IF n = 0 THEN o(r, ins) ELSE ins[n]

\* Input 1 of the trigger combiner is the internal trigger; 2 to 4 rest low.
Ins(k) == IF k = "qout" THEN streams ELSE <<pio_trig_int.trig, {}, {}, {}>>
-----------------------------------------------------------------------------
(***************************************************************************)
(* The operations of class combiner, as the writes they make: mode and cfg *)
(* and the force and read-back bits go through the copy c, the rest do     *)
(* not.                                                                    *)
(***************************************************************************)
Item(k, op, n, v) == [k |-> k, op |-> op, n |-> n, v |-> v]
mode(k, m) == <<Item(k, "mode", 0, m)>>
cfg(k, v) == <<Item(k, "cfg", 0, v)>>
invert(k, n, v) == <<Item(k, "invert", n, v)>>
mask(k, n, v) == <<Item(k, "mask", n, v)>>
value(k, n, v) == <<Item(k, "value", n, v)>>
enable_force(k, n) == <<Item(k, "enable_force", {n}, {})>>
release_force(k, n) == <<Item(k, "release_force", {n}, {})>>
\* The value first, then the force.
force(k, n, v) == value(k, n, v) \o enable_force(k, n)
\* A read of a value chooses what to read.
get_force(k, n) == <<Item(k, "rb_clear", {n}, {})>>
read_port(k, n) == <<Item(k, "rb_set", {n}, {})>>
rb_force(k) == <<Item(k, "rb_clear", Ports, {})>>
rb_port(k) == <<Item(k, "rb_set", Ports, {})>>

\* Mutant: only the inputs.
MutInputsOnly(k) ==
  cfg(k, NoCfg) \o FlattenSeq([n \in 1..NR |->
    invert(k, n, {}) \o mask(k, n, Bits) \o value(k, n, {})])
reset_passthrough(k) ==
  cfg(k, NoCfg) \o FlattenSeq([i \in 1 .. (NR + 1) |->
    invert(k, i - 1, {}) \o mask(k, i - 1, Bits) \o value(k, i - 1, {})])

Cfg(w) ==
  LET old == c[w.k]
  IN  CASE w.op = "mode" -> [old EXCEPT !.mode = w.v]
        [] w.op = "cfg" -> w.v
        [] w.op = "enable_force" -> [old EXCEPT !.force = @ \cup w.n]
        [] w.op = "release_force" -> [old EXCEPT !.force = @ \ w.n]
        [] w.op = "rb_set" -> [old EXCEPT !.rb = @ \cup w.n]
        [] w.op = "rb_clear" -> [old EXCEPT !.rb = @ \ w.n]
Apply(w) ==
  CASE w.op = "invert" -> reg' = [reg EXCEPT ![w.k].invert[w.n] = w.v] /\ UNCHANGED c
    [] w.op = "mask" -> reg' = [reg EXCEPT ![w.k].mask[w.n] = w.v] /\ UNCHANGED c
    [] w.op = "value" -> reg' = [reg EXCEPT ![w.k].value[w.n] = w.v] /\ UNCHANGED c
    [] OTHER -> c' = [c EXCEPT ![w.k] = Cfg(w)] /\ reg' = [reg EXCEPT ![w.k].cfg = Cfg(w)]
-----------------------------------------------------------------------------
(***************************************************************************)
(* The programs.  A command line is the tool, the output options as        *)
(* <<option, port, value>> and the trigger options.                        *)
(***************************************************************************)
\* qout::set: a mode in any case, the first one given; then port by port, the
\* output last, and only what is given.
QoutPorts == <<1, 2, 3, 4, 0>>
Given(p, option, n) == {x \in p.out : x.option = option /\ x.n = n}
When(xs, Op(_)) == FlattenSeq([i \in 1 .. Cardinality(xs) |-> Op((SetToSeq(xs)[i]).v)])
qout_set(p) ==
  mode("qout", p.out_mode) \o FlattenSeq([i \in 1 .. (NR + 1) |->
    LET n == QoutPorts[i]
    IN  When(Given(p, "invert", n), LAMBDA v : invert("qout", n, v))
          \o When(Given(p, "mask", n), LAMBDA v : mask("qout", n, v))
          \o When(Given(p, "force", n), LAMBDA v : force("qout", n, v))])

\* trigger::set: "Mode is always programmed"; the rest only when given.
trigger_mode(m) ==
  CASE m = "internal" -> "SEL1"
    [] m = "external" -> "SEL2"
    [] m = "misc" -> "SEL3"
    [] m = "any" -> "OR"
    [] m = "all" -> "AND"
trigger_set(p) ==
  mode("trig", trigger_mode(p.trig_mode))
    \o FlattenSeq([i \in 1..NR |-> When(Given(p, "trig_invert", i - 1), LAMBDA v : invert("trig", i - 1, v))])
    \o FlattenSeq([i \in 1..NR |-> When(Given(p, "trig_mask", i - 1), LAMBDA v : mask("trig", i - 1, v))])

\* trigger_int: the pattern and the three control bits, each by
\* read-modify-write.
trigger_int_trig(p) == [pio_trig_int EXCEPT !.trig = p]
trigger_int_bit(bit, x) ==
  [pio_trig_int EXCEPT !.ctrl = IF x THEN @ \cup {bit} ELSE @ \ {bit}]

\* combiner::report: every stored value, then every port.
report(k) ==
  FlattenSeq([n \in 1 .. (NR + 1) |-> get_force(k, n % (NR + 1))]) \o rb_port(k)

\* self_test: adopt and save, write words to every port, restore.
get_saved(k) == cfg(k, reg[k].cfg) \o FlattenSeq([n \in 1 .. (NR + 1) |-> get_force(k, n - 1)])
Scramble(k) ==
  FlattenSeq([i \in 1 .. (NR + 1) |->
    invert(k, i - 1, Bits) \o mask(k, i - 1, {0}) \o force(k, i - 1, Bits)])
Restore(k, s) ==
  FlattenSeq([i \in 1 .. (NR + 1) |->
    invert(k, i - 1, s.invert[i - 1]) \o mask(k, i - 1, s.mask[i - 1])
      \o value(k, i - 1, s.value[i - 1])]) \o cfg(k, s.cfg)
-----------------------------------------------------------------------------
PathInit ==
  /\ reg = [k \in Combiners |-> Passthrough]
  /\ c = [k \in Combiners |-> NoCfg]
  /\ pio_trig_int = [trig |-> {}, ctrl |-> {}]
  /\ \E s \in 1..NStreams : streams = Streams(s)
  /\ todo = <<>> /\ spc = "none" /\ prog = 1
  /\ saved = Passthrough /\ found = Passthrough /\ path_rc = "OK" /\ pathProcesses = 0

\* A program starts: the internal trigger is cleared.  A single streamer
\* restores its output route; four streamers leave it.
StartPath(p) ==
  /\ spc = "none" /\ pathProcesses < MaxPathProcesses
  /\ pathProcesses' = pathProcesses + 1
  /\ prog' = p
  /\ c' = [k \in Combiners |-> NoCfg]
  /\ todo' = IF PathPrograms(p).tool = "qout" THEN <<>> ELSE reset_passthrough("qout")
  /\ spc' = "bringup" /\ path_rc' = "OK"
  /\ pio_trig_int' = [trig |-> {}, ctrl |-> {}]
  /\ UNCHANGED <<reg, streams, saved, found>>

WriteRegister ==
  /\ todo # <<>>
  /\ Apply(Head(todo))
  /\ todo' = Tail(todo)
  /\ UNCHANGED <<pio_trig_int, streams, spc, prog, saved, found, path_rc, pathProcesses>>

\* One phase is written; the next.
Phase(from, to, writes) ==
  /\ spc = from /\ todo = <<>>
  /\ spc' = to /\ todo' = writes
  /\ UNCHANGED <<reg, c, prog, pathProcesses>>
Program == PathPrograms(prog)

SetPaths ==
  /\ Phase("bringup", "set", IF Program.tool = "qout" THEN qout_set(Program)
                             ELSE IF Program.tool = "trig" THEN trigger_set(Program) ELSE <<>>)
  /\ UNCHANGED <<pio_trig_int, streams, saved, found, path_rc>>

\* pptrig: -pio goes to the register as it is; then the four reads.
pptrig ==
  /\ Program.tool = "trig"
  /\ Phase("set", "end", FlattenSeq([n \in 1..NR |-> read_port("trig", n % NR)]))
  /\ \/ pio_trig_int' = [trig |-> {0}, ctrl |-> {"ENABLE"}]
     \/ \E x \in BOOLEAN, bit \in {"ENABLE", "FORCE", "RESET"} :
          pio_trig_int' = trigger_int_bit(bit, x)
     \/ \E p \in {{}, {0}} : pio_trig_int' = trigger_int_trig(p)
  /\ UNCHANGED <<streams, saved, found, path_rc>>

\* The Python bindings call the operations in any order.
PythonCall(n) ==
  /\ Program.tool = "python"
  /\ \/ Phase("set", "set", read_port("qout", n))
     \/ Phase("set", "set", rb_force("qout"))
     \/ Phase("set", "set", force("qout", n, {1}))
     \/ Phase("set", "set", release_force("qout", n))
  /\ UNCHANGED <<pio_trig_int, streams, saved, found, path_rc>>

\* ppqout: -self_test, -report_pre, the streamers' outputs, the ports, -test.
SelfTest ==
  /\ Program.tool \in {"qout", "python"} /\ Program.self_test
  /\ Phase("set", "save", get_saved("qout"))
  /\ found' = reg["qout"]
  /\ UNCHANGED <<pio_trig_int, streams, saved, path_rc>>
SavedValue(n) == value_read(reg["qout"], streams, n)
SaveAll ==
  /\ Phase("save", "scramble", Scramble("qout"))
  /\ saved' = [cfg |-> found.cfg, invert |-> reg["qout"].invert, mask |-> reg["qout"].mask,
               value |-> [n \in Ports |-> SavedValue(n)]]
  /\ UNCHANGED <<pio_trig_int, streams, found, path_rc>>
\* A register reads back differently: the rest of the test is left out.
SelfTestBreaks ==
  /\ spc = "scramble" /\ todo # <<>> /\ path_rc = "OK"
  /\ todo' = <<>> /\ path_rc' = "CHECK"
  /\ UNCHANGED <<reg, c, pio_trig_int, streams, spc, prog, saved, found, pathProcesses>>
RestoreAll ==
  /\ Phase("scramble", "restored", Restore("qout", saved))
  /\ UNCHANGED <<pio_trig_int, streams, saved, found, path_rc>>
Report ==
  /\ Program.tool = "qout"
  /\ \/ Phase("set", "show", report("qout")) /\ ~Program.self_test
     \/ path_rc = "OK" /\ Phase("restored", "show", report("qout"))
  /\ path_rc' = IF c["qout"] # reg["qout"].cfg THEN "EXCEPTION" ELSE path_rc
  /\ UNCHANGED <<pio_trig_int, streams, saved, found>>
QoutSet(s) ==
  /\ Phase("show", IF Program.test THEN "test" ELSE "end",
           FlattenSeq([n \in 1 .. (NR + 1) |-> read_port("qout", n % (NR + 1))]))
  /\ streams' = Streams(s)
  /\ UNCHANGED <<pio_trig_int, saved, found, path_rc>>

\* -test: random words on all ports, then every mode against the host's own
\* combine().
bitwise_majority4(a) ==
  (a[1] \cap a[2] \cap a[3]) \cup (a[1] \cap a[2] \cap a[4])
    \cup (a[1] \cap a[3] \cap a[4]) \cup (a[2] \cap a[3] \cap a[4])
combine(m, a) ==
  CASE m = "SEL1" -> a[1] [] m = "SEL2" -> a[2] [] m = "SEL3" -> a[3] [] m = "SEL4" -> a[4]
    [] m = "AND" -> a[1] \cap a[2] \cap a[3] \cap a[4]
    [] m = "OR" -> a[1] \cup a[2] \cup a[3] \cup a[4]
    [] m = "XOR" -> Xor(Xor(Xor(a[1], a[2]), a[3]), a[4])
    [] m = "XNOR" -> Bits \ Xor(Xor(Xor(a[1], a[2]), a[3]), a[4])
    [] m = "MAJ" -> bitwise_majority4(a)
    [] m = "BLOCK8" -> ToWord(SumSet({Num(Low(a[n], W \div 4, n - 1)) : n \in 1..NR}))
    [] m = "BLOCK16" -> ToWord(Num(Low(a[1], W \div 2, 0)) + Num(Low(a[2], W \div 2, 1)))
    [] m = "SUM12" -> ToWord((Num(a[1]) + Num(a[2])) % 2^W)
    [] m = "SUM1234" -> ToWord((Num(a[1]) + Num(a[2]) + Num(a[3]) + Num(a[4])) % 2^W)
    [] m = "DIFF12" -> ToWord((2^W + Num(a[1]) - Num(a[2])) % 2^W)
TestRound(k) ==
  LET t == TestRounds(k)
  IN  /\ Phase("test", "tested",
           FlattenSeq([n \in 1..NR |-> force("qout", n, t.value[n])])
             \o FlattenSeq([n \in 1 .. (NR + 1) |-> mask("qout", n - 1, t.mask[n - 1])])
             \o FlattenSeq([n \in 1 .. (NR + 1) |-> invert("qout", n - 1, t.invert[n - 1])])
             \o release_force("qout", 0))
      /\ saved' = t
      /\ UNCHANGED <<pio_trig_int, streams, found, path_rc>>
Expected(m, t) ==
  Xor(combine(m, [n \in 1..NR |-> Xor(t.value[n], t.invert[n]) \cap t.mask[n]]), t.invert[0])
    \cap t.mask[0]
TestMode(m) ==
  /\ Phase("tested", "compare", mode("qout", m) \o read_port("qout", 0))
  /\ UNCHANGED <<pio_trig_int, streams, saved, found, path_rc>>
TestCompare ==
  /\ Phase("compare", "end", <<>>)
  /\ path_rc' = IF value_read(reg["qout"], streams, 0) # Expected(reg["qout"].cfg.mode, saved)
                  THEN "CHECK" ELSE path_rc
  /\ UNCHANGED <<pio_trig_int, streams, saved, found>>

\* The process ends, or is killed wherever it is.
EndPath ==
  /\ todo = <<>> /\ spc \in {"set", "show", "restored", "end"}
  /\ spc = "set" => Program.tool \in {"stream", "python"}
  /\ spc' = "none"
  /\ UNCHANGED <<reg, c, pio_trig_int, streams, todo, prog, saved, found, path_rc, pathProcesses>>
KillPath ==
  /\ spc # "none"
  /\ spc' = "none" /\ todo' = <<>>
  /\ UNCHANGED <<reg, c, pio_trig_int, streams, prog, saved, found, path_rc, pathProcesses>>

PathNext ==
  \/ \E p \in 1..NPathPrograms : StartPath(p)
  \/ WriteRegister \/ SetPaths \/ pptrig
  \/ \E n \in PythonPorts : PythonCall(n)
  \/ SelfTest \/ SaveAll \/ SelfTestBreaks \/ RestoreAll \/ Report
  \/ \E s \in 1..NStreams : QoutSet(s)
  \/ \E k \in 1..NTestRounds : TestRound(k)
  \/ \E m \in comb_mode : TestMode(m)
  \/ TestCompare \/ EndPath \/ KillPath
-----------------------------------------------------------------------------
(***************************************************************************)
(* Properties.                                                             *)
(***************************************************************************)
\* "restore the single-stream output combiner route": a streamer that comes up
\* has its own output on the pins, whatever processes before it, killed ones
\* too, left in the combiner.
RouteRestored ==
  spc = "set" /\ Program.tool = "stream" =>
    \A s \in 1..NStreams : o(reg["qout"], Streams(s)) = Streams(s)[1]

\* self_test leaves every register as it found it, wherever it breaks off and
\* whatever the read-back bits were.
SelfTestRestores == spc = "restored" /\ todo = <<>> => reg["qout"] = found

\* ppqout -test finds the combiner doing what combine() says, in every mode,
\* after whatever was left in the registers.
TestAgrees == spc = "end" /\ Program.tool = "qout" /\ Program.test => path_rc # "CHECK"

\* Together: the registers of a combiner never carry one program's settings into
\* another's result.
PathsRestored == RouteRestored /\ SelfTestRestores /\ TestAgrees
=============================================================================
