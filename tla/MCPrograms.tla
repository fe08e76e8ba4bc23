----------------------------- MODULE MCPrograms -----------------------------
(***************************************************************************)
(* The programs on small instances: command lines, requests, SCPI lines    *)
(* and sequences that between them take every branch.                      *)
(***************************************************************************)
EXTENDS Programs

\* Workflow: two pins; sequences that wait for a trigger, repeat a value, hold an
\* element of length zero, and one that is longer than the buffers.
MCOrbit == <<{0}, {0, 1}>>
MCSequence(n) ==
  CASE n = 1 -> <<>>
    [] n = 2 -> <<Trigger({0}, {0}, TRUE), Regular(1, "LOAD", {0}), Regular(2, "FLIP", {1})>>
    [] n = 3 -> <<Trigger({0}, {0}, TRUE), Regular(1, "LOAD", {0}), Regular(1, "SET", {0}),
                  Regular(1, "LOAD", {1}), Final("LOAD", {0})>>
    [] n = 4 -> <<Regular(0, "FLIP", {0}), Regular(1, "FLIP", {1})>>
    [] n = 5 -> <<Regular(1, "LOAD", {0}), Regular(1, "LOAD", {1}), Regular(1, "LOAD", {0}),
                  Regular(1, "LOAD", {1}), Regular(1, "LOAD", {0})>>
Opts(forced, checked, reads, leaves, sbe, policy, v0) ==
  [force |-> forced, check |-> checked, read |-> reads, dont_wait |-> leaves,
   sbe |-> sbe, policy |-> policy, i |-> v0]
MCOptions ==
  {Opts(TRUE, TRUE, FALSE, FALSE, FALSE, "default", {}),
   Opts(FALSE, TRUE, FALSE, FALSE, TRUE, "default", {0}),
   Opts(TRUE, FALSE, TRUE, FALSE, FALSE, "hard", {1}),
   Opts(TRUE, TRUE, FALSE, TRUE, FALSE, "idle", {}),
   Opts(FALSE, TRUE, TRUE, FALSE, FALSE, "hard", {0, 1}),
   Opts(TRUE, FALSE, FALSE, FALSE, TRUE, "default", {}),
   Opts(FALSE, FALSE, FALSE, FALSE, FALSE, "none", {})}

\* SignalPaths: a stream, ppqout with -self_test, ppqout -test, pptrig, Python.
Port(option, port, word) == [option |-> option, n |-> port, v |-> word]
Quiet == [tool |-> "qout", out_mode |-> "SEL1", out |-> {}, trig_mode |-> "internal",
          self_test |-> FALSE, test |-> FALSE]
MCPathPrograms(p) ==
  CASE p = 1 -> [Quiet EXCEPT !.tool = "stream"]
    [] p = 2 -> [Quiet EXCEPT !.out_mode = "SUM12", !.self_test = TRUE,
                              !.out = {Port("invert", 0, {0, 2}), Port("mask", 2, {1}),
                                       Port("force", 0, {3}), Port("force", 3, {1, 2})}]
    [] p = 3 -> [Quiet EXCEPT !.out_mode = "MAJ", !.test = TRUE, !.out = {Port("force", 1, {2})}]
    [] p = 4 -> [Quiet EXCEPT !.tool = "trig", !.trig_mode = "any",
                              !.out = {Port("trig_invert", 0, {0}), Port("trig_mask", 2, {})}]
    [] p = 5 -> [Quiet EXCEPT !.tool = "python", !.self_test = TRUE]
MCStreams(s) == <<{0}, {0, 1}, {2}, {3}>>
MCTestRounds(k) ==
  [cfg |-> NoCfg, value |-> [n \in Ports |-> {n % 4, 1}],
   mask |-> [n \in Ports |-> (0..3) \ {n}], invert |-> [n \in Ports |-> {0, (2*n) % 4}]]

\* Bringup: every clock option, profiles of each form, legal and not.
NoProfile == [kind |-> "none"]
Plain == [env |-> {}, cli |-> {}, progname |-> "pptool", version_ok |-> TRUE, clk |-> 0,
          mask |-> 15, multi |-> FALSE, core |-> NoProfile, int |-> NoProfile, pump |-> FALSE]
Preset(name) == [kind |-> "preset", name |-> name]
Frequency(mhz) == [kind |-> "frequency", mhz |-> mhz]
Raw(triple) == [kind |-> "raw", triple |-> triple]
MCBootOptions(n) ==
  CASE n = 1 -> [Plain EXCEPT !.multi = TRUE]
    [] n = 2 -> [Plain EXCEPT !.cli = {"-ext_clk", "-dark_mode"}, !.core = Preset("i2l")]
    [] n = 3 -> [Plain EXCEPT !.env = {"PP_INT_CLK"}, !.int = Frequency(66), !.pump = TRUE,
                              !.mask = 16, !.multi = TRUE]
    [] n = 4 -> [Plain EXCEPT !.env = {"PP_CLK"}, !.cli = {"-ext_clk"}, !.clk = 1]
    [] n = 5 -> [Plain EXCEPT !.progname = "ppreset", !.int = Raw(<<1, 40, 2>>)]
    [] n = 6 -> [Plain EXCEPT !.cli = {"-clk", "-reset_FPGA"}, !.clk = 4]
    [] n = 7 -> [Plain EXCEPT !.version_ok = FALSE]
    [] n = 8 -> [Plain EXCEPT !.int = Raw(<<2, 511, 2>>), !.core = Frequency(1700)]
    [] n = 9 -> [Plain EXCEPT !.int = Frequency(825), !.core = Preset("5M")]

\* WebGui: every route, with good and bad parameters.
Request0(route) == [kind |-> route, form |-> TRUE]
Override(on) == [kind |-> "qout", form |-> TRUE, enabled |-> on, value |-> 1]
Clocking(source, core, internal) ==
  [kind |-> "clocking", form |-> TRUE, source |-> source, core |-> core, internal |-> internal]
TriggerTo(m, word) == [kind |-> "trigger", form |-> TRUE, mode |-> m, lines |-> word]
CombinerTo(m, forced, word) ==
  [kind |-> "combiner", form |-> TRUE, mode |-> m, force |-> forced, value |-> word]
StreamText(content, size) == [kind |-> "stream", form |-> TRUE, text |-> content, length |-> size]
MCWebRequests(n) ==
  CASE n = 1 -> Request0("status") [] n = 2 -> Override(TRUE) [] n = 3 -> Override(FALSE)
    [] n = 4 -> Clocking("ext", "100M", "50M")
    [] n = 5 -> Clocking("int", "80M", "out_of_range")
    [] n = 6 -> Clocking("int", "80M", "nonsense")
    [] n = 7 -> Request0("measure")
    [] n = 8 -> TriggerTo("ANY", 1)
    [] n = 9 -> CombinerTo("OR", TRUE, 1) [] n = 10 -> CombinerTo("SEL1", FALSE, 0)
    [] n = 11 -> Request0("reset")
    [] n = 12 -> StreamText("plays", 2) [] n = 13 -> StreamText("final", 1)
    [] n = 14 -> StreamText("garbled", 1) [] n = 15 -> StreamText("plays", 3)
    [] n = 16 -> Clocking("keep", "", "100M")
MCWebConfigs(n) ==
  IF n = 1
    THEN [clock |-> [source |-> "keep", core |-> "", internal |-> ""],
          trigger |-> TriggerAtReset, comb |-> PassThrough]
    ELSE [clock |-> [source |-> "ext", core |-> "80M", internal |-> "100M"],
          trigger |-> [TriggerAtReset EXCEPT !.mode = "OR"],
          comb |-> [PassThrough EXCEPT !.mode = "OR", !.force = TRUE]]

\* ScpiServer: lines of several commands, headers that exist, do not, or are bad.
Cmd(header) == [c |-> header, arg |-> 0]
With(header, argument) == [c |-> header, arg |-> argument]
MCScpiLines(n) ==
  CASE n = 1 -> <<Cmd("*IDN?"), With("SEQ", 1), Cmd("STREAM"), Cmd("*OPC?")>>
    [] n = 2 -> <<With("SEQ", 0), Cmd("STREAM")>>
    [] n = 3 -> <<With("CHECK", 1), Cmd("CHECK?"), Cmd("STREAM"), Cmd("*OPC"), Cmd("*ESR?")>>
    [] n = 4 -> <<Cmd("SYST:ERR?"), Cmd("*STB?"), Cmd("*CLS"), Cmd("*WAI"), Cmd("*RST"),
                  Cmd("*RST?")>>
    [] n = 5 -> <<Cmd("TEST1"), With("CHECK", 2)>>
    [] n = 6 -> <<Cmd("*IDN?"), Cmd("DISCONNECT")>>
    [] n = 7 -> <<Cmd("CLOCK:STREAMER?"), Cmd("TERMINATE")>>
    [] n = 8 -> <<Cmd("SYST"), Cmd("*IDN")>>
    [] n = 9 -> <<Cmd("FOO")>>

\* LineServer: TCP, UDP, no server, a bad port, -wait.
Served == [server |-> TRUE, port |-> 5555, udp |-> FALSE, wait |-> FALSE,
           ignore_errors |-> FALSE, command |-> "streaming"]
MCMainOptions(n) ==
  CASE n = 1 -> Served
    [] n = 2 -> [Served EXCEPT !.udp = TRUE, !.ignore_errors = TRUE]
    [] n = 3 -> [Served EXCEPT !.server = FALSE, !.command = "unknown"]
    [] n = 4 -> [Served EXCEPT !.port = 70000]
    [] n = 5 -> [Served EXCEPT !.wait = TRUE, !.command = "pphelloworld"]

\* Counters: counter_seq1, and a sequence that starts and ends high.
MCCounterSequences(k) ==
  IF k = 1 THEN <<0, 1, 0, 1, 0, 1, 1, 0, 0>> ELSE <<1, 1, 1, 0, 1>>
=============================================================================
