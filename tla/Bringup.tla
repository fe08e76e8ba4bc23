------------------------------- MODULE Bringup -------------------------------
(***************************************************************************)
(* How a program comes up: HostRuntime (c++/host_runtime.hh), the start-up *)
(* policy (startup.hh), the FPGA's owner (fpga.hh), the clock selector and *)
(* the PLLs (pll_clk.hh, pll_calc.hh, pll_rules.hh, tidbit/pll.hh), the    *)
(* frequency meter (freq_meter.hh), the realtime scheduler (realtime.hh)   *)
(* and the streamer's first steps (basic_multi_dma.hh).                    *)
(*                                                                         *)
(* gp_out, the reset line and the PLLs outlive a process, which may be     *)
(* killed after any write.  A clock is told by its source and, for the     *)
(* internal one, its counters; frequencies are in MHz.                     *)
(***************************************************************************)
EXTENDS Integers, Sequences, FiniteSets

CONSTANTS
  BootOptions(_),   \* command lines and environments, by number
  NBootOptions,
  Frequencies,      \* frequencies asked for, in MHz
  CALC_MAX,         \* bound: counters that calculate tries (510)
  MaxBoots          \* bound: processes

\* Twelve is the least multiplier that brings the reference to 600 MHz.
ASSUME CalcAssumption == CALC_MAX \in 12..510
ASSUME BootAssumption ==
  /\ Frequencies \subseteq Nat
  /\ \A n \in 1..NBootOptions : \A p \in {BootOptions(n).core, BootOptions(n).int} :
       p.kind = "frequency" => p.mhz \in Frequencies

VARIABLES
  gp_out,        \* the selector and the LED bits, in the FPGA manager
  cfg_copy,      \* FPGA::cfg
  held_in_reset,          \* the FPGA is held_in_reset in reset
  preg, pll,     \* the counters as written, and as running
  ext_clk,       \* there is an external clock
  streamer_clk,  \* the streamer clock as measured
  pio_cfg,       \* outputs enabled, and the mask of active streamers
  sched,         \* the scheduling policy, and who will restore it
  bpc, boot,     \* phase and command line of the process
  profile_kind,          \* history: the kind of profile each PLL got last
  torn,          \* history: a PLL update was cut short
  boots

bootVars == <<gp_out, cfg_copy, held_in_reset, preg, pll, ext_clk, streamer_clk, pio_cfg, sched,
              bpc, boot, profile_kind, torn, boots>>

Which == {"core", "int"}
ch_ext == 2
ch_int == 3
NoClock == [src |-> "none", n |-> 0, m |-> 0, c |-> 0]
bopt == BootOptions(boot)
-----------------------------------------------------------------------------
(***************************************************************************)
(* Options: the environment and the command line.                          *)
(***************************************************************************)
Asked(env, option) == env \in bopt.env \/ option \in bopt.cli
resolve_reset_FPGA == bopt.progname = "ppreset" \/ Asked("PP_RESET_FPGA", "-reset_FPGA")
resolve_dark_mode == Asked("PP_DARK_MODE", "-dark_mode")
\* "the raw -clk selector remains the most explicit request".
resolve_clock_selection ==
  CASE Asked("PP_CLK", "-clk") -> "raw_select"
    [] ~Asked("PP_CLK", "-clk") /\ Asked("PP_EXT_CLK", "-ext_clk") -> "external"
    [] ~Asked("PP_CLK", "-clk") /\ ~Asked("PP_EXT_CLK", "-ext_clk")
         /\ Asked("PP_INT_CLK", "-int_clk") -> "internal"
    [] OTHER -> "keep"
resolve_done_masks ==
  IF bopt.mask > 15 THEN <<>>    \* "must be in the range 0..15"
  ELSE IF bopt.multi THEN <<bopt.mask, bopt.mask>> ELSE <<1, 1>>
-----------------------------------------------------------------------------
(***************************************************************************)
(* PLL profiles.  A triple is <<n, m, c>>; the output is ref * m/(n*c).    *)
(***************************************************************************)
reference == 50
is_strict(t) ==
  /\ \A k \in 1..3 : t[k] \in 1..510
  /\ reference >= 5 * t[1] /\ reference <= 325 * t[1]
  /\ reference * t[2] >= 600 * t[1] /\ reference * t[2] <= 1600 * t[1]

pll_rules ==
  [p \in {"100M", "80M", "75M", "60M", "50M", "40M", "25M", "30M", "20M", "10M", "5M",
          "lj", "ilj", "ih", "il", "i2h", "i2l"} |->
    CASE p = "100M" -> <<5, 20, 2>>   [] p = "80M" -> <<3, 24, 5>>
      [] p = "75M" -> <<5, 30, 4>>    [] p = "60M" -> <<5, 30, 5>>
      [] p = "50M" -> <<5, 30, 6>>    [] p = "40M" -> <<5, 20, 5>>
      [] p = "25M" -> <<10, 30, 6>>   [] p = "30M" -> <<10, 30, 5>>
      [] p = "20M" -> <<10, 20, 5>>   [] p = "10M" -> <<10, 20, 10>>
      [] p = "5M" -> <<20, 20, 10>>   [] p = "lj" -> <<1, 20, 10>>
      [] p = "ilj" -> <<1, 17, 13>>   [] p = "ih" -> <<3, 71, 13>>
      [] p = "il" -> <<5, 79, 17>>    [] p = "i2h" -> <<7, 223, 17>>
      [] p = "i2l" -> <<9, 271, 23>>]

Abs(x) == IF x < 0 THEN -x ELSE x
\* make_parameters: the error, as a fraction over n * c.
error(t, f) == Abs(reference * t[2] - f * t[1] * t[3])
is_better(a, b, f) ==
  LET ea == error(a, f) * b[1] * b[3]
      eb == error(b, f) * a[1] * a[3]
      va == Abs(reference * a[2] - 1000 * a[1])
      vb == Abs(reference * b[2] - 1000 * b[1])
  IN  \/ ea < eb
      \/ /\ ea = eb
         /\ \/ a[1] < b[1]
            \/ /\ a[1] = b[1]
               /\ \/ va < vb
                  \/ va = vb /\ (a[2] < b[2] \/ (a[2] = b[2] /\ a[3] < b[3]))
\* The three loops, and the best of what they meet.
candidates ==
  {t \in (1..CALC_MAX) \X (1..CALC_MAX) \X (1..CALC_MAX) :
     /\ reference >= 5 * t[1] /\ reference <= 325 * t[1]
     /\ reference * t[2] >= 600 * t[1] /\ reference * t[2] <= 1600 * t[1]}
calculate(f) ==
  IF f * CALC_MAX < 600 \/ f > 1600 THEN <<>>
  ELSE CHOOSE t \in candidates : \A u \in candidates : u = t \/ is_better(t, u, f)

calculated == [f \in Frequencies |-> calculate(f)]

\* "", a preset, a raw triple, or a frequency; <<>> where it throws.
resolve_profile(p) ==
  CASE p.kind = "preset" -> pll_rules[p.name]
    [] p.kind = "raw" -> p.triple
    [] p.kind = "frequency" -> calculated[p.mhz]

\* The counter fields: two halves of eight bits.
encode(v) == [hi |-> (v \div 2) % 256, lo |-> (v - (v \div 2)) % 256]
convert(x) == x.hi + x.lo
get_freq(t) == [src |-> "int", n |-> convert(t[1]), m |-> convert(t[2]), c |-> convert(t[3])]
-----------------------------------------------------------------------------
\* The clock the streamer runs on.
ActualClock ==
  CASE held_in_reset -> NoClock
    [] ~held_in_reset /\ gp_out.sel = ch_ext /\ ext_clk -> [NoClock EXCEPT !.src = "ext"]
    [] ~held_in_reset /\ gp_out.sel = ch_int -> get_freq(pll["int"])
    [] OTHER -> NoClock

Preset100M == [k \in 1..3 |-> encode(pll_rules["100M"][k])]
BootInit ==
  /\ gp_out = [sel |-> 0, dark |-> {}] /\ cfg_copy = [sel |-> 0, dark |-> {}]
  /\ held_in_reset = FALSE
  /\ preg = [w \in Which |-> Preset100M] /\ pll = [w \in Which |-> Preset100M]
  /\ ext_clk \in BOOLEAN
  /\ streamer_clk = NoClock
  /\ pio_cfg = [oe |-> FALSE, active |-> 0, live |-> 0]
  /\ sched = [policy |-> "OTHER", orig |-> {}]
  /\ bpc = "none" /\ boot = 1 /\ profile_kind = [w \in Which |-> "none"] /\ torn = FALSE /\ boots = 0

Hw == <<gp_out, held_in_reset, preg, pll, ext_clk, pio_cfg>>
History == <<boot, profile_kind, torn, boots>>

\* The process ends, by itself, by an exception or by a signal; the destructors
\* run unless it is killed, and the scheduler is the process's own anyway.
Ends(cut) ==
  /\ bpc' = "none" /\ sched' = [policy |-> "OTHER", orig |-> {}]
  /\ torn' = (torn \/ cut)
  /\ UNCHANGED <<Hw, cfg_copy, streamer_clk, boot, profile_kind, boots>>

StartBoot(n) ==
  /\ bpc = "none" /\ boots < MaxBoots
  /\ boots' = boots + 1 /\ boot' = n
  /\ bpc' = "start" /\ streamer_clk' = NoClock
  /\ UNCHANGED <<Hw, cfg_copy, sched, profile_kind, torn>>

\* enable_realtime_process_mode: the scheduler saves the policy, sets its own,
\* and is moved out; what it was moved from restores nothing.
RealtimeScheduler ==
  /\ bpc = "start"
  /\ sched' = [policy |-> "FIFO", orig |-> {sched.policy}]
  /\ bpc' = "open"
  /\ UNCHANGED <<Hw, cfg_copy, streamer_clk, History>>

\* FPGA::FPGA: check_version, then sync_cfg_from_hardware.
OpenFpga ==
  /\ bpc = "open"
  /\ IF bopt.version_ok
       THEN /\ cfg_copy' = gp_out /\ bpc' = "policy"
            /\ UNCHANGED <<Hw, streamer_clk, sched, History>>
       ELSE Ends(FALSE)

\* apply_fpga_startup_policy: s2f_reset in one go, then dark mode.
Policy ==
  /\ bpc = "policy"
  /\ held_in_reset' = IF resolve_reset_FPGA THEN FALSE ELSE held_in_reset
  /\ pio_cfg' = IF resolve_reset_FPGA THEN [oe |-> FALSE, active |-> 0, live |-> 0] ELSE pio_cfg
  /\ cfg_copy' = IF resolve_dark_mode THEN [cfg_copy EXCEPT !.dark = {"LED", "STATUS"}] ELSE cfg_copy
  /\ gp_out' = IF resolve_dark_mode THEN cfg_copy' ELSE gp_out
  /\ bpc' = "clock"
  /\ UNCHANGED <<preg, pll, ext_clk, streamer_clk, sched, History>>

\* set_clk: hold, select, release; a good selector is left alone.
KeepClock ==
  /\ bpc = "clock" /\ resolve_clock_selection = "keep"
  /\ gp_out.sel \in {ch_ext, ch_int}
  /\ cfg_copy' = gp_out /\ bpc' = "core"
  /\ UNCHANGED <<Hw, streamer_clk, sched, History>>
HoldReset ==
  /\ bpc = "clock"
  /\ resolve_clock_selection = "keep" => gp_out.sel \notin {ch_ext, ch_int}
  /\ IF resolve_clock_selection = "raw_select" /\ bopt.clk > 3
       THEN Ends(FALSE)
       ELSE /\ held_in_reset' = TRUE /\ bpc' = "select"
            /\ pio_cfg' = [oe |-> FALSE, active |-> 0, live |-> 0]
            /\ UNCHANGED <<gp_out, cfg_copy, preg, pll, ext_clk, streamer_clk, sched, History>>
SelClk ==
  LET sel == CASE resolve_clock_selection = "external" -> ch_ext
               [] resolve_clock_selection = "raw_select" -> bopt.clk
               [] OTHER -> ch_int
  IN  /\ bpc = "select"
      /\ cfg_copy' = [cfg_copy EXCEPT !.sel = sel] /\ gp_out' = cfg_copy'
      /\ bpc' = "release"
      /\ UNCHANGED <<held_in_reset, preg, pll, ext_clk, pio_cfg, streamer_clk, sched, History>>
ReleaseReset ==
  /\ bpc = "release"
  /\ held_in_reset' = FALSE /\ bpc' = "core"
  /\ UNCHANGED <<gp_out, cfg_copy, preg, pll, ext_clk, pio_cfg, streamer_clk, sched, History>>

\* set_core_clk and set_int_clk: N, M and C, each checked before its write, then
\* start; then, if asked, the charge pump and the bandwidth, each with a start.
Profile(w) == IF w = "core" THEN bopt.core ELSE bopt.int
Pump(w) == IF w = "core" THEN "core_pump" ELSE "int_pump"
After(w) == IF w = "core" THEN "int" ELSE "meter"
InRange(v) == v >= 1 /\ v <= 510
WriteCountersOf(w) ==
  LET t == resolve_profile(Profile(w))
  IN  /\ bpc = w /\ Profile(w).kind # "none"
      /\ \/ t = <<>> /\ Ends(FALSE)
         \/ \E k \in 0..3 :              \* k counters get written
              /\ t # <<>> /\ \A j \in 1..k : InRange(t[j])
              /\ preg' = [preg EXCEPT ![w] = [j \in 1..3 |-> IF j <= k THEN encode(t[j]) ELSE @[j]]]
              /\ profile_kind' = [profile_kind EXCEPT ![w] = Profile(w).kind]
              /\ IF k = 3
                   THEN /\ pll' = [pll EXCEPT ![w] = preg'[w]]
                        /\ bpc' = Pump(w) /\ UNCHANGED <<torn, sched>>
                   ELSE \* a counter out of range, or a kill
                        /\ bpc' = "none" /\ torn' = TRUE
                        /\ sched' = [policy |-> "OTHER", orig |-> {}]
                        /\ UNCHANGED pll
              /\ UNCHANGED <<gp_out, cfg_copy, held_in_reset, ext_clk, pio_cfg, streamer_clk, boot, boots>>
KeepCountersOf(w) ==
  /\ bpc = w /\ Profile(w).kind = "none"
  /\ bpc' = Pump(w)
  /\ UNCHANGED <<Hw, cfg_copy, streamer_clk, sched, History>>
set_charge_pump(w) ==
  /\ bpc = Pump(w)
  /\ pll' = IF bopt.pump THEN [pll EXCEPT ![w] = preg[w]] ELSE pll
  /\ bpc' = After(w)
  /\ UNCHANGED <<gp_out, held_in_reset, preg, ext_clk, pio_cfg, cfg_copy, streamer_clk, sched, History>>

\* pp_freq_meter: a new gate, one gate's wait, and the reading.
\* Mutant: a reading of zero is only warned about.
MutZeroAccepted ==
  /\ bpc = "meter"
  /\ streamer_clk' = ActualClock /\ bpc' = "up"
  /\ UNCHANGED <<Hw, cfg_copy, sched, History>>
refresh_streamer_clk ==
  /\ bpc = "meter"
  /\ IF ActualClock = NoClock
       THEN Ends(FALSE)
       ELSE /\ streamer_clk' = ActualClock /\ bpc' = "up"
            /\ UNCHANGED <<Hw, cfg_copy, sched, History>>

\* The streamer's constructor, which a mask out of range keeps from running: no
\* streamer active, outputs on, reset, active.
StreamerOff ==
  /\ bpc = "up"
  /\ IF resolve_done_masks = <<>>
       THEN Ends(FALSE)
       ELSE /\ pio_cfg' = [oe |-> TRUE, active |-> 0, live |-> 0]
            /\ bpc' = "reset"
            /\ UNCHANGED <<gp_out, held_in_reset, preg, pll, ext_clk, cfg_copy, streamer_clk, sched, History>>
StreamerOn ==
  /\ bpc = "reset"
  /\ pio_cfg' = [pio_cfg EXCEPT !.active = resolve_done_masks[1],
                                !.live = resolve_done_masks[2]]
  /\ bpc' = "streaming"
  /\ UNCHANGED <<gp_out, held_in_reset, preg, pll, ext_clk, cfg_copy, streamer_clk, sched, History>>

EndBoot == bpc \in {"up", "streaming"} /\ Ends(FALSE)
KillBoot == bpc # "none" /\ Ends(FALSE)

BootNext ==
  \/ \E n \in 1..NBootOptions : StartBoot(n)
  \/ RealtimeScheduler \/ OpenFpga \/ Policy
  \/ KeepClock \/ HoldReset \/ SelClk \/ ReleaseReset
  \/ \E w \in Which : WriteCountersOf(w) \/ KeepCountersOf(w) \/ set_charge_pump(w)
  \/ refresh_streamer_clk \/ StreamerOff \/ StreamerOn
  \/ EndBoot \/ KillBoot
-----------------------------------------------------------------------------
(***************************************************************************)
(* Properties.                                                             *)
(***************************************************************************)
\* A process that is up runs in realtime and knows the clock its streamer
\* really has, which runs, with the FPGA out of reset: whatever a process killed
\* during a clock change left, and whatever was selected.
BoardReady ==
  bpc \in {"up", "reset", "streaming"} =>
    /\ ~held_in_reset /\ sched.policy = "FIFO"
    /\ streamer_clk = ActualClock /\ streamer_clk # NoClock
    /\ gp_out = cfg_copy
    /\ bpc = "streaming" => pio_cfg.oe /\ pio_cfg.active = resolve_done_masks[1]

\* A PLL set from a frequency runs within the limits of the device, with the
\* counters that were calculated, unless an update was cut short.
CountersOf(w) == [k \in 1..3 |-> convert(pll[w][k])]
PllLegal ==
  ~torn => \A w \in Which : profile_kind[w] = "frequency" => is_strict(CountersOf(w))

\* Together: what a program may rely on once it is up.
UpMeansReady == BoardReady /\ PllLegal
=============================================================================
