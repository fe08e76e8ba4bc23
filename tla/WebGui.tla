------------------------------- MODULE WebGui -------------------------------
(***************************************************************************)
(* The web interface: routes and request parsing (c++/ppwebgui_http.cc),   *)
(* the controller that owns the hardware (ppwebgui_service.cc, _types.hh)  *)
(* and its configuration (ppwebgui_config.cc, _app.cc, _main.cc).          *)
(*                                                                         *)
(* The server handles requests in a pool of threads.  A handler parses its *)
(* request without the lock, does its work under FPGA::acquire_lock in one *)
(* go, and takes the lock again for the status it answers with or for the  *)
(* error it leaves.  In between, other handlers run.                       *)
(*                                                                         *)
(* The bus fabric's reset, which changing the clock source implies, clears *)
(* both combiners and pio_cfg (output enable and the masks of              *)
(* streamer_done).                                                         *)
(***************************************************************************)
EXTENDS Integers

CONSTANTS
  Profiles,         \* texts of a clock profile
  WebRequests(_),   \* requests, by number
  NWebRequests,
  WebConfigs(_),    \* command lines: clock, profiles, trigger, combiner
  NWebConfigs,
  Handlers,         \* threads of the server
  MaxRequests       \* bound: requests in all

CombModes ==
  {"SEL1", "SEL2", "SEL3", "SEL4", "AND", "OR", "XOR", "XNOR", "MAJ", "BLOCK8",
   "BLOCK16", "SUM12", "SUM1234", "DIFF12"}
Routes == {"status", "qout", "clocking", "measure", "trigger", "combiner", "reset", "stream"}
ClockConfig == [source : {"keep", "int", "ext"}, core : Profiles, internal : Profiles]
TriggerConfig == [mode : {"INT", "EXT", "MISC", "OR", "AND"}, lines : Nat, aux : Nat]
CombConfig == [mode : CombModes, force : BOOLEAN, value : Nat]

\* Every request takes one of the routes, and its profiles are texts.
ASSUME WebAssumption ==
  /\ NWebRequests \in Nat /\ NWebConfigs \in Nat /\ "100M" \in Profiles
  /\ \A n \in 1..NWebRequests :
       /\ WebRequests(n).kind \in Routes
       /\ WebRequests(n).kind = "clocking"
            => WebRequests(n).core \in Profiles /\ WebRequests(n).internal \in Profiles
  /\ \A n \in 1..NWebConfigs :
       WebConfigs(n) \in [clock : ClockConfig, trigger : TriggerConfig, comb : CombConfig]

VARIABLES
  hw,        \* the FPGA: selector, PLL profiles, pio_cfg, combiners, streamer
  ext_runs,  \* there is an external clock
  snapshot,  \* the controller's StatusSnapshot and its copies
  handler,   \* what each thread is doing
  degraded,  \* history: the last restore failed
  synced,    \* history: this process wrote the trigger combiner
  lastRun,   \* history: what the last stream met
  requests   \* received so far

webVars == <<hw, ext_runs, snapshot, handler, degraded, synced, lastRun, requests>>
webHistory == <<degraded, synced, lastRun>>

sel_ext == 2
sel_int == 3
initial_value == 0
PassThrough == [mode |-> "SEL1", force |-> FALSE, value |-> 0]
TriggerAtReset == [mode |-> "INT", lines |-> 0, aux |-> 0]
NoOverride == [enabled |-> FALSE, value |-> 0]
IdleHandler == [at |-> "idle", req |-> 1]

\* s2f_hold_reset and s2f_release_reset.
FabricReset(h) ==
  [h EXCEPT !.oe = FALSE, !.done_mask = 0, !.comb = PassThrough,
            !.trig = TriggerAtReset, !.qout = initial_value, !.done = FALSE]

StreamerClockRuns(h) == (h.sel = sel_ext /\ ext_runs) \/ h.sel = sel_int
-----------------------------------------------------------------------------
(***************************************************************************)
(* Steps of the controller.  Each takes and gives [ok, hw, snap] and the   *)
(* history; ok tells that no exception is under way.                       *)
(***************************************************************************)
Fails(s) == [s EXCEPT !.ok = FALSE]

\* FPGA::set_clk: without a request, a usable selector is left alone.
set_clk(s, source) ==
  CASE source = "keep" /\ s.hw.sel \in {sel_ext, sel_int} -> s
    [] source = "ext" -> [s EXCEPT !.hw = [FabricReset(s.hw) EXCEPT !.sel = sel_ext]]
    [] OTHER -> [s EXCEPT !.hw = [FabricReset(s.hw) EXCEPT !.sel = sel_int]]

\* set_core_clk and set_int_clk: "" programs nothing; a raw triple with a
\* counter out of range throws before the PLL is started.
set_pll(s, which, profile) ==
  CASE ~s.ok \/ profile = "" -> s
    [] s.ok /\ profile = "out_of_range" -> Fails(s)
    [] OTHER -> [s EXCEPT !.hw = IF which = "core" THEN [@ EXCEPT !.core = profile]
                                                   ELSE [@ EXCEPT !.internal = profile]]

\* validate_requested_clock_config_state, validate_clock_config_state.
ValidProfile(p) == p # "nonsense"

\* pp_freq_meter refuses a streamer clock that does not run.
measure_clocks_locked(s) ==
  CASE ~s.ok -> s
    [] s.ok /\ ~StreamerClockRuns(s.hw) -> Fails(s)
    [] OTHER -> [s EXCEPT !.snap.measured = s.hw.sel]

apply_clock_config_locked(s, state) ==
  LET clocked == set_pll(set_pll(set_clk(s, state.source), "core", state.core),
                         "int", state.internal)
  IN  IF ~ValidProfile(state.core) \/ ~ValidProfile(state.internal) THEN Fails(s)
      ELSE IF ~clocked.ok THEN clocked
      ELSE measure_clocks_locked([clocked EXCEPT !.snap.tracked = state])

\* The combiner gets the base configuration, its output forced by the override.
Effective(base, override) ==
  IF override.enabled THEN [base EXCEPT !.force = TRUE, !.value = override.value] ELSE base
apply_combiner_config_locked(s, request) ==
  [s EXCEPT !.hw.comb = Effective(request, s.snap.override), !.snap.base = request]
apply_trigger_config_locked(s, state) ==
  [s EXCEPT !.hw.trig = state, !.snap.trigger = state, !.synced = TRUE]
apply_streamer_override_locked(s, state) ==
  apply_combiner_config_locked(
    [s EXCEPT !.snap.override = state,
              !.snap.qout = IF state.enabled THEN state.value ELSE s.snap.qout_streamer],
    s.snap.base)

\* play_streamer.reset_for_active_clock, readback_path.reset, counters.reset_all.
reset_playback_locked(s) ==
  [s EXCEPT !.hw.oe = TRUE, !.hw.qout = initial_value, !.hw.done = FALSE,
            !.snap.qout_streamer = initial_value]

reset_hardware_locked(s, clocking, trigger, combiner, override) ==
  LET clocked == apply_clock_config_locked(s, clocking)
  IN  IF ~clocked.ok THEN clocked
      ELSE [apply_streamer_override_locked(
              apply_combiner_config_locked(
                apply_trigger_config_locked(reset_playback_locked(clocked), trigger), combiner), override)
            EXCEPT !.degraded = FALSE]

\* Mutant: what was reached before the exception stays.
MutNoRestore(s, failed) == failed
\* restore_known_good_state_locked, and the exception goes on.
restore_known_good_state_locked(s, failed) ==
  LET restored == reset_hardware_locked([failed EXCEPT !.ok = TRUE], s.snap.tracked,
                                        s.snap.trigger, s.snap.base, s.snap.override)
  IN  [restored EXCEPT !.ok = FALSE, !.degraded = ~restored.ok]

Reconfigure(s, clocking) ==
  LET done == reset_hardware_locked(s, clocking, s.snap.trigger, s.snap.base, s.snap.override)
  IN  IF done.ok THEN done ELSE restore_known_good_state_locked(s, done)
-----------------------------------------------------------------------------
(***************************************************************************)
(* Requests.                                                               *)
(***************************************************************************)
Now == [ok |-> TRUE, hw |-> hw, snap |-> snapshot, degraded |-> degraded, synced |-> synced]

publish_action(s, action, error) ==
  [s EXCEPT !.snap.seqno = @ + 1, !.snap.last_action = action, !.snap.last_error = error]
publish_stream_result(s, action, error, rc) ==
  [publish_action(s, action, error) EXCEPT !.snap.stream_rc = rc]

clock_config_from_request(r) == [source |-> r.source, core |-> r.core, internal |-> r.internal]
trigger_config_from_request(r) ==
  [mode |-> CASE r.mode = "ANY" -> "OR" [] r.mode = "ALL" -> "AND" [] OTHER -> r.mode,
   lines |-> r.lines, aux |-> snapshot.trigger.aux]

OutputForced == snapshot.override.enabled \/ snapshot.base.force

\* What the controller's methods do under the lock, the stream apart.
apply_clock_config(r) ==
  IF ValidProfile(r.core) /\ ValidProfile(r.internal)
    THEN Reconfigure(Now, clock_config_from_request(r)) ELSE Fails(Now)
reset_hardware == Reconfigure(Now, snapshot.tracked)
measure_clocks == measure_clocks_locked(Now)
apply_streamer_override(r) ==
  apply_streamer_override_locked(Now, [enabled |-> r.enabled, value |-> r.value])
apply_combiner_config(r) ==
  apply_combiner_config_locked(Now, [mode |-> r.mode, force |-> r.force, value |-> r.value])
apply_trigger_config(r) == apply_trigger_config_locked(Now, trigger_config_from_request(r))

\* The routes.
Operation(r) ==
  CASE r.kind = "status" -> Now
    [] r.kind = "qout" -> apply_streamer_override(r)
    [] r.kind = "clocking" -> apply_clock_config(r)
    [] r.kind = "measure" -> measure_clocks
    [] r.kind = "trigger" -> apply_trigger_config(r)
    [] r.kind = "combiner" -> apply_combiner_config(r)
    [] r.kind = "reset" -> reset_hardware

\* The parameters each route asks for, and what it refuses: no form, a signed
\* number or one too large, a name that is not known, an empty profile, a text
\* that is empty or too long.  The bounds are cut down to MAX_U32 and MAX_TEXT.
MAX_U32 == 3
MAX_TEXT == 2
require_form_post(r) == r.form
parse_u32_literal(v) == v \in 0..MAX_U32
clock_source_from_string(name) == name \in {"int", "ext"}
trigger_mode_from_string(name) == name \in {"INT", "EXT", "MISC", "ANY", "ALL"}
comb_mode_from_string(name) == name \in CombModes
parse_streamer_override_request(r) == r.enabled \in BOOLEAN /\ parse_u32_literal(r.value)
parse_clock_config_request(r) == clock_source_from_string(r.source) /\ r.core # "" /\ r.internal # ""
parse_trigger_config_request(r) == trigger_mode_from_string(r.mode) /\ parse_u32_literal(r.lines)
parse_combiner_request(r) ==
  comb_mode_from_string(r.mode) /\ r.force \in BOOLEAN /\ parse_u32_literal(r.value)
require_bounded_text_param(r) == r.length \in 1..MAX_TEXT
well_formed(r) ==
  /\ r.kind # "status" => require_form_post(r)
  /\ r.kind = "qout" => parse_streamer_override_request(r)
  /\ r.kind = "clocking" => parse_clock_config_request(r)
  /\ r.kind = "trigger" => parse_trigger_config_request(r)
  /\ r.kind = "combiner" => parse_combiner_request(r)
  /\ r.kind = "stream" => require_bounded_text_param(r)

\* A thread takes a request and parses it: require_form_post, the parameters.
Receive(w, n) ==
  /\ handler[w].at = "idle" /\ requests < MaxRequests
  /\ requests' = requests + 1
  /\ handler' = [handler EXCEPT ![w] =
                   [at |-> IF well_formed(WebRequests(n)) THEN "parsed" ELSE "failed", req |-> n]]
  /\ UNCHANGED <<hw, ext_runs, snapshot, webHistory>>

Request(w) == WebRequests(handler[w].req)
Commit(w, r) ==
  /\ hw' = r.hw
  /\ snapshot' = (IF r.ok /\ Request(w).kind # "status"
                    THEN publish_action(r, Request(w).kind, "none") ELSE r).snap
  /\ handler' = [handler EXCEPT ![w].at = IF r.ok THEN "done" ELSE "failed"]
  /\ degraded' = r.degraded /\ synced' = r.synced
Serve(w) ==
  /\ handler[w].at = "parsed" /\ Request(w).kind # "stream"
  /\ Commit(w, Operation(Request(w)))
  /\ UNCHANGED <<ext_runs, lastRun, requests>>

\* stream_text_sequence: a text that does not parse throws, one with a final output
\* of its own and a forced output are refused; otherwise the whole reset, then the
\* playback, which is Workflow's.
prepared == Reconfigure(Now, snapshot.tracked)
stream_result(s, rc) ==
  publish_stream_result(
    [s EXCEPT !.hw.qout = IF rc = "OK" THEN s.snap.qout_streamer ELSE @,
              !.hw.done = rc = "OK" /\ s.hw.done_mask = 1,
              !.snap.qout = IF rc = "OK" /\ ~s.snap.override.enabled
                              THEN s.snap.qout_streamer ELSE @],
    IF rc = "OK" THEN "stream" ELSE "stream failed", IF rc = "OK" THEN "none" ELSE rc, rc)
StreamFails(w) ==
  /\ handler[w].at = "parsed" /\ Request(w).kind = "stream"
  /\ \/ /\ Request(w).text = "garbled"
        /\ handler' = [handler EXCEPT ![w].at = "exception"]
        /\ UNCHANGED <<hw, snapshot, webHistory>>
     \/ /\ Request(w).text = "final" \/ (Request(w).text = "plays" /\ OutputForced)
        /\ handler' = [handler EXCEPT ![w].at = "bad_request"]
        /\ UNCHANGED <<hw, snapshot, webHistory>>
     \/ /\ Request(w).text = "plays" /\ ~OutputForced /\ ~prepared.ok
        /\ hw' = prepared.hw /\ snapshot' = prepared.snap
        /\ degraded' = prepared.degraded /\ synced' = prepared.synced
        /\ handler' = [handler EXCEPT ![w].at = "exception"]
        /\ UNCHANGED lastRun
  /\ UNCHANGED <<ext_runs, requests>>
Stream(w, rc) ==
  /\ handler[w].at = "parsed" /\ Request(w).kind = "stream"
  /\ Request(w).text = "plays" /\ ~OutputForced /\ prepared.ok
  /\ rc = "OK" => StreamerClockRuns(prepared.hw)
  /\ hw' = stream_result(prepared, rc).hw /\ snapshot' = stream_result(prepared, rc).snap
  /\ degraded' = prepared.degraded /\ synced' = prepared.synced
  /\ handler' = [handler EXCEPT ![w].at = "done"]
  /\ lastRun' = [rc |-> rc, forced |-> prepared.hw.comb.force, done |-> hw'.done,
                 final |-> hw'.qout, shown |-> snapshot'.qout]
  /\ UNCHANGED <<ext_runs, requests>>
\* The catch clauses: the lock is gone, and is taken again to publish the failure.
PublishFailure(w) ==
  /\ handler[w].at \in {"bad_request", "exception"}
  /\ snapshot' = publish_stream_result(Now, "stream failed", handler[w].at, handler[w].at).snap
  /\ handler' = [handler EXCEPT ![w].at = "failed"]
  /\ UNCHANGED <<hw, ext_runs, webHistory, requests>>

\* The answer: a copy of the status, or the error (set_last_error).
Answer(w) ==
  /\ handler[w].at \in {"done", "failed"}
  /\ snapshot' = IF handler[w].at = "failed"
                   THEN [snapshot EXCEPT !.last_error = Request(w).kind, !.seqno = @ + 1]
                   ELSE snapshot
  /\ handler' = [handler EXCEPT ![w] = IdleHandler]
  /\ UNCHANGED <<hw, ext_runs, webHistory, requests>>

\* The external clock comes and goes.
PlugExt ==
  /\ ext_runs' = ~ext_runs
  /\ UNCHANGED <<hw, snapshot, handler, webHistory, requests>>
-----------------------------------------------------------------------------
(***************************************************************************)
(* resolve_webgui_runtime_config, the start of the process (Bringup), and  *)
(* the controller's constructor.  The trigger combiner keeps the lines an  *)
(* earlier program left.                                                   *)
(***************************************************************************)
BoardAtStart(config, lines) ==
  [sel |-> IF config.clock.source = "ext" THEN sel_ext ELSE sel_int,
   core |-> "100M", internal |-> "100M", oe |-> TRUE, done_mask |-> 1,
   comb |-> PassThrough, trig |-> [mode |-> config.trigger.mode, lines |-> lines, aux |-> 0],
   qout |-> initial_value, done |-> FALSE]
SnapshotAtStart(config) ==
  [tracked |-> config.clock, measured |-> 0, trigger |-> config.trigger, base |-> config.comb,
   override |-> NoOverride, qout |-> initial_value, qout_streamer |-> initial_value,
   seqno |-> 0, stream_rc |-> "OK", last_action |-> "idle", last_error |-> "none"]
ControllerStarts(config, lines) ==
  LET start == [ok |-> TRUE, hw |-> BoardAtStart(config, lines), snap |-> SnapshotAtStart(config),
                degraded |-> FALSE, synced |-> FALSE]
      up == measure_clocks_locked(
              apply_combiner_config_locked(
                set_pll(set_pll(start, "core", config.clock.core), "int", config.clock.internal),
                config.comb))
  IN  up.ok /\ hw = up.hw /\ snapshot = up.snap
WebInit ==
  /\ ext_runs \in BOOLEAN
  /\ \E n \in 1..NWebConfigs, lines \in {0, 1} : ControllerStarts(WebConfigs(n), lines)
  /\ handler = [w \in Handlers |-> IdleHandler]
  /\ degraded = FALSE /\ synced = FALSE
  /\ lastRun = [rc |-> "none", forced |-> FALSE, done |-> FALSE, final |-> 0, shown |-> 0]
  /\ requests = 0
WebNext ==
  \/ \E w \in Handlers, n \in 1..NWebRequests : Receive(w, n)
  \/ \E w \in Handlers : Serve(w) \/ StreamFails(w) \/ PublishFailure(w) \/ Answer(w)
  \/ \E w \in Handlers, rc \in {"OK", "TIMEOUT", "ERROR_CHECK"} : Stream(w, rc)
  \/ PlugExt
-----------------------------------------------------------------------------
(***************************************************************************)
(* Properties.                                                             *)
(***************************************************************************)
\* What the browser is shown as applied is what the hardware has: the combiner
\* with the override, the trigger combiner once this process has written it, the
\* clock source and the profiles that are managed.  Requests that fail half way
\* and are rolled back included; a failed restore is the one exception, and the
\* next reset that succeeds ends it.
StatusTruthful ==
  ~degraded =>
    /\ hw.comb = Effective(snapshot.base, snapshot.override)
    /\ synced => hw.trig = snapshot.trigger
    /\ hw.oe
    /\ snapshot.tracked.source = "int" => hw.sel = sel_int
    /\ snapshot.tracked.source = "ext" => hw.sel = sel_ext
    /\ snapshot.tracked.core # "" => hw.core = snapshot.tracked.core
    /\ snapshot.tracked.internal # "" => hw.internal = snapshot.tracked.internal

\* A stream that was reported as successful reached the pins, ended with the
\* idle value and is shown so, whatever other handlers changed while the request
\* was parsed or waited for the lock.
StreamReachesPins ==
  lastRun.rc = "OK" => ~lastRun.forced /\ lastRun.final = lastRun.shown

\* Together: what the browser shows is so, and what it was told was played was.
WebTruthful == StatusTruthful /\ StreamReachesPins

\* docs/docs/streamer.md: "Software must set these masks during run setup".  The
\* controller's bring-up path does not: after a change of the clock source has
\* reset pio_cfg, a stream completes and streamer_done stays low.
StreamRaisesDone == lastRun.rc = "OK" => lastRun.done
=============================================================================
