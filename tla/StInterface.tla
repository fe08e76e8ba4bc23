---------------------------- MODULE StInterface ----------------------------
(***************************************************************************)
(* The Avalon wrapper of a streamer, ip/streamer/st_interface.sv: the      *)
(* register file in clk, the crossing that commits the static              *)
(* configuration in streamer_clk only while the streamer is idle or reset, *)
(* the handshake that reloads the decoder after a new initial value, and   *)
(* the synchronizers of the run-time controls.                             *)
(*                                                                         *)
(* The two cdc_bus_update crossings appear as the channels LatestValue     *)
(* describes, which CdcBusUpdate implements: the updates not delivered yet *)
(* are a sequence, and a delivery takes the latest of some of them.        *)
(*                                                                         *)
(* The software side keeps the order of the host programs: INIT_VAL is     *)
(* written before the first element is sent or during a reset, and the     *)
(* trigger is enabled or forced when everything has been sent.             *)
(***************************************************************************)
EXTENDS Streamer

CONSTANTS
  CtrlWords,       \* what software may write to IF_CTRL (without the reset)
  OverrideWords,   \* what it may write to QOUT_OVERRIDE
  GatingWords,     \* what it may write to GATING_W
  MaxReloads,      \* bound: INIT_VAL writes
  MaxUpdates       \* bound: configuration updates on their way

ASSUME InterfaceAssumption ==
  /\ CtrlWords \subseteq [stop_on_buffer_error : BOOLEAN,
                          qout_select : BOOLEAN, trigger_reset : BOOLEAN,
                          trigger_enable : BOOLEAN, trigger_force : BOOLEAN,
                          stop : BOOLEAN]
  /\ OverrideWords \subseteq Word
  /\ GatingWords \subseteq [gate_mask : SUBSET TriggerInputs,
                            gate_in_en : BOOLEAN, gating : BOOLEAN]
  /\ {} \in InitialValues
  /\ MaxReloads \in Nat /\ MaxUpdates \in Nat

VARIABLES
  ctrl, qout_override, gate,          \* registers; reset_streamer is "reset"
  static_cfg_update,
  initial_reload_seq_clk, initial_reload_pending,
  cfg_channel,                        \* updates not yet committed
  static_cfg_streamer, static_cfg_commit_streamer,
  ack_seq_streamer, ack_update,
  ack_channel,                        \* acknowledgements not yet arrived
  ack_seq_clk, ack_valid_clk,
  idle_sync,                          \* cdc_bit_sync of streamer_idle
  ctrl_sync                           \* cdc_bit_sync of the control bits

regVars == <<ctrl, qout_override, gate>>
wrapClkVars == <<static_cfg_update, initial_reload_seq_clk,
                 initial_reload_pending, ack_seq_clk, ack_valid_clk,
                 idle_sync>>
wrapStreamerVars == <<static_cfg_streamer, static_cfg_commit_streamer,
                      ack_seq_streamer, ack_update, ctrl_sync>>
ifVars == <<vars, regVars, wrapClkVars, wrapStreamerVars, cfg_channel,
            ack_channel>>

CtrlCleared == [stop_on_buffer_error |-> FALSE, qout_select |-> FALSE,
                trigger_reset |-> FALSE, trigger_enable |-> FALSE,
                trigger_force |-> FALSE, stop |-> FALSE]

\* The bundle that crosses to streamer_clk.
static_cfg_clk ==
  [seq |-> initial_reload_seq_clk,
   stop_on_buffer_error |-> ctrl.stop_on_buffer_error, gate |-> gate,
   initial_value |-> initial_value, qout_override |-> qout_override,
   qout_select |-> ctrl.qout_select]

\* The control bits that cross one by one.
RunBits(c) == [enable |-> c.trigger_enable, force |-> c.trigger_force,
               reset |-> c.trigger_reset, stop |-> c.stop]
NoBits == RunBits(CtrlCleared)

IfInit ==
  /\ Init
  /\ initial_value = {}
  /\ ctrl = CtrlCleared
  /\ qout_override = {}
  /\ gate = [gate_mask |-> {}, gate_in_en |-> FALSE, gating |-> FALSE]
  /\ static_cfg_update = FALSE
  /\ initial_reload_seq_clk = 0
  /\ initial_reload_pending = FALSE
  /\ cfg_channel = <<>>
  /\ static_cfg_streamer = static_cfg_clk
  /\ static_cfg_commit_streamer = FALSE
  /\ ack_seq_streamer = 0
  /\ ack_update = FALSE
  /\ ack_channel = <<>>
  /\ ack_seq_clk = 0
  /\ ack_valid_clk = FALSE
  /\ idle_sync = <<TRUE, TRUE, TRUE>>
  /\ ctrl_sync = <<NoBits, NoBits, NoBits>>
-----------------------------------------------------------------------------
(***************************************************************************)
(* The clk domain.                                                         *)
(***************************************************************************)
streamer_idle == ~armed /\ ~stream_active
streamer_idle_clk == idle_sync[3]

initial_reload == ack_valid_clk /\ ack_seq_clk = initial_reload_seq_clk

block_input_for_initial_reload == initial_reload_pending /\ streamer_idle_clk

\* The first n updates of a channel are delivered: the last of them shows.
Delivered(channel, n, shown) == IF n = 0 THEN shown ELSE channel[n]
Remaining(channel, n) == SubSeq(channel, n + 1, Len(channel))

\* Is a reload still outstanding after an edge with this register write?
\* Mutant: the arrival of an older reload clears a request made meanwhile.
MutReloadWins(write) ==
  (initial_reload_pending \/ write = "INIT_VAL") /\ ~initial_reload
reload_outstanding(write) ==
  write = "INIT_VAL" \/ (initial_reload_pending /\ ~initial_reload)

\* The wrapper's part of a posedge of clk at which the register "write" (or
\* "NONE") is written and n acknowledgements arrive.
WrapperClkEdge(write, n) ==
  /\ static_cfg_update' = (write # "NONE")
  /\ cfg_channel' = IF static_cfg_update
                      THEN Append(cfg_channel, static_cfg_clk)
                      ELSE cfg_channel
  /\ initial_reload_pending' = reload_outstanding(write)
  /\ initial_reload_seq_clk' = IF write = "INIT_VAL"
                                 THEN initial_reload_seq_clk + 1
                                 ELSE initial_reload_seq_clk
  /\ n \in 0 .. Len(ack_channel)
  /\ ack_seq_clk' = Delivered(ack_channel, n, ack_seq_clk)
  /\ ack_valid_clk' = (n > 0)
  /\ ack_channel' = Remaining(ack_channel, n)
  /\ idle_sync' = <<streamer_idle, idle_sync[1], idle_sync[2]>>

\* An access of software takes many clk cycles: when it turns to a streamer
\* it has not sent anything to yet, the idle flag has been synchronized.
IdleSeen == idle_sync = <<TRUE, TRUE, TRUE>> /\ streamer_idle

\* A posedge of clk for wrapper and streamer, reset_streamer unchanged.
IfClkEdge(valid, write, n) ==
  /\ valid => Offering /\ (pc = 1 => IdleSeen)
  /\ LET accepted == valid /\ ~block_input_for_initial_reload
     IN  /\ ClkEdge(reset, accepted, IF Offering THEN prog[pc] ELSE Blank,
                    initial_reload, initial_value)
         /\ pc' = IF accepted /\ ~full THEN pc + 1 ELSE pc
  /\ WrapperClkEdge(write, n)
  /\ UNCHANGED <<reset, prog, streamerClkVars, wrapStreamerVars>>

IfClkTick(valid, n) ==
  /\ IfClkEdge(valid, "NONE", n)
  /\ UNCHANGED <<initial_value, regVars>>

\* Everything has been sent and has reached the trigger chain.
Loaded == settled /\ pc > Len(prog) /\ StagesArrived

RoomForUpdate == Len(cfg_channel) < MaxUpdates

WriteIfCtrl(c, valid, n) ==
  /\ RoomForUpdate /\ c # ctrl
  /\ c.trigger_enable \/ c.trigger_force => Loaded
  /\ IfClkEdge(valid, "IF_CTRL", n)
  /\ ctrl' = c
  /\ UNCHANGED <<initial_value, qout_override, gate>>

WriteInitVal(v, n) ==
  /\ RoomForUpdate /\ initial_reload_seq_clk < MaxReloads
  /\ reset \/ (settled /\ pc = 1 /\ IdleSeen)
  /\ IfClkEdge(FALSE, "INIT_VAL", n)
  /\ initial_value' = v
  /\ UNCHANGED regVars

WriteQoutOverride(v, valid, n) ==
  /\ RoomForUpdate /\ v # qout_override
  /\ IfClkEdge(valid, "QOUT_OVERRIDE", n)
  /\ qout_override' = v
  /\ UNCHANGED <<initial_value, ctrl, gate>>

WriteGating(g, valid, n) ==
  /\ RoomForUpdate /\ g # gate
  /\ IfClkEdge(valid, "GATING_W", n)
  /\ gate' = g
  /\ UNCHANGED <<initial_value, ctrl, qout_override>>

\* IF_CTRL is written with reset_streamer set, and the asynchronous clear
\* acts; the edge of the write itself is an IfClkTick.
StartReset ==
  /\ RoomForUpdate /\ ~static_cfg_update
  /\ AssertReset
  /\ static_cfg_update' = TRUE
  /\ UNCHANGED <<regVars, initial_reload_seq_clk, initial_reload_pending,
                 ack_seq_clk, ack_valid_clk, idle_sync, wrapStreamerVars,
                 cfg_channel, ack_channel>>

\* IF_CTRL is written with reset_streamer cleared.
EndReset(n) ==
  /\ RoomForUpdate
  /\ ReleaseReset
  /\ WrapperClkEdge("IF_CTRL", n)
  /\ UNCHANGED <<regVars, wrapStreamerVars>>
-----------------------------------------------------------------------------
(***************************************************************************)
(* The streamer_clk domain.                                                *)
(***************************************************************************)
gate_signal(gate_in, in) ==
  LET g == static_cfg_streamer.gate
  IN  (g.gate_in_en /\ gate_in) \/ g.gate_mask \cap in # {}
gate_enable(gate_in, in) ==
  static_cfg_streamer.gate.gating => gate_signal(gate_in, in)

\* dst_accept of the configuration crossing.
\* Mutant: the configuration is committed as soon as it arrives.
MutCommitsAnyTime == TRUE
accepts_cfg == streamer_rst \/ streamer_idle

\* Mutant: only the reload after the last acknowledged one is acknowledged.
MutNextOnly == /\ static_cfg_commit_streamer
               /\ static_cfg_streamer.seq = ack_seq_streamer + 1
acknowledges == /\ static_cfg_commit_streamer
                /\ static_cfg_streamer.seq # ack_seq_streamer

\* The wrapper's part of a posedge of streamer_clk that commits n updates.
WrapperStreamerEdge(n) ==
  /\ n \in 0 .. (IF accepts_cfg THEN Len(cfg_channel) ELSE 0)
  /\ static_cfg_streamer' = Delivered(cfg_channel, n, static_cfg_streamer)
  /\ static_cfg_commit_streamer' = (n > 0)
  /\ cfg_channel' = Remaining(cfg_channel, n)
  /\ ack_seq_streamer' = IF acknowledges THEN static_cfg_streamer.seq
                                         ELSE ack_seq_streamer
  /\ ack_update' = acknowledges
  /\ ack_channel' = IF ack_update THEN Append(ack_channel, ack_seq_streamer)
                                  ELSE ack_channel
  /\ ctrl_sync' = IF streamer_rst
                    THEN <<NoBits, NoBits, NoBits>>
                    ELSE <<RunBits(ctrl), ctrl_sync[1], ctrl_sync[2]>>

\* A posedge of streamer_clk with the external inputs as synchronized.
IfStreamerTick(gate_in, in, enable_ext, force_ext, reset_ext, n) ==
  LET bits == ctrl_sync[3]
  IN
  /\ StreamerTick(gate_enable(gate_in, in), in, bits.enable \/ enable_ext,
                  bits.force \/ force_ext, bits.reset \/ reset_ext,
                  bits.stop, static_cfg_streamer.stop_on_buffer_error)
  /\ WrapperStreamerEdge(n)
  /\ UNCHANGED <<regVars, wrapClkVars>>

IfStreamerAny ==
  \E gate_in \in GateIn, in \in SUBSET TriggerInputs,
     enable_ext \in EnableIn, force_ext \in ForceIn,
     reset_ext \in TrigResetIn, n \in 0 .. MaxUpdates :
       IfStreamerTick(gate_in, in, enable_ext, force_ext, reset_ext, n)
-----------------------------------------------------------------------------
IfNext ==
  \/ \E valid \in BOOLEAN, n \in 0 .. MaxReloads : IfClkTick(valid, n)
  \/ \E c \in CtrlWords, valid \in BOOLEAN, n \in 0 .. MaxReloads :
       WriteIfCtrl(c, valid, n)
  \/ \E v \in InitialValues, n \in 0 .. MaxReloads : WriteInitVal(v, n)
  \/ \E v \in OverrideWords, valid \in BOOLEAN, n \in 0 .. MaxReloads :
       WriteQoutOverride(v, valid, n)
  \/ \E g \in GatingWords, valid \in BOOLEAN, n \in 0 .. MaxReloads :
       WriteGating(g, valid, n)
  \/ StartReset
  \/ \E n \in 0 .. MaxReloads : EndReset(n)
  \/ IfStreamerAny

IfSpec == IfInit /\ [][IfNext]_ifVars

\* Both clocks run and both crossings deliver.
IfFairSpec ==
  /\ IfSpec
  /\ WF_ifVars(IfClkTick(FALSE, Len(ack_channel)))
  /\ WF_ifVars(\E gate_in \in GateIn, in \in SUBSET TriggerInputs :
                 IfStreamerTick(gate_in, in, FALSE, FALSE, FALSE,
                                IF accepts_cfg THEN Len(cfg_channel) ELSE 0))
-----------------------------------------------------------------------------
\* What the pins show.
qout_streamer == IF trigger_latch THEN qout_fifo
                                  ELSE static_cfg_streamer.initial_value
qout_pins == IF static_cfg_streamer.qout_select
               THEN static_cfg_streamer.qout_override ELSE qout_streamer

\* A first word has been read and the terminator has not, outside a reset.
Playing == stream_started /\ ~terminal_seen /\ ~streamer_rst

\* docs/docs/streamer.md: writes made during active playback "take effect on
\* the next idle/reset window", so from the first word to the terminator the
\* configuration stands still, across retriggers, gates and stops.
ConfigFixedDuringPlayback ==
  [][Playing => static_cfg_streamer' = static_cfg_streamer]_ifVars

\* During playback the pins change only when a word is played.
PinsChangeOnlyByPlaying ==
  [][Playing /\ played' = played => qout_pins' = qout_pins]_ifVars

\* When no reload is outstanding, the value committed in streamer_clk is the
\* one software wrote last.
LatestCommitted ==
  ~initial_reload_pending => static_cfg_streamer.initial_value = initial_value

\* The handshake is about the latest INIT_VAL, so that is what idles on the
\* pins.  And the reload of the decoder throws away no element that was sent
\* after the write.
ReloadAgrees == LatestCommitted /\ PlayedAsProgrammed

\* A reload is never outstanding for ever, so its blocking of the input ends.
ReloadCompletes == initial_reload_pending ~> ~initial_reload_pending
=============================================================================
