---------------------------- MODULE ChainTrigger ----------------------------
(***************************************************************************)
(* The trigger chain of ip/streamer/chain_trigger.sv with its comparator   *)
(* and_trigger.sv.  Trigger elements are queued in a dcfifo on clk; the    *)
(* state machine on streamer_clk loads one stage after the other, waits    *)
(* for each to match, and holds its output once the last one has.          *)
(***************************************************************************)
EXTENDS Elements, DcFifo

CONSTANT LENGTH_TRIG   \* 2**P_FIFO_TRIGGER

ASSUME TrigAssumption == LENGTH_TRIG \in Nat \ {0}

VARIABLES
  trig_fifo,           \* the dcfifo of stages
  stage,               \* q_pattern, q_mask, q_control: the stage last popped
  one,                 \* and_trigger's latched match
  tstate,              \* state
  active_stage_valid

trigReadVars == <<stage, one, tstate, active_stage_valid>>
chainVars == <<trig_fifo, trigReadVars>>

Stage == [pattern : SUBSET TriggerInputs, mask : SUBSET TriggerInputs,
          final : BOOLEAN]
NoStage == [pattern |-> {}, mask |-> {}, final |-> FALSE]

\* The stage a trigger element carries.
StageOf(e) == [pattern |-> PatternOf(e.val), mask |-> MaskOf(e.val),
               final |-> Is(e, "TRIGGER_FINAL")]

ChainInit ==
  /\ trig_fifo = DcCleared
  /\ stage = NoStage
  /\ one = FALSE
  /\ tstate = "IDLE"
  /\ active_stage_valid = FALSE
-----------------------------------------------------------------------------
\* One posedge of wrclk, with a write request wr for the stage s.
TrigWriteTick(rst, wr, s) ==
  trig_fifo' \in IF rst THEN {DcCleared}
                        ELSE DcWrite(trig_fifo, LENGTH_TRIG, wr, s)

trigger_fifo_full == wrfull(trig_fifo, LENGTH_TRIG)
fifo_empty == rdempty(trig_fifo)
trigger_o == tstate = "TRIGGERED"
armed == tstate = "WAIT"

\* and_trigger: every input the mask selects has the pattern's level.
matches(in) == in \cap stage.mask = stage.pattern \cap stage.mask

trig_rdreq(rst, retrig) == tstate = "LOAD" /\ ~rst /\ ~retrig

\* Is the active stage kept?
keeps_stage(rst, retrig) == ~rst /\ ~retrig

\* The stage that matched was the last one.  Mutant: the final flag of a
\* stage is ignored.
MutFinalIgnored == fifo_empty
subsequence_done == stage.final \/ fifo_empty

\* The state machine outside resets and retriggers.
Successor ==
  CASE tstate = "IDLE" -> IF active_stage_valid THEN "WAIT"
                          ELSE IF fifo_empty THEN "IDLE" ELSE "LOAD"
    [] tstate = "LOAD" -> "WAIT"
    [] tstate = "WAIT" -> IF ~one THEN "WAIT"
                          ELSE IF subsequence_done THEN "TRIGGERED"
                          ELSE "LOAD"
    [] tstate = "TRIGGERED" -> "TRIGGERED"

\* One posedge of the chain's clk.
TrigReadTick(rst, in, enable, force, trig_reset, retrig) ==
  /\ trig_fifo' \in DcRead(trig_fifo, trig_rdreq(rst, retrig))
  /\ stage' = IF trig_rdreq(rst, retrig) /\ ~fifo_empty
                THEN Head(trig_fifo.q) ELSE stage
  /\ one' = (/\ ~rst /\ ~trig_reset /\ tstate \in {"WAIT", "TRIGGERED"}
             /\ one \/ (enable /\ matches(in)))
  /\ active_stage_valid' = (/\ keeps_stage(rst, retrig)
                            /\ active_stage_valid \/ tstate = "LOAD")
  /\ tstate' = IF rst \/ retrig \/ trig_reset THEN "IDLE"
               ELSE IF force THEN "TRIGGERED"
               ELSE Successor

ChainTypeOK ==
  /\ DcTypeOK(trig_fifo, Stage, LENGTH_TRIG)
  /\ stage \in Stage
  /\ one \in BOOLEAN
  /\ tstate \in {"IDLE", "LOAD", "WAIT", "TRIGGERED"}
  /\ active_stage_valid \in BOOLEAN
=============================================================================
