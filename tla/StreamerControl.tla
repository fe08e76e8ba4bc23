-------------------------- MODULE StreamerControl --------------------------
(***************************************************************************)
(* The host's view of one streamer: the control word and the status of     *)
(* c++/streamer_control.hh, the read-back of c++/readback.hh, and, as far  *)
(* as the host can tell, the streamer behind them.                         *)
(*                                                                         *)
(* The program keeps a copy of the control word, which every operation     *)
(* changes and writes; a new program starts with an empty copy while the   *)
(* register keeps its value.  The streamer works element by element:       *)
(* its details are those of Streamer and RlEncoder.                        *)
(***************************************************************************)
EXTENDS SequenceOps

CONSTANTS
  TRANSPORT_SIZE,   \* elements between the host and the decoder
  OUTPUT_SIZE,      \* elements the output FIFO holds
  READBACK_SIZE     \* runs the read-back FIFO holds

ASSUME SizeAssumption ==
  /\ TRANSPORT_SIZE \in Nat \ {0} /\ OUTPUT_SIZE \in Nat \ {0}
  /\ READBACK_SIZE \in Nat \ {0}

VARIABLES
  control, control_initial_value,   \* the program's copies
  if_ctrl,                          \* the register
  start_value,                    \* the register
  st,                               \* the streamer
  rb,                               \* the read-back encoder and its FIFO
  played                            \* samples since the last reset (history)

hwVars == <<st, rb, played>>
ctrlVars == <<control, control_initial_value, if_ctrl, start_value>>

HwReset(value) ==
  [fifo |-> <<>>, ready |-> <<>>, chain |-> FALSE, triggered |-> FALSE,
   started |-> FALSE, qout |-> value, ctr_in |-> 0, ctr_out |-> 0,
   terminal |-> FALSE, done |-> FALSE, buffer_error |-> FALSE]
RbReset(run) == [open |-> run, fifo |-> <<>>, lost |-> FALSE]

StreamerInit(value) ==
  /\ control = {} /\ control_initial_value = {} /\ if_ctrl = {}
  /\ start_value = value
  /\ st = HwReset(value) /\ rb = RbReset(None) /\ played = <<>>
-----------------------------------------------------------------------------
(***************************************************************************)
(* The control word.  Write(c) is the value of control and of the register *)
(* after an operation.                                                     *)
(***************************************************************************)
Write(c) == control' = c /\ if_ctrl' = c

Set(bit, on) == IF on THEN control \cup {bit} ELSE control \ {bit}
trigger_enable == Write(Set("TRIGGER_ENABLE_INT", TRUE))
trigger_force == Write(Set("TRIGGER_FORCE_INT", TRUE))
qout_select(s) == Write(Set("QOUT_SELECT", s))

\* reset_streamer_with_wait, from its first write to its last: the streamer is
\* cleared, and while the wait lasts the transport runs dry into it.
reset_streamer(base) ==
  /\ Write(base \ {"RESET"})
  /\ st' = HwReset(start_value)
  /\ played' = <<>>

\* The status word.
status ==
  {b \in {"BUFFER_ERROR"} : st.buffer_error} \cup {b \in {"DONE"} : st.done}
    \cup {b \in {"TRIGGERED"} : st.triggered} \cup {b \in {"ARMED"} : st.chain}
buffer_error == "BUFFER_ERROR" \in status
done == "DONE" \in status

\* Every FIFO passed on what it took in: the counters of statistics().
InputCountersAgree == st.fifo = <<>>
OutputCountersAgree == st.ctr_in = st.ctr_out
-----------------------------------------------------------------------------
(***************************************************************************)
(* The streamer.                                                           *)
(***************************************************************************)
trigger_activated ==
  /\ st.triggered /\ ~st.terminal
  /\ "STOP" \notin if_ctrl
  /\ ~("STOP_ON_BUFFER_ERROR" \in if_ctrl /\ st.buffer_error)

\* One element from the transport: trigger conditions go to the chain,
\* elements of length zero nowhere, the rest to the output FIFO.
Decode ==
  /\ st.fifo # <<>> /\ Len(st.ready) < OUTPUT_SIZE
  /\ LET e == Head(st.fifo)
         kept == ~is_trigger(e) /\ e.cnt # 0
     IN  st' = [st EXCEPT !.fifo = Tail(@),
                          !.chain = @ \/ is_trigger(e),
                          !.ready = IF kept THEN Append(@, e) ELSE @,
                          !.ctr_in = IF kept THEN @ + 1 ELSE @]
  /\ UNCHANGED <<ctrlVars, rb, played>>

\* The trigger condition is met while the trigger is enabled, or it is forced.
Triggers ==
  /\ ~st.triggered
  /\ \/ "TRIGGER_ENABLE_INT" \in if_ctrl /\ st.chain
     \/ "TRIGGER_FORCE_INT" \in if_ctrl
  /\ st' = [st EXCEPT !.triggered = TRUE]
  /\ UNCHANGED <<ctrlVars, rb, played>>

\* The read-back: the open run goes to its FIFO, or is lost.
Flushed(r) ==
  IF r.open = None THEN r
  ELSE IF Len(r.fifo) = READBACK_SIZE THEN [r EXCEPT !.open = None, !.lost = TRUE]
  ELSE [r EXCEPT !.open = None, !.fifo = Append(@, r.open)]
Sampled(r, count, value) ==
  IF r.open # None /\ r.open.val = value
    THEN [r EXCEPT !.open.cnt = @ + count]
    ELSE [Flushed(r) EXCEPT !.open = Regular(count, "LOAD", value)]

PlayElement ==
  /\ trigger_activated /\ st.ready # <<>>
  /\ LET e == Head(st.ready)
         v == updated_value(e, st.qout)
         next == [st EXCEPT !.ready = Tail(@), !.started = TRUE, !.qout = v,
                            !.ctr_out = @ + 1]
     IN  IF is_final(e)
           THEN /\ st' = [next EXCEPT !.terminal = TRUE, !.done = ~st.buffer_error]
                /\ rb' = Flushed(rb)
                /\ UNCHANGED played
           ELSE /\ st' = next
                /\ rb' = Sampled(rb, e.cnt, v)
                /\ played' = played \o [k \in 1 .. e.cnt |-> v]
  /\ UNCHANGED ctrlVars

Underrun ==
  /\ trigger_activated /\ st.started /\ st.ready = <<>> /\ ~st.buffer_error
  /\ st' = [st EXCEPT !.buffer_error = TRUE]
  /\ rb' = Flushed(rb)
  /\ UNCHANGED <<ctrlVars, played>>

StreamerNext == Decode \/ Triggers \/ PlayElement \/ Underrun
=============================================================================
