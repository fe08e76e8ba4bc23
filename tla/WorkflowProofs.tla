--------------------------- MODULE WorkflowProofs ---------------------------
(***************************************************************************)
(* What is proved about the programs that stream, for every set of         *)
(* sequences of plain elements, every command line and every FIFO size:    *)
(*   - a run that ends in a time-out leaves the outputs still;             *)
(*   - a run that returns RC_OK has played the sequence and nothing else;  *)
(*   - the checks raise no false alarm: when they report an error there    *)
(*     was an underrun, a loss or a time-out, or the sequence is not one   *)
(*     they can describe.                                                  *)
(* The first needs to know when the streamer can play at all, the second   *)
(* what it is still going to play: the elements in the output FIFO, in the *)
(* transport and not yet sent are the rest of what the sequence means.     *)
(* The third needs that lists of runs with the same samples, no two        *)
(* neighbours of one value, agree run by run up to the end of the shorter: *)
(* what is left of the reference is one list, the read-back the other.     *)
(***************************************************************************)
EXTENDS Workflow, DataInduction
-----------------------------------------------------------------------------
(***************************************************************************)
(* The programs that stream.  The control word tells in which phases the   *)
(* streamer can play: nothing triggers it before the host arms or forces,  *)
(* and a time-out ends in a reset with STOP set, or before the trigger, or *)
(* after the terminator.                                                   *)
(***************************************************************************)
FlowSpec == FlowInit /\ [][FlowNext]_flowVars

Phases == {"transmit", "trigger", "check", "read", "wait", "waited", "post"}
TriggerBits == {"TRIGGER_ENABLE_INT", "TRIGGER_FORCE_INT"}
Disarmed == ~st.triggered /\ if_ctrl \cap TriggerBits = {}

StreamerStates ==
  [fifo : Seq(PlainElement), ready : Seq(PlainElement), chain : BOOLEAN, triggered : BOOLEAN,
   started : BOOLEAN, qout : Word, ctr_in : Nat, ctr_out : Nat, terminal : BOOLEAN,
   done : BOOLEAN, buffer_error : BOOLEAN]

FlowTypes ==
  /\ st \in StreamerStates /\ to_send \in Seq(PlainElement)
  /\ start_value \in Word /\ played \in Seq(Word)
  /\ pc \in {"none", "ready"} \cup Phases
  /\ polls \in Nat /\ polls <= MaxPolls

ControlTold ==
  /\ pc # "none" => control = if_ctrl /\ {"QOUT_SELECT", "STOP"} \cap if_ctrl = {}
  /\ pc \in {"ready", "transmit", "trigger"} => Disarmed

\* What the host concludes from done and from the poll counter.
WaitTold ==
  /\ st.done => st.terminal
  /\ pc = "waited" /\ polls # MaxPolls => st.terminal \/ st.buffer_error
  /\ pc = "post" => st.terminal \/ "BUFFER_ERROR" \in rc

CannotPlay == st.terminal \/ "STOP" \in if_ctrl \/ Disarmed
TimeoutStops ==
  pc = "none" /\ "TIMEOUT" \in rc /\ "BUFFER_ERROR" \notin rc => CannotPlay

\* The terminator is the last element and the only one.
FinalEnds(s) == s # <<>> /\ \A i \in DOMAIN s : is_final(s[i]) <=> i = Len(s)

ControlInv == FlowTypes /\ ControlTold /\ WaitTold /\ TimeoutStops
-----------------------------------------------------------------------------
\* A bit operation makes a word of two words, and the host's table of them is
\* the decoder's.
LEMMA OperationsAgree ==
  ASSUME NEW e \in Element, NEW prev \in Word
  PROVE  updated_value(e, prev) \in Word /\ updated_value(e, prev) = apply_op(prev, e.val, e.mode)
<1>1. e.mode \in BitOps /\ e.val \subseteq Pins /\ prev \subseteq Pins
  BY DEF Element, Word
<1>2. /\ prev \cap (Pins \ e.val) = prev \ e.val
      /\ e.val \cap prev = prev \cap e.val /\ e.val \cup prev = prev \cup e.val
      /\ SymDiff(e.val, prev) = SymDiff(prev, e.val)
  BY <1>1 DEF SymDiff
<1>3. updated_value(e, prev) = apply_op(prev, e.val, e.mode)
  BY <1>1, <1>2 DEF updated_value, apply_value_kind, apply_op, sll, srl, BitOps
<1>4. apply_op(prev, e.val, e.mode) \subseteq Pins
  BY <1>1 DEF apply_op, BitOps, SymDiff
<1> QED
  BY <1>3, <1>4 DEF Word

\* The kinds of a plain element.
LEMMA PlainIs ==
  ASSUME NEW e \in PlainElement
  PROVE  /\ e \in Element /\ e.cnt \in Nat /\ is_trigger(e) \in BOOLEAN /\ is_final(e) \in BOOLEAN
         /\ is_regular(e) \/ is_trigger(e) \/ is_final(e)
         /\ is_final(e) => e.cnt = 1
BY DEF PlainElement, Element, is_trigger, is_final, is_regular, kind

\* A step of the streamer.
LEMMA StreamerKeeps ==
  ASSUME FlowTypes, StreamerNext
  PROVE  /\ st' \in StreamerStates /\ played' \in Seq(Word) /\ UNCHANGED ctrlVars
         /\ st.terminal => st'.terminal
         /\ st.buffer_error => st'.buffer_error
         /\ (st.done => st.terminal) => (st'.done => st'.terminal)
         /\ Disarmed => ~st'.triggered
         /\ CannotPlay => st'.qout = st.qout /\ played' = played
<1>1. st \in StreamerStates /\ played \in Seq(Word)
  BY DEF FlowTypes
<1>2. CASE Decode
  <2>1. st.fifo # <<>> /\ UNCHANGED <<ctrlVars, rb, played>>
    BY <1>2 DEF Decode
  <2> DEFINE e == Head(st.fifo)
             kept == ~is_trigger(e) /\ e.cnt # 0
  <2>2. e \in PlainElement /\ Tail(st.fifo) \in Seq(PlainElement) /\ st.fifo \in Seq(PlainElement)
    BY <1>1, <2>1 DEF StreamerStates
  <2>3. is_trigger(e) \in BOOLEAN
    BY <2>2, PlainIs
  <2>4. st' = [st EXCEPT !.fifo = Tail(@), !.chain = @ \/ is_trigger(e),
                         !.ready = IF kept THEN Append(@, e) ELSE @,
                         !.ctr_in = IF kept THEN @ + 1 ELSE @]
    BY <1>2 DEF Decode
  <2> HIDE DEF e, kept
  <2>5. (IF kept THEN Append(st.ready, e) ELSE st.ready) \in Seq(PlainElement)
    BY <1>1, <2>2 DEF StreamerStates
  <2>6. (IF kept THEN st.ctr_in + 1 ELSE st.ctr_in) \in Nat
    BY <1>1 DEF StreamerStates
  <2>7. (st.chain \/ is_trigger(e)) \in BOOLEAN
    OBVIOUS
  <2>8. st' \in StreamerStates
    BY <1>1, <2>2, <2>4, <2>5, <2>6, <2>7 DEF StreamerStates
  <2>9. /\ st'.terminal = st.terminal /\ st'.buffer_error = st.buffer_error /\ st'.done = st.done
        /\ st'.triggered = st.triggered /\ st'.qout = st.qout
    BY <1>1, <2>4 DEF StreamerStates
  <2> QED
    BY <1>1, <2>1, <2>8, <2>9 DEF Disarmed
<1>3. CASE Triggers
  <2>1. /\ st' = [st EXCEPT !.triggered = TRUE] /\ UNCHANGED <<ctrlVars, rb, played>>
        /\ "TRIGGER_ENABLE_INT" \in if_ctrl \/ "TRIGGER_FORCE_INT" \in if_ctrl
    BY <1>3 DEF Triggers
  <2>2. st' \in StreamerStates /\ st'.terminal = st.terminal /\ st'.buffer_error = st.buffer_error
        /\ st'.done = st.done /\ st'.qout = st.qout
    BY <1>1, <2>1 DEF StreamerStates
  <2> QED
    BY <1>1, <2>1, <2>2 DEF Disarmed, TriggerBits
<1>4. CASE PlayElement
  <2> DEFINE e == Head(st.ready)
             v == updated_value(e, st.qout)
             next == [st EXCEPT !.ready = Tail(@), !.started = TRUE, !.qout = v, !.ctr_out = @ + 1]
  <2>1. trigger_activated /\ st.ready # <<>> /\ UNCHANGED ctrlVars
    BY <1>4 DEF PlayElement
  <2>2. e \in PlainElement /\ Tail(st.ready) \in Seq(PlainElement)
    BY <1>1, <2>1 DEF StreamerStates
  <2>3. v \in Word /\ e.cnt \in Nat
    <3>1. e \in Element /\ e.cnt \in Nat /\ st.qout \in Word
      BY <1>1, <2>2, PlainIs DEF StreamerStates
    <3> QED
      BY <3>1, OperationsAgree
  <2>4. \/ st' = [next EXCEPT !.terminal = TRUE, !.done = ~st.buffer_error] /\ played' = played
        \/ st' = next /\ played' = played \o [k \in 1 .. e.cnt |-> v]
    BY <1>4 DEF PlayElement
  <2> HIDE DEF e, v
  <2>5. next \in StreamerStates /\ next.terminal = st.terminal /\ next.done = st.done
        /\ next.buffer_error = st.buffer_error /\ next.triggered = st.triggered
    <3>1. st.ctr_out + 1 \in Nat
      BY <1>1 DEF StreamerStates
    <3>2. next = [st EXCEPT !.ready = Tail(st.ready), !.started = TRUE, !.qout = v,
                           !.ctr_out = st.ctr_out + 1]
      BY <1>1 DEF StreamerStates
    <3> HIDE DEF next
    <3> QED
      BY <1>1, <2>2, <2>3, <3>1, <3>2 DEF StreamerStates
  <2> HIDE DEF next
  <2>6. [k \in 1 .. e.cnt |-> v] \in Seq(Word)
    BY <2>3
  <2>7. played' \in Seq(Word)
    <3> DEFINE run == [k \in 1 .. e.cnt |-> v]
    <3>1. run \in Seq(Word)
      BY <2>6
    <3>2. played' = played \/ played' = played \o run
      BY <2>4
    <3> HIDE DEF run
    <3>3. played \in Seq(Word)
      BY <1>1
    <3>4. played \o run \in Seq(Word)
      BY <3>1, <3>3, ConcatProperties, Zenon
    <3> QED
      BY <3>2, <3>3, <3>4, Zenon
  <2>8. /\ st' \in StreamerStates /\ st'.triggered = st.triggered
        /\ st'.buffer_error = st.buffer_error
        /\ \/ st'.terminal = TRUE
           \/ st'.terminal = st.terminal /\ st'.done = st.done
    <3>1. CASE st' = next
      BY <2>5, <3>1
    <3>2. CASE st' = [next EXCEPT !.terminal = TRUE, !.done = ~st.buffer_error]
      BY <2>5, <3>2 DEF StreamerStates
    <3> QED
      BY <2>4, <3>1, <3>2
  <2>9. ~CannotPlay /\ ~Disarmed
    BY <2>1 DEF trigger_activated, CannotPlay, Disarmed
  <2> QED
    BY <2>1, <2>7, <2>8, <2>9
<1>5. CASE Underrun
  <2>1. st' = [st EXCEPT !.buffer_error = TRUE] /\ UNCHANGED <<ctrlVars, played>>
    BY <1>5 DEF Underrun
  <2>2. st' \in StreamerStates /\ st'.terminal = st.terminal /\ st'.buffer_error
        /\ st'.done = st.done /\ st'.qout = st.qout /\ st'.triggered = st.triggered
    BY <1>1, <2>1 DEF StreamerStates
  <2> QED
    BY <1>1, <2>1, <2>2 DEF Disarmed
<1> QED
  BY <1>2, <1>3, <1>4, <1>5 DEF StreamerNext

\* A step that leaves the control word and the streamer alone.
HardwareStays == UNCHANGED <<control, if_ctrl, start_value, st, played>>
\* Host steps that touch no register change nothing the streamer can do.
LEMMA HardwareSame ==
  ASSUME HardwareStays
  PROVE  Disarmed' = Disarmed /\ CannotPlay' = CannotPlay
BY DEF HardwareStays, Disarmed, CannotPlay

\* A reset leaves the streamer in a state of its type.
LEMMA ResetStates ==
  ASSUME NEW v \in Word
  PROVE  HwReset(v) \in StreamerStates
<1>1. <<>> \in Seq(PlainElement)
  OBVIOUS
<1> QED
  BY <1>1 DEF HwReset, StreamerStates

\* Power-up establishes the invariant of the control word.
LEMMA FlowStart == FlowInit => ControlInv
<1> SUFFICES ASSUME FlowInit PROVE ControlInv
  OBVIOUS
<1>1. {} \in Word /\ <<>> \in Seq(PlainElement) /\ <<>> \in Seq(Word)
  BY DEF Word
<1>2. st = HwReset({}) /\ st \in StreamerStates /\ ~st.done
  BY <1>1, ResetStates DEF FlowInit, StreamerInit, HwReset
<1>3. FlowTypes
  BY <1>1, <1>2, PollsAssumption DEF FlowInit, StreamerInit, FlowTypes
<1> QED
  BY <1>2, <1>3 DEF FlowInit, ControlInv, ControlTold, WaitTold, TimeoutStops

\* A new process keeps it.
LEMMA StartStep ==
  ASSUME ControlInv, NEW o \in Options, StartProcess(o)
  PROVE  ControlInv'
<1>1. o.i \in Word /\ <<>> \in Seq(Word)
  BY OptionsAssumption
<1>2. /\ st' = HwReset(o.i) /\ start_value' = o.i /\ played' = <<>>
      /\ control' = if_ctrl' /\ if_ctrl' \subseteq {"STOP_ON_BUFFER_ERROR"}
      /\ pc' = "ready" /\ rc' = {} /\ polls' = 0 /\ to_send' = to_send
  BY DEF StartProcess, BringUp
<1>3. st' \in StreamerStates /\ ~st'.done /\ ~st'.triggered
  BY <1>1, <1>2, ResetStates DEF HwReset
<1>4. FlowTypes'
  BY <1>1, <1>2, <1>3, PollsAssumption DEF ControlInv, FlowTypes
<1>5. Disarmed'
  BY <1>2, <1>3 DEF Disarmed, TriggerBits
<1> QED
  BY <1>2, <1>3, <1>4, <1>5 DEF ControlInv, ControlTold, WaitTold, TimeoutStops

\* A return that leaves the hardware as it is: with a time-out it comes before the
\* trigger or after the terminator.
LEMMA ReturnStep ==
  ASSUME ControlInv, NEW code, Return(code), HardwareStays,
         "TIMEOUT" \in code /\ "BUFFER_ERROR" \notin code => CannotPlay
  PROVE  ControlInv'
<1>1. FlowTypes'
  BY DEF ControlInv, FlowTypes, Return, HardwareStays
<1>2. WaitTold'
  BY DEF ControlInv, WaitTold, Return, HardwareStays
<1>3. TimeoutStops' /\ ControlTold'
  BY HardwareSame DEF TimeoutStops, ControlTold, Return
<1> QED
  BY <1>1, <1>2, <1>3 DEF ControlInv

\* The abort: the streamer is reset and stopped.
LEMMA AbortStep ==
  ASSUME ControlInv, NEW code, abort_streamer_after_timeout(code)
  PROVE  ControlInv'
<1>1. /\ st' = HwReset(start_value) /\ played' = <<>> /\ start_value' = start_value
      /\ "STOP" \in if_ctrl' /\ pc' = "none" /\ rc' = code /\ polls' = polls
      /\ to_send' = to_send
  BY DEF abort_streamer_after_timeout, reset_streamer, Write, Return
<1>2. start_value \in Word /\ <<>> \in Seq(Word)
  BY DEF ControlInv, FlowTypes
<1>3. st' \in StreamerStates /\ ~st'.done
  BY <1>1, <1>2, ResetStates DEF HwReset
<1>4. FlowTypes'
  BY <1>1, <1>2, <1>3 DEF ControlInv, FlowTypes
<1> QED
  BY <1>1, <1>3, <1>4 DEF ControlInv, ControlTold, WaitTold, TimeoutStops, CannotPlay

\* A step of the host that only moves on: within a phase, to an earlier phase
\* than the wait, or to the wait.
LEMMA MoveStep ==
  ASSUME ControlInv, HardwareStays, pc' \in Phases, pc' \notin {"waited", "post"},
         pc' \in {"transmit", "trigger"} => pc \in {"ready", "transmit", "trigger"},
         to_send' \in Seq(PlainElement), polls' \in Nat, polls' <= MaxPolls, pc # "none"
  PROVE  ControlInv'
<1>1. FlowTypes'
  BY DEF ControlInv, FlowTypes, HardwareStays
<1>2. WaitTold'
  BY DEF ControlInv, WaitTold, HardwareStays, Phases
<1>3. Disarmed' = Disarmed
  BY HardwareSame
<1>4. ControlTold'
  BY <1>3 DEF ControlInv, ControlTold, HardwareStays, Phases
<1>5. TimeoutStops'
  BY DEF TimeoutStops, Phases
<1> QED
  BY <1>1, <1>2, <1>4, <1>5 DEF ControlInv

\* ppqout leaves the override selected, which no process but its own sees.
LEMMA QoutStep == ControlInv /\ ppqout => ControlInv'
<1> SUFFICES ASSUME ControlInv, ppqout PROVE ControlInv'
  OBVIOUS
<1>1. /\ UNCHANGED <<start_value, st, played, polls, to_send>> /\ pc' = "none" /\ rc' = {"OTHER"}
  BY DEF ppqout, Return, hwVars
<1>2. FlowTypes'
  BY <1>1 DEF ControlInv, FlowTypes
<1> QED
  BY <1>1, <1>2 DEF ControlInv, ControlTold, WaitTold, TimeoutStops

\* Every sequence the host prepares is of plain elements.
LEMMA PreparedIs ==
  ASSUME NEW s \in Seq(PlainElement), NEW v,
         prepare_sequence_for_streaming(s, [t |-> None, random |-> None], v) # Error
  PROVE  LET p == prepare_sequence_for_streaming(s, [t |-> None, random |-> None], v)
         IN  p.seq \in Seq(PlainElement) /\ FinalEnds(p.seq)
<1> DEFINE p == prepare_sequence_for_streaming(s, [t |-> None, random |-> None], v)
           x == explicit_final_output(s)
           a == Append(s, no_modify_final_output)
<1> SUFFICES p.seq \in Seq(PlainElement) /\ FinalEnds(p.seq)
  OBVIOUS
<1>1. \/ x # Error /\ x # None /\ p.seq = s
      \/ x # Error /\ x = None /\ p.seq = a
  <2> DEFINE asks == [t |-> None, random |-> None]
  <2>1. asks.t = None /\ asks.random = None /\ {w \in {asks.t, asks.random} : w # None} = {}
    OBVIOUS
  <2>2. p = append_final_output(s, asks, v)
    BY DEF prepare_sequence_for_streaming
  <2>3. p # Error
    OBVIOUS
  <2> HIDE DEF asks, p
  <2>4. x # Error /\ (x # None => p = [seq |-> s, final |-> infer_sequence_final_output(s, v)])
        /\ (x = None => p = [seq |-> a, final |-> infer_sequence_final_output(a, v)])
    BY <2>1, <2>2, <2>3 DEF append_final_output
  <2> QED
    BY <2>4
<1>2. \A i \in 1 .. Len(s) : s[i] \in PlainElement /\ s[i].val \in Word
  BY DEF PlainElement, Element
<1>3. CASE x # Error /\ x # None /\ p.seq = s
  <2>1. validate_final_is_terminal(s) /\ s # <<>> /\ is_final(Last(s))
    BY <1>3 DEF explicit_final_output
  <2> QED
    BY <1>3, <2>1 DEF FinalEnds, validate_final_is_terminal, Last
<1>4. CASE x # Error /\ x = None /\ p.seq = a
  <2>1. validate_final_is_terminal(s)
    BY <1>4 DEF explicit_final_output
  <2>2. \A i \in 1 .. Len(s) : ~is_final(s[i])
    <3> SUFFICES ASSUME NEW i \in 1 .. Len(s), is_final(s[i]) PROVE FALSE
      OBVIOUS
    <3>1. i = Len(s) /\ s # <<>> /\ Last(s) = s[i]
      BY <2>1 DEF validate_final_is_terminal, Last
    <3>2. x = s[i].val
      BY <2>1, <3>1 DEF explicit_final_output
    <3> QED
      BY <1>2, <1>4, <3>2, NoneAssumption
  <2>3. no_modify_final_output \in PlainElement /\ is_final(no_modify_final_output)
    <3>1. no_modify_final_output
            = [mode |-> "OR", control |-> {"TERMINATE"}, val |-> {}, cnt |-> 1, pos |-> 0]
      <4>1. PICK r : r = Regular(1, "OR", {})
        OBVIOUS
      <4>2. r = [mode |-> "OR", control |-> {}, val |-> {}, cnt |-> 1, pos |-> 0]
        BY <4>1 DEF Regular
      <4>3. no_modify_final_output = [r EXCEPT !.control = r.control \cup {"TERMINATE"}]
        BY <4>1 DEF no_modify_final_output, Final, WithBits
      <4>4. r.control \cup {"TERMINATE"} = {"TERMINATE"}
        BY <4>2
      <4> QED
        BY <4>2, <4>3, <4>4
    <3>2. 0 \in Positions /\ {} \in Word
      BY MemoryAssumption DEF Positions, Word
    <3> QED
      BY <3>1, <3>2 DEF PlainElement, Element, BitOps, ControlBits, is_final, is_regular, is_trigger,
                        kind, type_from_control, Is
  <2>4. /\ a \in Seq(PlainElement) /\ Len(a) = Len(s) + 1
        /\ \A i \in 1 .. (Len(s) + 1) : a[i] = IF i <= Len(s) THEN s[i] ELSE no_modify_final_output
    BY <2>3
  <2>5. Len(s) \in Nat /\ DOMAIN a = 1 .. Len(a)
    BY <2>4
  <2> HIDE DEF x, p, a
  <2>6. FinalEnds(a)
    BY <2>2, <2>3, <2>4, <2>5 DEF FinalEnds
  <2> QED
    BY <1>4, <2>4, <2>6
<1> QED
  BY <1>1, <1>3, <1>4

\* prepare_streamer_for_new_sequence and the reset of the read-back keep it.
LEMMA SendStep ==
  ASSUME ControlInv, NEW n \in 1 .. NSequences, SendAndTrig(n)
  PROVE  ControlInv'
<1> DEFINE prepared == prepare_sequence_for_streaming(Sequence(n), [t |-> None, random |-> None], st.qout)
<1>1. HardwareStays /\ pc = "ready"
  BY DEF SendAndTrig, HardwareStays, ctrlVars, hwVars
<1>2. \/ Return({"EXCEPTION"})
      \/ prepared # Error /\ to_send' = prepared.seq /\ pc' = "transmit" /\ polls' = polls
  BY DEF SendAndTrig
<1>3. CASE Return({"EXCEPTION"})
  BY <1>1, <1>3, ReturnStep
<1>4. CASE prepared # Error /\ to_send' = prepared.seq /\ pc' = "transmit" /\ polls' = polls
  <2>1. prepared.seq \in Seq(PlainElement)
    BY <1>4, PreparedIs, SequencesAssumption
  <2>2. polls \in Nat /\ polls <= MaxPolls
    BY DEF ControlInv, FlowTypes
  <2> HIDE DEF prepared
  <2> QED
    BY <1>1, <1>4, <2>1, <2>2, MoveStep DEF Phases
<1> QED
  BY <1>2, <1>3, <1>4

\* The transmission keeps it.
LEMMA TransmitStep == ControlInv /\ Transmit => ControlInv'
<1> SUFFICES ASSUME ControlInv, Transmit PROVE ControlInv'
  OBVIOUS
<1>1. /\ pc = "transmit" /\ to_send # <<>> /\ UNCHANGED <<control, if_ctrl, start_value, played, pc, polls, rc>>
      /\ st' = [st EXCEPT !.fifo = Append(@, Head(to_send))] /\ to_send' = Tail(to_send)
  BY DEF Transmit, ctrlVars
<1>2. st \in StreamerStates /\ st.fifo \in Seq(PlainElement) /\ to_send \in Seq(PlainElement)
  BY DEF ControlInv, FlowTypes, StreamerStates
<1>3. Head(to_send) \in PlainElement /\ Tail(to_send) \in Seq(PlainElement)
  BY <1>1, <1>2
<1>4. PICK f \in Seq(PlainElement) : f = Append(st.fifo, Head(to_send))
  BY <1>2, <1>3, AppendProperties, Zenon
<1>5. st' = [st EXCEPT !.fifo = f]
  BY <1>1, <1>2, <1>4 DEF StreamerStates
<1>6. /\ st' \in StreamerStates /\ st'.done = st.done /\ st'.terminal = st.terminal
      /\ st'.triggered = st.triggered
  BY <1>2, <1>4, <1>5 DEF StreamerStates
<1>7. FlowTypes'
  BY <1>1, <1>3, <1>6 DEF ControlInv, FlowTypes
<1>8. Disarmed' = Disarmed
  BY <1>1, <1>6 DEF Disarmed
<1> QED
  BY <1>1, <1>6, <1>7, <1>8 DEF ControlInv, ControlTold, WaitTold, TimeoutStops

\* The trigger bits are set when the host leaves the phase before the check.
LEMMA TriggerStep == ControlInv /\ (ArmTrigger \/ ForceTrigger) => ControlInv'
<1> SUFFICES ASSUME ControlInv, ArmTrigger \/ ForceTrigger PROVE ControlInv'
  OBVIOUS
<1>1. /\ pc = "trigger" /\ UNCHANGED <<start_value, st, played>>
      /\ Triggered
      /\ \E bit \in TriggerBits : control' = control \cup {bit} /\ if_ctrl' = control \cup {bit}
  BY DEF ArmTrigger, ForceTrigger, hwVars, trigger_enable, trigger_force, Write, Set, TriggerBits
<1>2. /\ to_send' = to_send
      /\ \/ pc' = "none" /\ rc' = {"EXCEPTION"} /\ polls' = polls
         \/ pc' \in {"check", "read", "wait"} /\ polls' = 0
  BY <1>1 DEF Triggered, Return, Enter, AfterTrigger
<1>3. FlowTypes'
  BY <1>1, <1>2, PollsAssumption DEF ControlInv, FlowTypes, Phases
<1>4. ControlTold'
  BY <1>1, <1>2 DEF ControlInv, ControlTold, TriggerBits
<1> QED
  BY <1>1, <1>2, <1>3, <1>4 DEF ControlInv, WaitTold, TimeoutStops

\* Reading back keeps it.
LEMMA CheckStep == ControlInv /\ (CheckRead \/ CheckIdle \/ ReadAll) => ControlInv'
<1> SUFFICES ASSUME ControlInv, CheckRead \/ CheckIdle \/ ReadAll PROVE ControlInv'
  OBVIOUS
<1>1. HardwareStays /\ to_send' = to_send /\ pc \in {"check", "read"}
  BY DEF CheckRead, CheckIdle, ReadAll, ctrlVars, hwVars, HardwareStays
<1>2. pc' \in {"check", "read", "wait"}
  BY DEF CheckRead, CheckIdle, ReadAll, ReadEnds, CheckFails, Enter, AfterCheck, TakeRun
<1>3. polls' \in {polls, 0, MaxPolls} \/ (polls < MaxPolls /\ polls' = polls + 1)
  BY DEF CheckRead, CheckIdle, ReadAll, ReadEnds, CheckFails, Enter, TakeRun, AfterRead
<1>4. polls \in Nat /\ polls <= MaxPolls /\ to_send \in Seq(PlainElement)
  BY DEF ControlInv, FlowTypes
<1>5. polls' \in Nat /\ polls' <= MaxPolls
  BY <1>3, <1>4, PollsAssumption
<1> QED
  BY <1>1, <1>2, <1>4, <1>5, MoveStep DEF Phases

\* wait_to_complete keeps it.
LEMMA WaitStep == ControlInv /\ WaitToComplete => ControlInv'
<1> SUFFICES ASSUME ControlInv, WaitToComplete PROVE ControlInv'
  OBVIOUS
<1>1. /\ HardwareStays /\ to_send' = to_send /\ pc = "wait"
      /\ \/ pc' = "wait" /\ polls < MaxPolls /\ polls' = polls + 1
         \/ pc' = "waited" /\ polls' = polls /\ (polls < MaxPolls => st.done \/ st.buffer_error)
  BY DEF WaitToComplete, done, buffer_error, status, ctrlVars, hwVars, HardwareStays
<1>2. polls \in Nat /\ polls <= MaxPolls
  BY DEF ControlInv, FlowTypes
<1>3. FlowTypes'
  BY <1>1, <1>2, PollsAssumption DEF ControlInv, FlowTypes, HardwareStays, Phases
<1>4. polls # MaxPolls => polls < MaxPolls
  BY <1>2, PollsAssumption
<1>5. WaitTold' /\ ControlTold' /\ TimeoutStops'
  BY <1>1, <1>4 DEF ControlInv, ControlTold, TimeoutStops, WaitTold, HardwareStays
<1> QED
  BY <1>3, <1>5 DEF ControlInv

\* The end of the wait keeps it, with its abort after a time-out.
LEMMA WaitedStep == ControlInv /\ Waited => ControlInv'
<1> SUFFICES ASSUME ControlInv, Waited PROVE ControlInv'
  OBVIOUS
<1>1. CASE abort_streamer_after_timeout(rc \cup {"TIMEOUT"})
  BY <1>1, AbortStep
<1>2. CASE /\ pc' = "post" /\ HardwareStays /\ polls' = polls /\ to_send' = to_send
           /\ \/ rc' = rc \cup {"BUFFER_ERROR"}
              \/ rc' = rc /\ ~st.buffer_error /\ polls # MaxPolls
  <2>1. pc = "waited"
    BY DEF Waited
  <2>2. FlowTypes'
    BY <1>2 DEF ControlInv, FlowTypes, HardwareStays, Phases
  <2> QED
    BY <1>2, <2>1, <2>2 DEF ControlInv, ControlTold, WaitTold, TimeoutStops, HardwareStays
<1> QED
  BY <1>1, <1>2 DEF Waited, buffer_error, status, ctrlVars, hwVars, HardwareStays

\* After the wait: disarmed, with the terminator played or the underrun reported.
LEMMA PostStep == ControlInv /\ run_post_execution_checks => ControlInv'
<1> SUFFICES ASSUME ControlInv, run_post_execution_checks PROVE ControlInv'
  OBVIOUS
<1>1. /\ pc = "post" /\ pc' = "none" /\ UNCHANGED <<start_value, st, played, polls, to_send>>
      /\ rc \subseteq rc'
  BY DEF run_post_execution_checks, Return, hwVars
<1>2. FlowTypes'
  BY <1>1 DEF ControlInv, FlowTypes
<1> QED
  BY <1>1, <1>2 DEF ControlInv, ControlTold, WaitTold, TimeoutStops, CannotPlay

\* A process that does not wait keeps it.
LEMMA DontWaitStep == ControlInv /\ DontWait => ControlInv'
<1> SUFFICES ASSUME ControlInv, DontWait PROVE ControlInv'
  OBVIOUS
<1>1. CASE "TIMEOUT" \in rc
  <2>1. abort_streamer_after_timeout(rc)
    BY <1>1 DEF DontWait
  <2> QED
    BY <2>1, AbortStep
<1>2. CASE "TIMEOUT" \notin rc
  <2>1. Return(rc) /\ HardwareStays
    BY <1>2 DEF DontWait, ctrlVars, hwVars, HardwareStays
  <2> QED
    BY <1>2, <2>1, ReturnStep
<1> QED
  BY <1>1, <1>2

\* The returns before the trigger, and the kill.
LEMMA EarlyReturnStep ==
  ControlInv /\ (Stalled \/ PollOutputFifo \/ Sent \/ ppreset \/ Killed) => ControlInv'
<1> SUFFICES ASSUME ControlInv, Stalled \/ PollOutputFifo \/ Sent \/ ppreset \/ Killed PROVE ControlInv'
  OBVIOUS
<1>1. HardwareStays
  BY DEF Stalled, PollOutputFifo, Sent, ppreset, Killed, ctrlVars, hwVars, HardwareStays
<1>2. pc \in {"transmit", "trigger"} => CannotPlay
  BY DEF ControlInv, ControlTold, CannotPlay
<1>3. polls \in Nat /\ polls <= MaxPolls /\ to_send \in Seq(PlainElement)
  BY DEF ControlInv, FlowTypes
<1>4. CASE Stalled
  BY <1>1, <1>2, <1>4, ReturnStep DEF Stalled
<1>5. CASE ppreset
  BY <1>1, <1>5, ReturnStep DEF ppreset
<1>6. CASE Killed
  BY <1>1, <1>6, ReturnStep DEF Killed
<1>7. CASE PollOutputFifo
  <2>1. CASE polls >= MaxPolls
    BY <1>1, <1>2, <1>7, <2>1, ReturnStep DEF PollOutputFifo
  <2>2. CASE ~(polls >= MaxPolls)
    <3>1. pc = "trigger" /\ pc' = pc /\ polls' = polls + 1 /\ to_send' = to_send
      BY <1>7, <2>2 DEF PollOutputFifo
    <3>2. polls' \in Nat /\ polls' <= MaxPolls
      BY <1>3, <2>2, <3>1, PollsAssumption
    <3> QED
      BY <1>1, <1>3, <3>1, <3>2, MoveStep DEF Phases
  <2> QED
    BY <2>1, <2>2
<1>8. CASE Sent
  <2>1. pc = "transmit" /\ pc' = "trigger" /\ polls' = 0 /\ to_send' = to_send
    BY <1>8 DEF Sent, Enter
  <2> QED
    BY <1>1, <1>3, <2>1, PollsAssumption, MoveStep DEF Phases
<1> QED
  BY <1>4, <1>5, <1>6, <1>7, <1>8

\* A step of the streamer keeps it.
LEMMA StreamerStep == ControlInv /\ StreamerNext /\ UNCHANGED hostVars => ControlInv'
<1> SUFFICES ASSUME ControlInv, StreamerNext, UNCHANGED hostVars PROVE ControlInv'
  OBVIOUS
<1>0. FlowTypes
  BY DEF ControlInv
<1>1. /\ st' \in StreamerStates /\ played' \in Seq(Word) /\ UNCHANGED ctrlVars
      /\ st.terminal => st'.terminal
      /\ st.buffer_error => st'.buffer_error
      /\ (st.done => st.terminal) => (st'.done => st'.terminal)
      /\ Disarmed => ~st'.triggered
  BY <1>0, StreamerKeeps
<1>2. UNCHANGED <<pc, polls, rc, to_send, control, if_ctrl, start_value>>
  BY <1>1 DEF hostVars, ctrlVars
<1>3. FlowTypes'
  BY <1>0, <1>1, <1>2 DEF FlowTypes
<1>4. Disarmed => Disarmed'
  BY <1>1, <1>2 DEF Disarmed
<1>5. CannotPlay => CannotPlay'
  BY <1>1, <1>2, <1>4 DEF CannotPlay
<1> QED
  BY <1>1, <1>2, <1>3, <1>4, <1>5 DEF ControlInv, ControlTold, WaitTold, TimeoutStops

\* Every step of a streaming process and of the streamer keeps it.
LEMMA ControlKept == ControlInv /\ [FlowNext]_flowVars => ControlInv'
<1> SUFFICES ASSUME ControlInv, [FlowNext]_flowVars PROVE ControlInv'
  OBVIOUS
<1>1. CASE UNCHANGED flowVars
  BY <1>1 DEF flowVars, hostVars, hwVars, ctrlVars, ControlInv, FlowTypes, ControlTold, WaitTold,
              TimeoutStops, CannotPlay, Disarmed
<1>2. CASE FlowNext
  BY <1>2, StartStep, QoutStep, SendStep, TransmitStep, TriggerStep, CheckStep, WaitStep, WaitedStep,
     PostStep, DontWaitStep, EarlyReturnStep, StreamerStep DEF FlowNext, HostStep
<1> QED
  BY <1>1, <1>2

\* The control word, the waits and the time-outs of send_and_trig always stand as
\* ControlInv says, whatever killed processes left behind.
THEOREM FlowInvariance == FlowSpec => []ControlInv
BY FlowStart, ControlKept, PTL DEF FlowSpec

\* A run that ended in a time-out leaves the outputs still: only a step of the
\* streamer can change them while no process runs, and it cannot play.
THEOREM TimeoutIsQuiet == FlowSpec => QuietAfterTimeout
<1> DEFINE Quiet == Finished /\ "TIMEOUT" \in rc /\ "BUFFER_ERROR" \notin rc /\ pc' = "none"
                      => st'.qout = st.qout
<1>1. ControlInv /\ [FlowNext]_flowVars => [Quiet]_flowVars
  <2> SUFFICES ASSUME ControlInv, FlowNext, Finished, "TIMEOUT" \in rc, "BUFFER_ERROR" \notin rc,
                      pc' = "none"
               PROVE  st'.qout = st.qout
    OBVIOUS
  <2>1. pc = "none"
    BY DEF Finished
  <2>2. StreamerNext
    BY <2>1 DEF FlowNext, StartProcess, ppreset, ppqout, SendAndTrig, Killed, HostStep, Transmit, Stalled,
       Sent, ArmTrigger, ForceTrigger, PollOutputFifo, CheckRead, CheckIdle, ReadAll, DontWait,
       WaitToComplete, Waited, run_post_execution_checks
  <2>3. CannotPlay /\ FlowTypes
    BY <2>1 DEF ControlInv, TimeoutStops
  <2> QED
    BY <2>2, <2>3, StreamerKeeps
<1> HIDE DEF Quiet
<1>2. FlowSpec => [][Quiet]_flowVars
  BY <1>1, FlowInvariance, PTL DEF FlowSpec
<1> QED
  BY <1>2 DEF Quiet, QuietAfterTimeout
-----------------------------------------------------------------------------
(***************************************************************************)
(* What a list of plain elements plays: the values, and the one it ends    *)
(* at.                                                                     *)
(***************************************************************************)
Samplings == [prev : Word, k : {0}, out : Seq(OutWord)]
Heard(s, q) == Data(Samples(s, q))
EndsAt(s, q) == Sampling(s, q)[Len(s)].prev

\* Trigger conditions and empty elements are not played.
Plays(e) == ~is_trigger(e) /\ e.cnt # 0
RunOf(e, v) == [k \in 1 .. e.cnt |-> [data |-> v, control |-> e.control]]

\* What one plain element does to the samples.
LEMMA PlainStep ==
  ASSUME NEW s \in Samplings, NEW e \in PlainElement
  PROVE  /\ SampleStep(s, e) \in Samplings
         /\ ~Plays(e) => SampleStep(s, e) = s
         /\ Plays(e) => /\ SampleStep(s, e).prev = updated_value(e, s.prev)
                        /\ SampleStep(s, e).out = s.out \o RunOf(e, updated_value(e, s.prev))
<1>0. /\ s.prev \in Word /\ s.out \in Seq(OutWord) /\ s.k = 0
      /\ e \in Element /\ e.cnt \in Nat /\ e.control \in SUBSET ControlBits
  BY PlainIs DEF Samplings, Element
<1>1. is_trigger(e) <=> Is(e, "TRIGGER")
  BY DEF is_trigger, kind, type_from_control, Is
<1>2. CASE ~Plays(e)
  BY <1>1, <1>2 DEF Plays, SampleStep
<1>3. CASE Plays(e)
  <2>1. ~Is(e, "PRNG") /\ ~Is(e, "TRIGGER") /\ e.cnt # 0
    BY <1>1, <1>3 DEF Plays, PlainElement, is_trigger, is_final, is_regular, kind, type_from_control, Is
  <2>2. PICK v \in Word : v = updated_value(e, s.prev) /\ v = apply_op(s.prev, e.val, e.mode)
    BY <1>0, OperationsAgree
  <2>3. SampleRun(s, e) = RunOf(e, v)
    BY <2>1, <2>2 DEF SampleRun, RunOf
  <2>4. PICK r : r = RunOf(e, v)
    OBVIOUS
  <2>5. r \in Seq(OutWord) /\ r[e.cnt].data = v
    <3>1. [data |-> v, control |-> e.control] \in OutWord
      BY <1>0 DEF OutWord
    <3>2. e.cnt \in 1 .. e.cnt
      BY <1>0, <2>1
    <3>3. r \in [1 .. e.cnt -> OutWord]
      BY <2>4, <3>1 DEF RunOf
    <3> QED
      BY <1>0, <2>4, <3>2, <3>3 DEF RunOf
  <2>6. SampleStep(s, e) = [prev |-> r[e.cnt].data, k |-> s.k, out |-> s.out \o r]
    BY <2>1, <2>3, <2>4 DEF SampleStep
  <2>7. s.out \o r \in Seq(OutWord)
    BY <1>0, <2>5, ConcatProperties, Zenon
  <2>8. SampleStep(s, e) \in Samplings
    BY <1>0, <2>5, <2>6, <2>7 DEF Samplings
  <2>9. SampleStep(s, e).prev = v /\ SampleStep(s, e).out = s.out \o r
    BY <2>5, <2>6
  <2> QED
    BY <1>3, <2>2, <2>4, <2>8, <2>9
<1> QED
  BY <1>2, <1>3

\* The table of samples of a sequence of plain elements.
LEMMA PlainTable ==
  ASSUME NEW p \in Seq(PlainElement), NEW q \in Word
  PROVE  /\ Sampling(p, q) \in [0 .. Len(p) -> Samplings]
         /\ Sampling(p, q)[0] = SampleStart(q)
         /\ \A i \in 1 .. Len(p) : Sampling(p, q)[i] = SampleStep(Sampling(p, q)[i - 1], p[i])
<1> DEFINE n == Len(p)
           step == [r \in Samplings \X (1 .. n) |-> SampleStep(r[1], p[r[2]])]
           Body(f) == [i \in 0 .. n |-> IF i = 0 THEN SampleStart(q)
                                                 ELSE SampleStep(f[i - 1], p[i])]
           t == CHOOSE f : f = Body(f)
<1>0. n \in Nat /\ \A i \in 1 .. n : p[i] \in PlainElement
  OBVIOUS
<1>1. SampleStart(q) \in Samplings
  <2>1. <<>> \in Seq(OutWord)
    OBVIOUS
  <2> QED
    BY <2>1 DEF SampleStart, Samplings
<1> HIDE DEF n
<1>2. step \in [Samplings \X (1 .. n) -> Samplings]
  <2>1. ASSUME NEW r \in Samplings \X (1 .. n) PROVE SampleStep(r[1], p[r[2]]) \in Samplings
    BY <1>0, PlainStep
  <2> QED
    BY <2>1
<1>3. \A l \in Samplings, i \in 1 .. n : step[<<l, i>>] = SampleStep(l, p[i])
  OBVIOUS
<1> HIDE DEF step
<1>4. PICK f \in [0 .. n -> Samplings] : Table(f, SampleStart(q), step, n)
  BY <1>0, <1>1, <1>2, TableExists
<1>5. f = Body(f)
  <2>1. ASSUME NEW i \in 0 .. n PROVE f[i] = Body(f)[i]
    <3>1. CASE i = 0
      BY <1>4, <3>1 DEF Table
    <3>2. CASE i # 0
      <4>1. i \in 1 .. n /\ i - 1 \in 0 .. n
        BY <1>0, <3>2
      <4> QED
        BY <1>3, <1>4, <3>2, <4>1 DEF Table
    <3> QED
      BY <3>1, <3>2
  <2> QED
    BY <1>4, <2>1
<1>6. t = Body(t)
  BY <1>5
<1>7. Sampling(p, q) = t
  BY DEF Sampling, n
<1> DEFINE S == {k \in Nat : k <= n => t[k] \in Samplings}
<1> HIDE DEF t
<1>8. 0 \in S
  BY <1>0, <1>1, <1>6
<1>9. ASSUME NEW k \in Nat, k \in S PROVE k + 1 \in S
  <2> SUFFICES ASSUME k + 1 <= n PROVE t[k + 1] \in Samplings
    OBVIOUS
  <2>1. k + 1 \in 1 .. n /\ k + 1 \in 0 .. n /\ k + 1 # 0 /\ (k + 1) - 1 = k /\ k <= n
    BY <1>0
  <2>2. t[k + 1] = SampleStep(t[k], p[k + 1])
    BY <1>6, <2>1
  <2> QED
    BY <1>0, <1>9, <2>1, <2>2, PlainStep
<1> HIDE DEF S
<1>10. Nat \subseteq S
  BY <1>8, <1>9, NatInductive
<1>11. \A k \in 0 .. n : t[k] \in Samplings
  BY <1>0, <1>10 DEF S
<1>12. DOMAIN t = 0 .. n /\ t = [i \in 0 .. n |-> t[i]]
  BY <1>6
<1>13. t \in [0 .. n -> Samplings]
  BY <1>11, <1>12
<1>14. t[0] = SampleStart(q) /\ \A i \in 1 .. n : t[i] = SampleStep(t[i - 1], p[i])
  <2>1. 0 \in 0 .. n /\ \A i \in 1 .. n : i \in 0 .. n /\ i # 0
    BY <1>0
  <2> QED
    BY <1>6, <2>1
<1> QED
  BY <1>7, <1>13, <1>14 DEF n

\* A list after another plays on from where the first ended.
LEMMA SamplesConcat ==
  ASSUME NEW s \in Seq(PlainElement), NEW t \in Seq(PlainElement), NEW q \in Word
  PROVE  /\ EndsAt(s, q) \in Word /\ Samples(s, q) \in Seq(OutWord)
         /\ EndsAt(s \o t, q) = EndsAt(t, EndsAt(s, q))
         /\ Samples(s \o t, q) = Samples(s, q) \o Samples(t, EndsAt(s, q))
<1> DEFINE n == Len(s)
           m == Len(t)
           F == Sampling(s \o t, q)
           G == Sampling(s, q)
           v == G[n].prev
           H == Sampling(t, v)
<1>1. /\ n \in Nat /\ m \in Nat /\ s \o t \in Seq(PlainElement) /\ Len(s \o t) = n + m
      /\ \A i \in 1 .. n : (s \o t)[i] = s[i] /\ s[i] \in PlainElement
      /\ \A i \in 1 .. m : (s \o t)[n + i] = t[i] /\ t[i] \in PlainElement
  OBVIOUS
<1>2. /\ G \in [0 .. n -> Samplings] /\ G[0] = SampleStart(q)
      /\ \A i \in 1 .. n : G[i] = SampleStep(G[i - 1], s[i])
  BY PlainTable
<1>3. G[n] \in Samplings /\ v \in Word /\ G[n].out \in Seq(OutWord)
  BY <1>1, <1>2 DEF Samplings
<1>4. /\ H \in [0 .. m -> Samplings] /\ H[0] = SampleStart(v)
      /\ \A i \in 1 .. m : H[i] = SampleStep(H[i - 1], t[i])
  BY <1>3, PlainTable
<1>5. /\ F \in [0 .. (n + m) -> Samplings] /\ F[0] = SampleStart(q)
      /\ \A i \in 1 .. (n + m) : F[i] = SampleStep(F[i - 1], (s \o t)[i])
  <2> HIDE DEF F
  <2> QED
    BY <1>1, PlainTable DEF F
<1> HIDE DEF F, G, H, n, m
<1> DEFINE A == {i \in Nat : i <= n => F[i] = G[i]}
<1>6. 0 \in A
  BY <1>2, <1>5
<1>7. ASSUME NEW i \in Nat, i \in A PROVE i + 1 \in A
  <2> SUFFICES ASSUME i + 1 <= n PROVE F[i + 1] = G[i + 1]
    OBVIOUS
  <2>1. i + 1 \in 1 .. n /\ i + 1 \in 1 .. (n + m) /\ (i + 1) - 1 = i /\ i <= n
    BY <1>1
  <2>2. F[i + 1] = SampleStep(F[i], (s \o t)[i + 1])
    BY <1>5, <2>1
  <2>3. G[i + 1] = SampleStep(G[i], s[i + 1])
    BY <1>2, <2>1
  <2> QED
    BY <1>1, <1>7, <2>1, <2>2, <2>3
<1> HIDE DEF A
<1>8. F[n] = G[n]
  <2>1. Nat \subseteq A
    BY <1>6, <1>7, NatInductive
  <2> QED
    BY <1>1, <2>1 DEF A
<1> DEFINE Goes(j) == F[n + j].prev = H[j].prev /\ F[n + j].out = G[n].out \o H[j].out
           B == {j \in Nat : j <= m => Goes(j)}
<1> HIDE DEF v
<1>9. 0 \in B
  <2>1. H[0].prev = v /\ H[0].out = <<>> /\ n + 0 = n
    BY <1>1, <1>4 DEF SampleStart
  <2>2. G[n].out \o <<>> = G[n].out
    BY <1>3
  <2> QED
    BY <1>8, <2>1, <2>2 DEF v
<1>10. ASSUME NEW j \in Nat, j \in B PROVE j + 1 \in B
  <2> SUFFICES ASSUME j + 1 <= m PROVE Goes(j + 1)
    <3> HIDE DEF Goes
    <3> QED
      OBVIOUS
  <2>1. /\ j + 1 \in 1 .. m /\ (j + 1) - 1 = j /\ j <= m /\ j \in 0 .. m
        /\ n + (j + 1) \in 1 .. (n + m) /\ (n + (j + 1)) - 1 = n + j /\ n + j \in 0 .. (n + m)
    BY <1>1
  <2>2. PICK e \in PlainElement : e = t[j + 1] /\ e = (s \o t)[n + (j + 1)]
    BY <1>1, <2>1
  <2>3. F[n + (j + 1)] = SampleStep(F[n + j], e)
    BY <1>5, <2>1, <2>2
  <2>4. H[j + 1] = SampleStep(H[j], e)
    BY <1>4, <2>1, <2>2
  <2>5. PICK f \in Samplings, h \in Samplings : f = F[n + j] /\ h = H[j]
    BY <1>4, <1>5, <2>1
  <2>6. f.prev = h.prev /\ f.out = G[n].out \o h.out
    BY <1>10, <2>1, <2>5
  <2>7. CASE ~Plays(e)
    BY <2>3, <2>4, <2>5, <2>6, <2>7, PlainStep
  <2>8. CASE Plays(e)
    <3>1. PICK r : r = RunOf(e, updated_value(e, h.prev))
      OBVIOUS
    <3>2. /\ SampleStep(f, e).prev = updated_value(e, h.prev) /\ SampleStep(f, e).out = f.out \o r
          /\ SampleStep(h, e).prev = updated_value(e, h.prev) /\ SampleStep(h, e).out = h.out \o r
      BY <2>6, <2>8, <3>1, PlainStep
    <3>3. r \in Seq(OutWord) /\ h.out \in Seq(OutWord)
      <4>1. h.prev \in Word /\ h.out \in Seq(OutWord) /\ e \in Element /\ e.cnt \in Nat
            /\ e.control \in SUBSET ControlBits
        BY PlainIs DEF Samplings, Element
      <4>2. updated_value(e, h.prev) \in Word
        BY <4>1, OperationsAgree
      <4>3. [data |-> updated_value(e, h.prev), control |-> e.control] \in OutWord
        BY <4>1, <4>2 DEF OutWord
      <4>4. r \in [1 .. e.cnt -> OutWord]
        BY <3>1, <4>3 DEF RunOf
      <4>5. r \in Seq(OutWord)
        <5>1. PICK c \in Nat : c = e.cnt
          BY <4>1
        <5>2. r \in [1 .. c -> OutWord]
          BY <4>4, <5>1
        <5> QED
          BY <5>2
      <4> QED
        BY <4>1, <4>5
    <3>4. (G[n].out \o h.out) \o r = G[n].out \o (h.out \o r)
      <4>1. PICK x \in Seq(OutWord), y \in Seq(OutWord), z \in Seq(OutWord) :
              x = G[n].out /\ y = h.out /\ z = r
        BY <1>3, <3>3
      <4>2. (x \o y) \o z = x \o (y \o z)
        BY SMTT(60)
      <4> QED
        BY <4>1, <4>2
    <3> QED
      BY <2>3, <2>4, <2>5, <2>6, <3>2, <3>4
  <2> QED
    BY <2>7, <2>8
<1> HIDE DEF B
<1>11. F[n + m].prev = H[m].prev /\ F[n + m].out = G[n].out \o H[m].out
  <2>1. Nat \subseteq B
    BY <1>9, <1>10, NatInductive
  <2> HIDE DEF Goes
  <2>2. Goes(m)
    BY <1>1, <2>1 DEF B
  <2> QED
    BY <2>2 DEF Goes
<1>12. /\ EndsAt(s, q) = v /\ Samples(s, q) = G[n].out
       /\ EndsAt(t, v) = H[m].prev /\ Samples(t, v) = H[m].out
       /\ EndsAt(s \o t, q) = F[n + m].prev /\ Samples(s \o t, q) = F[n + m].out
  BY <1>1 DEF EndsAt, Samples, F, G, H, n, m, v
<1> QED
  BY <1>3, <1>11, <1>12

\* What is heard of two sequences one after the other, the second from the
\* value the first ends at.
LEMMA HeardConcat ==
  ASSUME NEW s \in Seq(PlainElement), NEW t \in Seq(PlainElement), NEW q \in Word
  PROVE  /\ EndsAt(s, q) \in Word /\ Heard(s, q) \in Seq(Word)
         /\ EndsAt(s \o t, q) = EndsAt(t, EndsAt(s, q))
         /\ Heard(s \o t, q) = Heard(s, q) \o Heard(t, EndsAt(s, q))
<1>1. /\ EndsAt(s, q) \in Word
      /\ EndsAt(s \o t, q) = EndsAt(t, EndsAt(s, q))
      /\ Samples(s \o t, q) = Samples(s, q) \o Samples(t, EndsAt(s, q))
  BY SamplesConcat
<1>2. PICK x \in Seq(OutWord) : x = Samples(s, q)
  BY SamplesConcat
<1>3. PICK y \in Seq(OutWord) : y = Samples(t, EndsAt(s, q))
  BY <1>1, SamplesConcat
<1>4. ASSUME NEW w \in Seq(OutWord)
      PROVE  Data(w) \in Seq(Word) /\ Len(Data(w)) = Len(w) /\ \A i \in 1 .. Len(w) : Data(w)[i] = w[i].data
  <2>1. Len(w) \in Nat /\ DOMAIN w = 1 .. Len(w)
    OBVIOUS
  <2>2. \A i \in 1 .. Len(w) : w[i].data \in Word
    <3> TAKE i \in 1 .. Len(w)
    <3>1. w[i] \in OutWord
      OBVIOUS
    <3> QED
      BY <3>1 DEF OutWord
  <2>3. Data(w) \in [1 .. Len(w) -> Word] /\ \A i \in 1 .. Len(w) : Data(w)[i] = w[i].data
    BY <2>1, <2>2 DEF Data
  <2> QED
    BY <2>1, <2>3, SMTT(60)
<1>5. x \o y \in Seq(OutWord)
  OBVIOUS
<1>6. Data(x \o y) = Data(x) \o Data(y)
  <2>1. PICK dx \in Seq(Word), dy \in Seq(Word), d \in Seq(Word) :
          dx = Data(x) /\ dy = Data(y) /\ d = Data(x \o y)
    BY <1>4, <1>5
  <2>2. /\ Len(dx) = Len(x) /\ Len(dy) = Len(y) /\ Len(d) = Len(x) + Len(y)
        /\ \A i \in 1 .. Len(x) : dx[i] = x[i].data
        /\ \A i \in 1 .. Len(y) : dy[i] = y[i].data
        /\ \A i \in 1 .. (Len(x) + Len(y)) : d[i] = (x \o y)[i].data
        /\ Len(x) \in Nat /\ Len(y) \in Nat
    <3>1. Len(x \o y) = Len(x) + Len(y) /\ Len(x) \in Nat /\ Len(y) \in Nat
      OBVIOUS
    <3>2. Len(dx) = Len(x) /\ \A i \in 1 .. Len(x) : dx[i] = x[i].data
      BY <1>4, <2>1
    <3>3. Len(dy) = Len(y) /\ \A i \in 1 .. Len(y) : dy[i] = y[i].data
      BY <1>4, <2>1
    <3>4. PICK z \in Seq(OutWord) : z = x \o y /\ d = Data(z)
      BY <1>5, <2>1
    <3>5. Len(d) = Len(z) /\ \A i \in 1 .. Len(z) : d[i] = z[i].data
      BY <1>4, <3>4
    <3> QED
      BY <3>1, <3>2, <3>3, <3>4, <3>5
  <2>3. ASSUME NEW i \in 1 .. Len(d) PROVE d[i] = (dx \o dy)[i]
    <3>1. CASE i <= Len(x)
      <4>1. (x \o y)[i] = x[i] /\ (dx \o dy)[i] = dx[i] /\ i \in 1 .. Len(x)
        BY <2>2, <3>1
      <4> QED
        BY <2>2, <4>1
    <3>2. CASE i > Len(x)
      <4>1. (x \o y)[i] = y[i - Len(x)] /\ (dx \o dy)[i] = dy[i - Len(x)] /\ i - Len(x) \in 1 .. Len(y)
        BY <2>2, <3>2
      <4> QED
        BY <2>2, <4>1
    <3>3. i \in Nat
      BY <2>2
    <3> QED
      BY <2>2, <3>1, <3>2, <3>3
  <2>4. PICK z \in Seq(Word) : z = dx \o dy /\ Len(z) = Len(dx) + Len(dy)
    BY <2>1, ConcatProperties
  <2>5. d = z
    <3>1. Len(d) = Len(z) /\ \A i \in 1 .. Len(d) : d[i] = z[i]
      BY <2>2, <2>3, <2>4
    <3> QED
      BY <3>1, SeqEqual
  <2> QED
    BY <2>1, <2>4, <2>5
<1> QED
  BY <1>1, <1>2, <1>3, <1>4, <1>6 DEF Heard

\* Nothing is heard of an empty sequence.
LEMMA HeardNone ==
  ASSUME NEW q \in Word
  PROVE  Heard(<<>>, q) = <<>> /\ EndsAt(<<>>, q) = q
<1>1. <<>> \in Seq(PlainElement) /\ Len(<<>>) = 0
  OBVIOUS
<1>2. Sampling(<<>>, q)[0] = SampleStart(q)
  BY <1>1, PlainTable
<1>3. Sampling(<<>>, q)[0].prev = q /\ Sampling(<<>>, q)[0].out = <<>>
  BY <1>2 DEF SampleStart
<1> QED
  BY <1>1, <1>3 DEF Heard, EndsAt, Samples, Data

\* One element, and the rest after it.
LEMMA HeardOne ==
  ASSUME NEW e \in PlainElement, NEW t \in Seq(PlainElement), NEW q \in Word
  PROVE  /\ ~Plays(e) => Heard(<<e>> \o t, q) = Heard(t, q) /\ EndsAt(<<e>>, q) = q
         /\ Plays(e) => Heard(<<e>> \o t, q)
                          = [k \in 1 .. e.cnt |-> updated_value(e, q)] \o Heard(t, updated_value(e, q))
<1> DEFINE one == <<e>>
<1>1. one \in Seq(PlainElement) /\ Len(one) = 1 /\ one[1] = e
  OBVIOUS
<1> HIDE DEF one
<1>2. /\ Sampling(one, q)[0] = SampleStart(q)
      /\ Sampling(one, q)[1] = SampleStep(SampleStart(q), e)
  <2>1. /\ Sampling(one, q)[0] = SampleStart(q)
        /\ \A i \in 1 .. Len(one) : Sampling(one, q)[i] = SampleStep(Sampling(one, q)[i - 1], one[i])
    BY <1>1, PlainTable
  <2>2. Sampling(one, q)[1] = SampleStep(Sampling(one, q)[1 - 1], one[1])
    BY <1>1, <2>1
  <2> QED
    BY <1>1, <2>1, <2>2
<1>3. PICK s \in Samplings : s = SampleStart(q) /\ s.prev = q /\ s.out = <<>>
  <2>1. <<>> \in Seq(OutWord)
    OBVIOUS
  <2>2. /\ SampleStart(q) \in Samplings /\ SampleStart(q).prev = q /\ SampleStart(q).out = <<>>
    BY <2>1 DEF SampleStart, Samplings
  <2> QED
    BY <2>2
<1>4. EndsAt(one, q) = SampleStep(s, e).prev /\ Samples(one, q) = SampleStep(s, e).out
  BY <1>1, <1>2, <1>3 DEF EndsAt, Samples
<1>5. /\ EndsAt(one, q) \in Word /\ Heard(one, q) \in Seq(Word)
      /\ Heard(one \o t, q) = Heard(one, q) \o Heard(t, EndsAt(one, q))
  BY <1>1, HeardConcat
<1>6. CASE ~Plays(e)
  <2>1. EndsAt(one, q) = q /\ Samples(one, q) = <<>>
    BY <1>3, <1>4, <1>6, PlainStep
  <2>2. Heard(one, q) = <<>>
    BY <2>1 DEF Heard, Data
  <2>3. Heard(t, q) \in Seq(Word)
    BY HeardConcat
  <2>4. <<>> \o Heard(t, q) = Heard(t, q)
    BY <2>3
  <2> QED
    BY <1>5, <1>6, <2>1, <2>2, <2>4 DEF one
<1>7. CASE Plays(e)
  <2>1. PICK v \in Word : v = updated_value(e, q)
    BY PlainIs, OperationsAgree
  <2>2. EndsAt(one, q) = v /\ Samples(one, q) = <<>> \o RunOf(e, v)
    BY <1>3, <1>4, <1>7, <2>1, PlainStep
  <2>3. PICK c \in Nat : c = e.cnt
    BY PlainIs
  <2>4. PICK r : r = RunOf(e, v)
    OBVIOUS
  <2>5. r \in Seq(OutWord) /\ DOMAIN r = 1 .. c /\ \A i \in 1 .. c : r[i].data = v
    <3>1. [data |-> v, control |-> e.control] \in OutWord
      BY PlainIs DEF Element, OutWord
    <3>2. r \in [1 .. c -> OutWord] /\ \A i \in 1 .. c : r[i].data = v
      BY <2>3, <2>4, <3>1 DEF RunOf
    <3> QED
      BY <2>3, <3>2
  <2>6. <<>> \o r = r
    BY <2>5
  <2>7. Heard(one, q) = [k \in 1 .. c |-> v]
    BY <2>2, <2>4, <2>5, <2>6 DEF Heard, Data
  <2> QED
    BY <1>5, <1>7, <2>1, <2>2, <2>3, <2>7 DEF one
<1> QED
  BY <1>6, <1>7
-----------------------------------------------------------------------------
(***************************************************************************)
(* The terminator ends a list.                                             *)
(***************************************************************************)
LEMMA FrontIs ==
  ASSUME NEW S, NEW s \in Seq(S), s # <<>>
  PROVE  /\ Front(s) \in Seq(S) /\ Len(Front(s)) = Len(s) - 1 /\ Len(s) \in Nat \ {0}
         /\ \A i \in 1 .. (Len(s) - 1) : Front(s)[i] = s[i]
<1>1. Len(s) \in Nat \ {0} /\ \A i \in 1 .. (Len(s) - 1) : s[i] \in S
  OBVIOUS
<1>2. PICK n \in Nat : n = Len(s) - 1
  <2>1. Len(s) - 1 \in Nat
    BY <1>1
  <2> QED
    BY <2>1
<1>3. /\ SubSeq(s, 1, n) \in Seq(S) /\ Len(SubSeq(s, 1, n)) = n
      /\ \A i \in 1 .. n : SubSeq(s, 1, n)[i] = s[i]
  BY <1>1, <1>2
<1> QED
  BY <1>1, <1>2, <1>3 DEF Front

\* The front of a concatenation.
LEMMA FrontConcat ==
  ASSUME NEW S, NEW s \in Seq(S), NEW t \in Seq(S), t # <<>>
  PROVE  Front(s \o t) = s \o Front(t) /\ Front(t) \in Seq(S)
<1>1. /\ Len(t) \in Nat \ {0} /\ Len(s) \in Nat
  OBVIOUS
<1>2. PICK u \in Seq(S) : /\ u = s \o t /\ Len(u) = Len(s) + Len(t) /\ u # <<>>
                          /\ \A i \in 1 .. Len(s) : u[i] = s[i]
                          /\ \A i \in 1 .. Len(t) : u[Len(s) + i] = t[i]
  <2>1. s \o t \in Seq(S) /\ Len(s \o t) = Len(s) + Len(t)
    OBVIOUS
  <2>2. s \o t # <<>>
    BY <1>1, <2>1
  <2>3. /\ \A i \in 1 .. Len(s) : (s \o t)[i] = s[i]
        /\ \A i \in 1 .. Len(t) : (s \o t)[Len(s) + i] = t[i]
    OBVIOUS
  <2> QED
    BY <2>1, <2>2, <2>3
<1>3. PICK f \in Seq(S) : f = Front(t) /\ Len(f) = Len(t) - 1 /\ \A i \in 1 .. (Len(t) - 1) : f[i] = t[i]
  BY FrontIs
<1>4. PICK g \in Seq(S) : g = Front(u) /\ Len(g) = Len(u) - 1 /\ \A i \in 1 .. (Len(u) - 1) : g[i] = u[i]
  <2>1. u # <<>>
    BY <1>2
  <2> QED
    BY <2>1, FrontIs
<1>5. PICK h \in Seq(S) : /\ h = s \o f /\ Len(h) = Len(s) + Len(f)
                          /\ \A i \in 1 .. Len(s) : h[i] = s[i]
                          /\ \A i \in 1 .. Len(f) : h[Len(s) + i] = f[i]
  <2>1. s \o f \in Seq(S) /\ Len(s \o f) = Len(s) + Len(f)
    OBVIOUS
  <2>2. /\ \A i \in 1 .. Len(s) : (s \o f)[i] = s[i]
        /\ \A i \in 1 .. Len(f) : (s \o f)[Len(s) + i] = f[i]
    OBVIOUS
  <2> QED
    BY <2>1, <2>2
<1>6. ASSUME NEW i \in 1 .. Len(g) PROVE g[i] = h[i]
  <2>1. i \in Nat /\ i \in 1 .. (Len(u) - 1) /\ g[i] = u[i]
    BY <1>1, <1>2, <1>4
  <2>2. CASE i <= Len(s)
    BY <1>1, <1>2, <1>5, <2>1, <2>2
  <2>3. CASE i > Len(s)
    <3>1. PICK j \in 1 .. (Len(t) - 1) : i = Len(s) + j
      <4>1. i - Len(s) \in 1 .. (Len(t) - 1) /\ i = Len(s) + (i - Len(s))
        BY <1>1, <1>2, <2>1, <2>3
      <4> QED
        BY <4>1
    <3>2. u[Len(s) + j] = t[j] /\ f[j] = t[j] /\ h[Len(s) + j] = f[j]
      <4>1. j \in 1 .. Len(t) /\ j \in 1 .. Len(f)
        BY <1>1, <1>3
      <4> QED
        BY <1>2, <1>3, <1>5, <4>1
    <3> QED
      BY <2>1, <3>1, <3>2
  <2> QED
    BY <1>1, <2>1, <2>2, <2>3
<1>7. g = h
  <2>1. Len(g) = Len(h)
    BY <1>1, <1>2, <1>3, <1>4, <1>5
  <2> QED
    BY <1>6, <2>1, SeqEqual
<1> QED
  BY <1>2, <1>3, <1>4, <1>5, <1>7

\* A sequence that ends in its first terminator, after its first element.
LEMMA EndsFirst ==
  ASSUME NEW e \in PlainElement, NEW t \in Seq(PlainElement), FinalEnds(<<e>> \o t)
  PROVE  /\ is_final(e) => t = <<>>
         /\ ~is_final(e) => t # <<>> /\ FinalEnds(t)
<1> DEFINE u == <<e>> \o t
<1>1. /\ Len(t) \in Nat /\ Len(u) = Len(t) + 1 /\ u[1] = e /\ DOMAIN u = 1 .. Len(u)
      /\ \A i \in 1 .. Len(t) : u[i + 1] = t[i]
  OBVIOUS
<1>2. \A i \in 1 .. Len(u) : is_final(u[i]) <=> i = Len(u)
  BY <1>1 DEF FinalEnds
<1> HIDE DEF u
<1>3. is_final(e) <=> Len(t) = 0
  <2>1. 1 \in 1 .. Len(u) /\ (1 = Len(u) <=> Len(t) = 0)
    BY <1>1
  <2>2. is_final(u[1]) <=> 1 = Len(u)
    BY <1>2, <2>1
  <2> QED
    BY <1>1, <2>1, <2>2
<1>4. \A i \in 1 .. Len(t) : is_final(t[i]) <=> i = Len(t)
  <2> TAKE i \in 1 .. Len(t)
  <2>1. i + 1 \in 1 .. Len(u) /\ u[i + 1] = t[i]
    BY <1>1
  <2>2. is_final(u[i + 1]) <=> i + 1 = Len(u)
    BY <1>2, <2>1
  <2> QED
    BY <1>1, <2>1, <2>2
<1> QED
  BY <1>1, <1>3, <1>4 DEF FinalEnds

\* An element taken out of the middle leaves the terminator at the end.
LEMMA EndsDrop ==
  ASSUME NEW s \in Seq(PlainElement), NEW e \in PlainElement, NEW t \in Seq(PlainElement),
         FinalEnds(s \o (<<e>> \o t)), ~is_final(e)
  PROVE  t # <<>> /\ FinalEnds(s \o t)
<1> DEFINE u == s \o (<<e>> \o t)
           w == s \o t
<1>1. /\ Len(s) \in Nat /\ Len(t) \in Nat /\ Len(u) = Len(s) + Len(t) + 1 /\ Len(w) = Len(s) + Len(t)
      /\ DOMAIN u = 1 .. Len(u) /\ DOMAIN w = 1 .. Len(w)
      /\ u[Len(s) + 1] = e
      /\ \A i \in 1 .. Len(s) : u[i] = s[i] /\ w[i] = s[i]
      /\ \A i \in 1 .. Len(t) : u[Len(s) + 1 + i] = t[i] /\ w[Len(s) + i] = t[i]
  OBVIOUS
<1>2. \A i \in 1 .. Len(u) : is_final(u[i]) <=> i = Len(u)
  BY <1>1 DEF FinalEnds
<1> HIDE DEF u, w
<1>3. Len(t) # 0
  BY <1>1, <1>2
<1>4. ASSUME NEW i \in 1 .. Len(w) PROVE is_final(w[i]) <=> i = Len(w)
  <2>1. CASE i <= Len(s)
    <3>1. i \in 1 .. Len(s) /\ i \in 1 .. Len(u) /\ i # Len(u) /\ i # Len(w)
      BY <1>1, <1>3, <2>1
    <3> QED
      BY <1>1, <1>2, <3>1
  <2>2. CASE i > Len(s)
    <3>1. PICK j \in 1 .. Len(t) : i = Len(s) + j
      <4>1. i - Len(s) \in 1 .. Len(t) /\ i = Len(s) + (i - Len(s))
        BY <1>1, <2>2
      <4> QED
        BY <4>1
    <3>2. Len(s) + 1 + j \in 1 .. Len(u) /\ (Len(s) + 1 + j = Len(u) <=> i = Len(w))
      <4>1. PICK k \in Nat, l \in Nat : k = Len(s) /\ l = Len(t) /\ Len(u) = k + l + 1 /\ Len(w) = k + l
        BY <1>1
      <4>2. j \in 1 .. l /\ i = k + j
        BY <3>1, <4>1
      <4> QED
        BY <4>1, <4>2, SMTT(60)
    <3>3. u[Len(s) + 1 + j] = w[i]
      BY <1>1, <3>1
    <3> QED
      BY <1>2, <3>2, <3>3
  <2> QED
    BY <1>1, <2>1, <2>2
<1> QED
  BY <1>1, <1>3, <1>4 DEF FinalEnds, w
-----------------------------------------------------------------------------
(***************************************************************************)
(* What is asked for is what was played and what is still ahead: in the    *)
(* output FIFO, in the transport and with the host.                        *)
(***************************************************************************)
Ahead == st.ready \o st.fifo \o to_send
Promise ==
  IF st.terminal THEN Ahead = <<>> /\ want = played
  ELSE FinalEnds(Ahead) /\ want = played \o Heard(Front(Ahead), st.qout)
ReadyPlays == \A i \in DOMAIN st.ready : Plays(st.ready[i])

\* Concatenation of sequences of elements is associative.
LEMMA PlainAssociative ==
  \A x, y, z \in Seq(PlainElement) : (x \o y) \o z = x \o (y \o z)
<1> TAKE x \in Seq(PlainElement), y \in Seq(PlainElement), z \in Seq(PlainElement)
<1> QED
  OBVIOUS

\* Concatenation of sequences of words is associative.
LEMMA WordsAssociative ==
  \A x, y, z \in Seq(Word) : (x \o y) \o z = x \o (y \o z)
<1> TAKE x \in Seq(Word), y \in Seq(Word), z \in Seq(Word)
<1> QED
  OBVIOUS

\* An element sent moves from the host to the transport.
LEMMA SendMoves ==
  ASSUME FlowTypes, Transmit
  PROVE  Ahead' = Ahead /\ st'.ready = st.ready /\ st'.terminal = st.terminal /\ st'.qout = st.qout
<1>1. st \in StreamerStates /\ st.ready \in Seq(PlainElement) /\ st.fifo \in Seq(PlainElement)
      /\ to_send \in Seq(PlainElement) /\ to_send # <<>>
  BY DEF FlowTypes, StreamerStates, Transmit
<1>2. /\ st' = [st EXCEPT !.fifo = Append(st.fifo, Head(to_send))] /\ to_send' = Tail(to_send)
  BY <1>1 DEF Transmit, Rest, StreamerStates
<1>3. /\ st'.ready = st.ready /\ st'.fifo = Append(st.fifo, Head(to_send))
      /\ st'.terminal = st.terminal /\ st'.qout = st.qout
  BY <1>1, <1>2 DEF StreamerStates
<1>4. Ahead' = Ahead
  <2>1. PICK r \in Seq(PlainElement), f \in Seq(PlainElement), s \in Seq(PlainElement) :
          r = st.ready /\ f = st.fifo /\ s = to_send /\ s # <<>>
    BY <1>1
  <2>2. PICK h \in PlainElement, t \in Seq(PlainElement), one \in Seq(PlainElement) :
          h = Head(s) /\ t = Tail(s) /\ one = <<h>> /\ s = one \o t
    <3>1. Head(s) \in PlainElement /\ Tail(s) \in Seq(PlainElement) /\ s = <<Head(s)>> \o Tail(s)
      BY <2>1
    <3>2. <<Head(s)>> \in Seq(PlainElement)
      BY <3>1
    <3> QED
      BY <3>1, <3>2, ZenonT(60)
  <2>3. Append(f, h) = f \o one
    BY <2>2
  <2>4. (r \o (f \o one)) \o t = (r \o f) \o (one \o t)
    <3>1. r \o (f \o one) = (r \o f) \o one /\ r \o f \in Seq(PlainElement)
      BY SMTT(60)
    <3>2. PICK x \in Seq(PlainElement) : x = r \o f
      BY <3>1
    <3>3. (x \o one) \o t = x \o (one \o t)
      BY SMTT(60)
    <3> QED
      BY <3>1, <3>2, <3>3
  <2> QED
    BY <1>2, <1>3, <2>1, <2>2, <2>3, <2>4, ZenonT(60) DEF Ahead
<1> QED
  BY <1>3, <1>4

\* An element decoded moves on or, when it is for the trigger or empty, is dropped.
LEMMA DecodeMoves ==
  ASSUME FlowTypes, Decode, to_send' = to_send
  PROVE  \E r \in Seq(PlainElement) : \E h \in PlainElement : \E t \in Seq(PlainElement) :
           /\ r = st.ready /\ st'.ready = IF Plays(h) THEN Append(r, h) ELSE r
           /\ Ahead = r \o (<<h>> \o t) /\ Ahead' = IF Plays(h) THEN Ahead ELSE r \o t
           /\ st'.terminal = st.terminal /\ st'.qout = st.qout /\ played' = played
<1>1. st \in StreamerStates /\ st.ready \in Seq(PlainElement) /\ st.fifo \in Seq(PlainElement)
      /\ to_send \in Seq(PlainElement) /\ st.fifo # <<>> /\ st.qout \in Word /\ played' = played
  BY DEF FlowTypes, StreamerStates, Decode
<1>2. PICK r \in Seq(PlainElement), f \in Seq(PlainElement), s \in Seq(PlainElement), q \in Word :
        r = st.ready /\ f = st.fifo /\ s = to_send /\ f # <<>> /\ q = st.qout
  BY <1>1, SMTT(60)
<1>3. PICK h \in PlainElement, g \in Seq(PlainElement), c \in Seq(PlainElement) :
        h = Head(f) /\ g = Tail(f) /\ c = <<h>> /\ f = c \o g
  <2>1. Head(f) \in PlainElement /\ Tail(f) \in Seq(PlainElement) /\ f = <<Head(f)>> \o Tail(f)
    BY <1>2
  <2>2. <<Head(f)>> \in Seq(PlainElement)
    BY <2>1
  <2> QED
    BY <2>1, <2>2, ZenonT(60)
<1>12. PICK t \in Seq(PlainElement) : t = g \o s
  <2>1. g \o s \in Seq(PlainElement)
    OBVIOUS
  <2> QED
    BY <2>1
<1>4. /\ (r \o f) \o s = r \o (<<h>> \o t) /\ (r \o Tail(f)) \o s = r \o t
      /\ (Append(r, h) \o Tail(f)) \o s = (r \o f) \o s
  <2>1. (r \o f) \o s = r \o (f \o s)
    BY PlainAssociative, SMTT(60)
  <2>2. (r \o g) \o s = r \o (g \o s)
    BY PlainAssociative, SMTT(60)
  <2>3. (c \o g) \o s = c \o (g \o s)
    BY PlainAssociative, SMTT(60)
  <2>4. (r \o c) \o g = r \o (c \o g)
    BY PlainAssociative, SMTT(60)
  <2>5. Append(r, h) = r \o c
    BY <1>3
  <2> QED
    BY <1>3, <1>12, <2>1, <2>2, <2>3, <2>4, <2>5
<1>5. /\ st'.fifo = Tail(f) /\ st'.ready = IF Plays(h) THEN Append(r, h) ELSE r
      /\ st'.terminal = st.terminal /\ st'.qout = q
  BY <1>1, <1>2, <1>3 DEF Decode, Plays, StreamerStates
<1>7. Ahead = r \o (<<h>> \o t)
  BY <1>2, <1>4 DEF Ahead
<1>8. Ahead' = IF Plays(h) THEN Ahead ELSE r \o t
  BY <1>2, <1>4, <1>5, <1>7 DEF Ahead
<1>9. /\ r = st.ready /\ st'.ready = IF Plays(h) THEN Append(r, h) ELSE r
      /\ Ahead = r \o (<<h>> \o t) /\ Ahead' = IF Plays(h) THEN Ahead ELSE r \o t
      /\ st'.terminal = st.terminal /\ st'.qout = st.qout /\ played' = played
  BY <1>1, <1>2, <1>5, <1>7, <1>8, Zenon
<1> QED
  BY <1>9, Zenon

\* An element played is the first of those ahead.
LEMMA PlayMoves ==
  ASSUME FlowTypes, ReadyPlays, PlayElement, to_send' = to_send
  PROVE  \E h \in PlainElement : \E t \in Seq(PlainElement) :
           /\ Plays(h) /\ Ahead = <<h>> \o t /\ Ahead' = t /\ ReadyPlays'
           /\ st'.qout = updated_value(h, st.qout)
           /\ \/ is_final(h) /\ st'.terminal = TRUE /\ played' = played
              \/ /\ ~is_final(h) /\ st'.terminal = st.terminal
                 /\ played' = played \o [k \in 1 .. h.cnt |-> updated_value(h, st.qout)]
<1>1. st \in StreamerStates /\ st.ready \in Seq(PlainElement) /\ st.fifo \in Seq(PlainElement)
      /\ to_send \in Seq(PlainElement) /\ st.ready # <<>> /\ st.qout \in Word
  BY DEF FlowTypes, StreamerStates, PlayElement
<1>2. PICK r \in Seq(PlainElement), f \in Seq(PlainElement), s \in Seq(PlainElement), q \in Word :
        r = st.ready /\ f = st.fifo /\ s = to_send /\ r # <<>> /\ q = st.qout
  BY <1>1, SMTT(60)
<1>3. PICK h \in PlainElement, r2 \in Seq(PlainElement), one \in Seq(PlainElement) :
        h = Head(r) /\ r2 = Tail(r) /\ one = <<h>> /\ r = one \o r2
  <2>1. Head(r) \in PlainElement /\ Tail(r) \in Seq(PlainElement) /\ r = <<Head(r)>> \o Tail(r)
    BY <1>2
  <2>2. <<Head(r)>> \in Seq(PlainElement)
    BY <2>1
  <2> QED
    BY <2>1, <2>2, ZenonT(60)
<1>4. PICK t \in Seq(PlainElement) : t = (r2 \o f) \o s /\ (r \o f) \o s = one \o t
  <2>1. (one \o r2) \o f = one \o (r2 \o f) /\ r2 \o f \in Seq(PlainElement)
    OBVIOUS
  <2>2. PICK x \in Seq(PlainElement) : x = r2 \o f
    BY <2>1
  <2>3. (one \o x) \o s = one \o (x \o s) /\ x \o s \in Seq(PlainElement)
    BY SMTT(60)
  <2> QED
    BY <1>3, <2>1, <2>2, <2>3
<1>5. PICK v \in Word : v = updated_value(h, q)
  BY PlainIs, OperationsAgree
<1>6. /\ st'.fifo = f /\ st'.ready = r2 /\ st'.qout = v
      /\ \/ is_final(h) /\ st'.terminal = TRUE /\ played' = played
         \/ /\ ~is_final(h) /\ st'.terminal = st.terminal
            /\ played' = played \o [k \in 1 .. h.cnt |-> v]
  BY <1>1, <1>2, <1>3, <1>5 DEF PlayElement, StreamerStates
<1>7. ReadyPlays' /\ Plays(h)
  <2>1. /\ DOMAIN r = 1 .. Len(r) /\ DOMAIN r2 = 1 .. Len(r2) /\ r[1] = h /\ 1 \in 1 .. Len(r)
        /\ \A i \in 1 .. Len(r2) : r2[i] = r[i + 1] /\ i + 1 \in 1 .. Len(r)
    BY <1>2, <1>3
  <2>2. \A i \in 1 .. Len(r) : Plays(r[i])
    BY <1>2, <2>1 DEF ReadyPlays
  <2>3. \A i \in 1 .. Len(r2) : Plays(r2[i])
    BY <2>1, <2>2
  <2> QED
    BY <1>6, <2>1, <2>2, <2>3 DEF ReadyPlays
<1>8. Ahead = one \o t /\ Ahead' = t
  BY <1>2, <1>4, <1>6 DEF Ahead
<1> QED
  BY <1>2, <1>3, <1>5, <1>6, <1>7, <1>8

\* What was promised stays promised when an element is sent.
LEMMA SendKeeps ==
  ASSUME FlowTypes, Promise, ReadyPlays, Transmit
  PROVE  Promise' /\ ReadyPlays'
<1>1. want' = want /\ played' = played
  BY DEF Transmit, Rest
<1> QED
  BY <1>1, SendMoves DEF Promise, ReadyPlays

\* An element decoded moves on or, when it is for the trigger or empty, was
\* never heard.
LEMMA DecodeKeeps ==
  ASSUME FlowTypes, Promise, ReadyPlays, Decode, to_send' = to_send, want' = want
  PROVE  Promise' /\ ReadyPlays'
<1>1. \E r \in Seq(PlainElement) : \E h \in PlainElement : \E t \in Seq(PlainElement) :
        /\ r = st.ready /\ st'.ready = IF Plays(h) THEN Append(r, h) ELSE r
        /\ Ahead = r \o (<<h>> \o t) /\ Ahead' = IF Plays(h) THEN Ahead ELSE r \o t
        /\ st'.terminal = st.terminal /\ st'.qout = st.qout /\ played' = played
  BY DecodeMoves, Zenon
<1>2. PICK r \in Seq(PlainElement), h \in PlainElement, t \in Seq(PlainElement) :
        /\ r = st.ready /\ st'.ready = IF Plays(h) THEN Append(r, h) ELSE r
        /\ Ahead = r \o (<<h>> \o t) /\ Ahead' = IF Plays(h) THEN Ahead ELSE r \o t
        /\ st'.terminal = st.terminal /\ st'.qout = st.qout /\ played' = played
  BY <1>1, Zenon
<1>3. PICK q \in Word : q = st.qout
  BY DEF FlowTypes, StreamerStates
<1>6. ReadyPlays'
  <2>1. CASE Plays(h)
    <3>1. /\ Append(r, h) \in Seq(PlainElement) /\ Len(Append(r, h)) = Len(r) + 1
          /\ \A i \in 1 .. (Len(r) + 1) : Append(r, h)[i] = IF i <= Len(r) THEN r[i] ELSE h
      OBVIOUS
    <3>2. \A i \in 1 .. Len(r) : Plays(r[i])
      BY <1>2 DEF ReadyPlays
    <3>3. \A i \in 1 .. (Len(r) + 1) : Plays(Append(r, h)[i])
      BY <2>1, <3>1, <3>2
    <3>4. DOMAIN Append(r, h) = 1 .. (Len(r) + 1)
      BY <3>1
    <3> QED
      BY <1>2, <2>1, <3>3, <3>4 DEF ReadyPlays
  <2>2. CASE ~Plays(h)
    BY <1>2, <2>2 DEF ReadyPlays
  <2> QED
    BY <2>1, <2>2
<1>8. ~st.terminal
  <2>1. r \o (<<h>> \o t) # <<>>
    OBVIOUS
  <2> QED
    BY <1>2, <2>1 DEF Promise
<1>9. FinalEnds(Ahead) /\ want = played \o Heard(Front(Ahead), q)
  BY <1>3, <1>8 DEF Promise
<1>10. CASE Plays(h)
  BY <1>2, <1>3, <1>6, <1>10 DEF Promise
<1>11. CASE ~Plays(h)
  <2>1. Ahead' = r \o t
    BY <1>2, <1>11
  <2>2. ~is_final(h)
    <3>1. is_final(h) => ~is_trigger(h) /\ h.cnt = 1
      BY PlainIs DEF is_final, is_trigger
    <3> QED
      BY <1>11, <3>1 DEF Plays
  <2>3. t # <<>> /\ FinalEnds(r \o t)
    BY <1>2, <1>9, <2>2, EndsDrop
  <2>4. PICK one \in Seq(PlainElement), u \in Seq(PlainElement) : one = <<h>> /\ u = one \o t /\ u # <<>>
    <3>1. <<h>> \in Seq(PlainElement) /\ <<h>> \o t \in Seq(PlainElement) /\ <<h>> \o t # <<>>
      OBVIOUS
    <3> QED
      BY <3>1
  <2>5. Front(r \o u) = r \o Front(u) /\ Front(r \o t) = r \o Front(t)
    BY <2>3, <2>4, FrontConcat
  <2>6. Front(one \o t) = one \o Front(t) /\ Front(t) \in Seq(PlainElement)
    BY <2>3, FrontConcat
  <2>7. PICK w \in Seq(PlainElement) : w = Front(t)
    BY <2>6
  <2>8. one \o w \in Seq(PlainElement)
    OBVIOUS
  <2>9. EndsAt(r, q) \in Word /\ Heard(r \o w, q) = Heard(r, q) \o Heard(w, EndsAt(r, q))
    BY HeardConcat, ZenonT(60)
  <2>10. Heard(r \o (one \o w), q) = Heard(r, q) \o Heard(one \o w, EndsAt(r, q))
    BY <2>8, HeardConcat, ZenonT(60)
  <2>11. Heard(one \o w, EndsAt(r, q)) = Heard(w, EndsAt(r, q))
    BY <1>11, <2>4, <2>9, HeardOne
  <2>12. Heard(Front(Ahead), q) = Heard(Front(r \o t), q)
    BY <1>2, <2>4, <2>5, <2>6, <2>7, <2>9, <2>10, <2>11
  <2> QED
    BY <1>2, <1>3, <1>6, <1>8, <1>9, <2>1, <2>3, <2>12 DEF Promise
<1> QED
  BY <1>10, <1>11

\* An element played moves from what is promised to what was heard.
LEMMA PlayKeeps ==
  ASSUME FlowTypes, Promise, ReadyPlays, PlayElement, to_send' = to_send, want' = want
  PROVE  Promise' /\ ReadyPlays'
<1>1. ~st.terminal /\ st.qout \in Word /\ played \in Seq(Word)
  BY DEF FlowTypes, StreamerStates, PlayElement, trigger_activated
<1>2. PICK h \in PlainElement, t \in Seq(PlainElement) :
        /\ Plays(h) /\ Ahead = <<h>> \o t /\ Ahead' = t /\ ReadyPlays'
        /\ st'.qout = updated_value(h, st.qout)
        /\ \/ is_final(h) /\ st'.terminal = TRUE /\ played' = played
           \/ /\ ~is_final(h) /\ st'.terminal = st.terminal
              /\ played' = played \o [k \in 1 .. h.cnt |-> updated_value(h, st.qout)]
  BY PlayMoves, Zenon
<1>3. PICK one \in Seq(PlainElement), q \in Word : one = <<h>> /\ q = st.qout
  <2>1. <<h>> \in Seq(PlainElement)
    OBVIOUS
  <2> QED
    BY <1>1, <2>1
<1>5. PICK v \in Word : v = updated_value(h, q)
  BY PlainIs, OperationsAgree
<1>6. /\ st'.qout = v
      /\ \/ is_final(h) /\ st'.terminal = TRUE /\ played' = played
         \/ /\ ~is_final(h) /\ st'.terminal = st.terminal
            /\ played' = played \o [k \in 1 .. h.cnt |-> v]
  BY <1>2, <1>3, <1>5
<1>9. FinalEnds(one \o t) /\ want = played \o Heard(Front(one \o t), q)
  BY <1>1, <1>2, <1>3 DEF Promise
<1>10. CASE is_final(h)
  <2>1. t = <<>>
    BY <1>3, <1>9, <1>10, EndsFirst
  <2>2. Front(one \o t) = <<>>
    <3>1. one \o t = one /\ Len(one) = 1
      BY <1>3, <2>1
    <3> QED
      BY <3>1 DEF Front
  <2>3. played \o <<>> = played
    BY <1>1
  <2> QED
    BY <1>1, <1>2, <1>6, <1>9, <1>10, <2>1, <2>2, <2>3, HeardNone DEF Promise
<1>11. CASE ~is_final(h)
  <2>1. t # <<>> /\ FinalEnds(t)
    BY <1>3, <1>9, <1>11, EndsFirst
  <2>2. Front(one \o t) = one \o Front(t) /\ Front(t) \in Seq(PlainElement)
    BY <2>1, FrontConcat
  <2>3. PICK w \in Seq(PlainElement) : w = Front(t)
    BY <2>2
  <2>4. Heard(one \o w, q) = [k \in 1 .. h.cnt |-> v] \o Heard(w, v)
    <3>1. Heard(<<h>> \o w, q)
            = [k \in 1 .. h.cnt |-> updated_value(h, q)] \o Heard(w, updated_value(h, q))
      BY <1>2, HeardOne
    <3> QED
      BY <1>3, <1>5, <3>1
  <2>5. PICK x \in Seq(Word), y \in Seq(Word), z \in Seq(Word) :
          x = played /\ y = [k \in 1 .. h.cnt |-> v] /\ z = Heard(w, v)
    <3>1. PICK c \in Nat : c = h.cnt
      BY PlainIs
    <3>2. [k \in 1 .. c |-> v] \in Seq(Word)
      OBVIOUS
    <3>3. Heard(w, v) \in Seq(Word)
      BY HeardConcat
    <3> QED
      BY <1>1, <3>1, <3>2, <3>3
  <2>6. (x \o y) \o z = x \o (y \o z)
    BY WordsAssociative, Zenon
  <2>7. want = played' \o Heard(Front(t), v)
    BY <1>6, <1>9, <1>11, <2>2, <2>3, <2>4, <2>5, <2>6
  <2> QED
    BY <1>1, <1>2, <1>6, <1>11, <2>1, <2>7 DEF Promise
<1> QED
  BY <1>10, <1>11

\* Every step of the streamer keeps the promise.
LEMMA PromiseKept ==
  ASSUME FlowTypes, Promise, ReadyPlays, StreamerNext, to_send' = to_send, want' = want
  PROVE  Promise' /\ ReadyPlays'
<1>1. st \in StreamerStates
  BY DEF FlowTypes
<1>2. CASE Triggers \/ Underrun
  <2>1. played' = played /\ (st' = [st EXCEPT !.triggered = TRUE] \/ st' = [st EXCEPT !.buffer_error = TRUE])
    BY <1>2 DEF Triggers, Underrun
  <2>2. st'.ready = st.ready /\ st'.fifo = st.fifo /\ st'.terminal = st.terminal /\ st'.qout = st.qout
    BY <1>1, <2>1 DEF StreamerStates
  <2> QED
    BY <2>1, <2>2 DEF Promise, ReadyPlays, Ahead
<1> QED
  BY <1>2, DecodeKeeps, PlayKeeps DEF StreamerNext
-----------------------------------------------------------------------------
(***************************************************************************)
(* The reference of the check.  Turning values, merging neighbours and     *)
(* dropping empty elements keep the terminator at the end: nothing that    *)
(* encodes pulses is behind it.                                            *)
(***************************************************************************)
FinalLast(s) == \A i \in DOMAIN s : is_final(s[i]) => i = Len(s)
NoPulses(s) == \A k \in DOMAIN s : ~encodes_pulses(s[k])
\* Elements whatever their values and counts.
Loose(V, C) == [control : SUBSET ControlBits, mode : BitOps, pos : Positions, cnt : C, val : V]

\* A list of elements of a set, element by element.
LEMMA IsSeq ==
  ASSUME NEW S, NEW n \in Nat, NEW s, s = [k \in 1 .. n |-> s[k]],
         \A k \in 1 .. n : s[k] \in S
  PROVE  s \in Seq(S)
<1>1. [k \in 1 .. n |-> s[k]] \in [1 .. n -> S]
  OBVIOUS
<1>2. \A f \in [1 .. n -> S] : f \in Seq(S)
  OBVIOUS
<1> QED
  BY <1>1, <1>2

\* Elements dropped from a list leave its terminator the last.
LEMMA FlattenFinalLast ==
  ASSUME NEW S, NEW t \in Seq(Seq(S)),
         \A i \in 1 .. Len(t) : Len(t[i]) <= 1,
         \A i \in 1 .. (Len(t) - 1) : \A k \in 1 .. Len(t[i]) : ~is_final(t[i][k])
  PROVE  FlattenSeq(t) \in Seq(S) /\ FinalLast(FlattenSeq(t))
<1>1. FlattenSeq(t) \in Seq(S)
  BY FlattenType
<1>2. CASE t = <<>>
  <2>1. FlattenSeq(t) = <<>> /\ DOMAIN <<>> = {}
    BY <1>2, FlattenEmpty
  <2> QED
    BY <1>1, <2>1 DEF FinalLast
<1>3. CASE t # <<>>
  <2> DEFINE NF == {x \in S : ~is_final(x)}
  <2>1. PICK f \in Seq(Seq(S)), l \in Seq(S) :
          /\ f = Front(t) /\ l = t[Len(t)] /\ Len(f) = Len(t) - 1 /\ Len(t) \in Nat \ {0}
          /\ \A i \in 1 .. (Len(t) - 1) : f[i] = t[i]
    <3>1. Len(t) \in Nat \ {0}
      BY <1>3
    <3>2. t[Len(t)] \in Seq(S)
      BY <3>1
    <3> QED
      BY <1>3, <3>1, <3>2, FrontIs
  <2>2. t = Append(f, l)
    <3>1. Append(f, l) \in Seq(Seq(S)) /\ Len(Append(f, l)) = Len(t)
      BY <2>1
    <3>2. ASSUME NEW i \in 1 .. Len(t) PROVE t[i] = Append(f, l)[i]
      <4>1. CASE i = Len(t)
        BY <2>1, <4>1
      <4>2. CASE i # Len(t)
        <5>1. i \in 1 .. Len(f) /\ i \in 1 .. (Len(t) - 1) /\ Len(f) \in Nat
          BY <2>1, <4>2
        <5>2. Append(f, l)[i] = f[i]
          BY <2>1, <5>1
        <5> QED
          BY <2>1, <5>1, <5>2
      <4> QED
        BY <4>1, <4>2
    <3> QED
      BY <3>1, <3>2, SeqEqual
  <2>3. FlattenSeq(t) = FlattenSeq(f) \o l
    BY <2>2, FlattenAppend
  <2>4. f \in Seq(Seq(NF))
    <3>1. ASSUME NEW i \in 1 .. Len(f) PROVE f[i] \in Seq(NF)
      <4>1. f[i] \in Seq(S) /\ i \in 1 .. (Len(t) - 1) /\ f[i] = t[i]
        BY <2>1, SMTT(60)
      <4>2. \A k \in 1 .. Len(t[i]) : ~is_final(t[i][k])
        BY <4>1
      <4>3. PICK g \in Seq(S) : g = f[i]
        BY <4>1
      <4>4. /\ Len(g) \in Nat /\ g = [k \in 1 .. Len(g) |-> g[k]]
            /\ \A k \in 1 .. Len(g) : g[k] \in NF
        BY <4>1, <4>2, <4>3, SMTT(60)
      <4> HIDE DEF NF
      <4>5. g \in Seq(NF)
        BY <4>4, IsSeq
      <4> QED
        BY <4>3, <4>5
    <3>2. Len(f) \in Nat /\ f = [i \in 1 .. Len(f) |-> f[i]]
      BY <2>1
    <3> HIDE DEF NF
    <3> QED
      BY <3>1, <3>2, IsSeq
  <2>5. FlattenSeq(f) \in Seq(NF)
    <3> HIDE DEF NF
    <3> QED
      BY <2>4, FlattenType
  <2>6. PICK g \in Seq(NF) : g = FlattenSeq(f)
    BY <2>5
  <2>7. \A i \in 1 .. Len(g) : g[i] \in S /\ ~is_final(g[i])
    OBVIOUS
  <2>8. g \in Seq(S) /\ Len(g) \in Nat /\ Len(l) \in Nat /\ Len(l) <= 1
    BY <2>1, <2>7
  <2>9. Len(g \o l) = Len(g) + Len(l) /\ DOMAIN (g \o l) = 1 .. (Len(g) + Len(l))
        /\ \A i \in 1 .. Len(g) : (g \o l)[i] = g[i]
    BY <2>8
  <2> HIDE DEF NF
  <2>10. ASSUME NEW i \in 1 .. (Len(g) + Len(l)), is_final((g \o l)[i])
         PROVE  i = Len(g) + Len(l)
    <3>1. ~(i \in 1 .. Len(g))
      BY <2>7, <2>9, <2>10
    <3>2. i \in Nat /\ 1 <= i /\ i <= Len(g) + Len(l)
      BY <2>8
    <3>3. ~(i <= Len(g))
      BY <2>8, <3>1, <3>2
    <3>4. \A a, b, m \in Nat : b <= 1 /\ m <= a + b /\ ~(m <= a) => m = a + b
      OBVIOUS
    <3> QED
      BY <2>8, <3>2, <3>3, <3>4
  <2> QED
    BY <1>1, <2>3, <2>6, <2>9, <2>10 DEF FinalLast
<1> QED
  BY <1>2, <1>3

\* drop_count0 leaves the terminator the last.
LEMMA DropIs ==
  ASSUME NEW S, NEW s \in Seq(S), FinalLast(s)
  PROVE  drop_count0(s) \in Seq(S) /\ FinalLast(drop_count0(s))
<1> DEFINE t == [i \in DOMAIN s |-> IF s[i].cnt # 0 THEN <<s[i]>> ELSE <<>>]
<1>1. /\ DOMAIN s = 1 .. Len(s) /\ Len(s) \in Nat
      /\ \A i \in 1 .. Len(s) : s[i] \in S /\ (is_final(s[i]) => i = Len(s))
  BY SMTT(60) DEF FinalLast
<1>2. \A i \in 1 .. Len(s) : t[i] = <<s[i]>> \/ t[i] = <<>>
  BY <1>1, ZenonT(60)
<1>3. DOMAIN t = 1 .. Len(s)
  BY <1>1, ZenonT(60)
<1>4. t = [i \in 1 .. Len(s) |-> t[i]]
  BY <1>1
<1>5. drop_count0(s) = FlattenSeq(t)
  BY DEF drop_count0
<1> HIDE DEF t
<1>6. \A i \in 1 .. Len(s) : t[i] \in Seq(S) /\ Len(t[i]) <= 1
                              /\ (i # Len(s) => \A k \in 1 .. Len(t[i]) : ~is_final(t[i][k]))
  <2> TAKE i \in 1 .. Len(s)
  <2>1. CASE t[i] = <<>>
    BY <2>1
  <2>2. CASE t[i] = <<s[i]>>
    <3>1. <<s[i]>> \in Seq(S) /\ Len(<<s[i]>>) = 1 /\ \A k \in 1 .. 1 : <<s[i]>>[k] = s[i]
      <4>1. s[i] \in S
        BY <1>1
      <4> QED
        BY <4>1, SMTT(60)
    <3> QED
      BY <1>1, <2>2, <3>1
  <2> QED
    BY <1>2, <2>1, <2>2
<1>7. t \in Seq(Seq(S)) /\ Len(t) = Len(s)
  BY <1>1, <1>4, <1>6
<1>8. /\ \A i \in 1 .. Len(t) : Len(t[i]) <= 1
      /\ \A i \in 1 .. (Len(t) - 1) : \A k \in 1 .. Len(t[i]) : ~is_final(t[i][k])
  <2>0. \A m \in Nat : \A i \in 1 .. (m - 1) : i \in 1 .. m /\ i # m
    OBVIOUS
  <2>1. \A i \in 1 .. (Len(t) - 1) : i \in 1 .. Len(s) /\ i # Len(s)
    BY <1>1, <1>7, <2>0, ZenonT(60)
  <2> QED
    BY <1>6, <1>7, <2>1, ZenonT(60)
<1> QED
  BY <1>5, <1>7, <1>8, FlattenFinalLast

\* What one step of merge does, when it is no error.
LEMMA MergeStepIs ==
  ASSUME NEW V, NEW m \in Seq(Loose(V, Nat)), NEW e \in Loose(V, Nat), m # Error,
         MergeStep(m, e) # Error
  PROVE  /\ MergeStep(m, e) \in Seq(Loose(V, Nat))
         /\ m = <<>> \/ ~MergesWith(Last(m), e) => MergeStep(m, e) = Append(m, e)
         /\ m # <<>> /\ MergesWith(Last(m), e)
              => MergeStep(m, e) = Append(Front(m), with_count(Last(m), Last(m).cnt + e.cnt))
<1>1. CASE m = <<>> \/ ~MergesWith(Last(m), e)
  <2>1. MergeStep(m, e) = Append(m, e)
    BY <1>1 DEF MergeStep
  <2> QED
    BY <1>1, <2>1
<1>2. CASE m # <<>> /\ MergesWith(Last(m), e)
  <2>1. PICK l \in Loose(V, Nat), f \in Seq(Loose(V, Nat)) : l = Last(m) /\ f = Front(m)
    <3>1. Front(m) \in Seq(Loose(V, Nat))
      BY <1>2, FrontIs
    <3>2. Last(m) \in Loose(V, Nat)
      BY <1>2 DEF Last
    <3> QED
      BY <3>1, <3>2
  <2>2. PICK k \in Nat : k = l.cnt + e.cnt
    BY DEF Loose
  <2>3. /\ checked_count_sum(l.cnt, e.cnt) = k
        /\ MergeStep(m, e) = Append(f, with_count(l, k))
    BY <1>2, <2>1, <2>2 DEF MergeStep, checked_count_sum
  <2>4. with_count(l, k) \in Loose(V, Nat)
    BY DEF with_count, Loose
  <2> QED
    BY <1>2, <2>1, <2>2, <2>3, <2>4
<1> QED
  BY <1>1, <1>2

\* The table merge makes its way along: without an error at the end there is none
\* on the way.
LEMMA MergeTable ==
  ASSUME NEW V, NEW s \in Seq(Loose(V, Nat)), merge(s) # Error
  PROVE  \E m \in [0 .. Len(s) -> Seq(Loose(V, Nat))] :
           /\ m[0] = <<>> /\ merge(s) = m[Len(s)]
           /\ \A i \in 0 .. Len(s) : m[i] # Error
           /\ \A i \in 1 .. Len(s) : m[i] = MergeStep(m[i - 1], s[i])
<1> DEFINE n == Len(s)
           L == Loose(V, Nat)
           T == Seq(L) \cup {Error}
           step == [r \in T \X (1 .. n) |-> MergeStep(r[1], s[r[2]])]
           Body(f) == [i \in 0 .. n |-> IF i = 0 THEN <<>> ELSE MergeStep(f[i - 1], s[i])]
           t == CHOOSE f : f = Body(f)
<1>0. n \in Nat /\ \A i \in 1 .. n : s[i] \in L
  OBVIOUS
<1>1. <<>> \in T
  <2>1. <<>> \in Seq(L)
    OBVIOUS
  <2> QED
    BY <2>1
<1> HIDE DEF n
<1>2. step \in [T \X (1 .. n) -> T]
  <2>1. ASSUME NEW l \in T, NEW e \in L PROVE MergeStep(l, e) \in T
    <3>1. CASE MergeStep(l, e) = Error
      BY <3>1
    <3>2. CASE MergeStep(l, e) # Error
      <4>1. l # Error
        BY <3>2 DEF MergeStep
      <4> QED
        BY <2>1, <3>2, <4>1, MergeStepIs
    <3> QED
      BY <3>1, <3>2
  <2> HIDE DEF T, L
  <2>2. ASSUME NEW r \in T \X (1 .. n) PROVE MergeStep(r[1], s[r[2]]) \in T
    BY <1>0, <2>1
  <2> QED
    BY <2>2
<1> HIDE DEF T
<1>3. \A l \in T, i \in 1 .. n : step[<<l, i>>] = MergeStep(l, s[i])
  OBVIOUS
<1> HIDE DEF step
<1>4. PICK f \in [0 .. n -> T] : Table(f, <<>>, step, n)
  BY <1>0, <1>1, <1>2, TableExists
<1>5. f = Body(f)
  <2>1. ASSUME NEW i \in 0 .. n PROVE f[i] = Body(f)[i]
    <3>1. CASE i = 0
      BY <1>4, <3>1 DEF Table
    <3>2. CASE i # 0
      <4>1. i \in 1 .. n /\ i - 1 \in 0 .. n
        BY <1>0, <3>2
      <4> QED
        BY <1>3, <1>4, <3>2, <4>1 DEF Table
    <3> QED
      BY <3>1, <3>2
  <2> QED
    BY <1>4, <2>1
<1>6. t = Body(t)
  BY <1>5
<1>7. merge(s) = t[n]
  BY DEF merge, n
<1> HIDE DEF t
<1>8. /\ DOMAIN t = 0 .. n /\ t = [i \in 0 .. n |-> t[i]] /\ t[0] = <<>>
      /\ \A i \in 1 .. n : t[i] = MergeStep(t[i - 1], s[i])
  <2>1. 0 \in 0 .. n /\ \A i \in 1 .. n : i \in 0 .. n /\ i # 0
    BY <1>0
  <2> QED
    BY <1>6, <2>1
<1> DEFINE B == {k \in Nat : k <= n => t[n - k] # Error}
<1>9. \A i \in 0 .. n : t[i] # Error
  <2>1. 0 \in B
    BY <1>0, <1>7
  <2>2. ASSUME NEW k \in Nat, k \in B PROVE k + 1 \in B
    <3> SUFFICES ASSUME k + 1 <= n PROVE t[n - (k + 1)] # Error
      OBVIOUS
    <3>1. k <= n /\ n - k \in 1 .. n /\ (n - k) - 1 = n - (k + 1)
      BY <1>0
    <3>2. t[n - k] # Error /\ t[n - k] = MergeStep(t[n - (k + 1)], s[n - k])
      BY <1>8, <2>2, <3>1
    <3> QED
      BY <3>2 DEF MergeStep
  <2> HIDE DEF B
  <2>3. Nat \subseteq B
    BY <2>1, <2>2, NatInductive
  <2>4. ASSUME NEW i \in 0 .. n PROVE t[i] # Error
    <3>1. n - i \in Nat /\ n - i <= n /\ n - (n - i) = i
      BY <1>0
    <3> QED
      BY <2>3, <3>1 DEF B
  <2> QED
    BY <2>4
<1> DEFINE S == {k \in Nat : k <= n => t[k] \in Seq(L)}
<1>10. \A i \in 0 .. n : t[i] \in Seq(L)
  <2>1. 0 \in S
    <3>1. <<>> \in Seq(L) /\ t[0] = <<>>
      BY <1>8
    <3> QED
      BY <3>1
  <2>2. ASSUME NEW k \in Nat, k \in S PROVE k + 1 \in S
    <3> SUFFICES ASSUME k + 1 <= n PROVE t[k + 1] \in Seq(L)
      OBVIOUS
    <3>1. k + 1 \in 1 .. n /\ k + 1 \in 0 .. n /\ k \in 0 .. n /\ (k + 1) - 1 = k /\ k <= n
      BY <1>0
    <3>2. t[k + 1] = MergeStep(t[k], s[k + 1]) /\ t[k] # Error /\ t[k + 1] # Error
      BY <1>8, <1>9, <3>1
    <3>3. t[k] \in Seq(L) /\ s[k + 1] \in L
      BY <1>0, <2>2, <3>1
    <3> QED
      BY <3>2, <3>3, MergeStepIs
  <2> HIDE DEF S
  <2>3. Nat \subseteq S
    BY <2>1, <2>2, NatInductive
  <2> QED
    BY <1>0, <2>3 DEF S
<1>11. t \in [0 .. n -> Seq(L)]
  BY <1>8, <1>10
<1> QED
  BY <1>7, <1>8, <1>9, <1>11 DEF n

\* merge leaves the terminator the last.
LEMMA MergedIs ==
  ASSUME NEW V, NEW s \in Seq(Loose(V, Nat)), FinalLast(s), merge(s) # Error
  PROVE  merge(s) \in Seq(Loose(V, Nat)) /\ FinalLast(merge(s))
<1> DEFINE n == Len(s)
           L == Loose(V, Nat)
           Ends(m) == \A j \in 1 .. Len(m) : ~is_final(m[j])
<1>1. /\ n \in Nat /\ \A i \in 1 .. n : s[i] \in L /\ (is_final(s[i]) => i = n)
  BY DEF FinalLast
<1>2. PICK t \in [0 .. n -> Seq(L)] :
           /\ t[0] = <<>> /\ merge(s) = t[n]
           /\ \A i \in 0 .. n : t[i] # Error
           /\ \A i \in 1 .. n : t[i] = MergeStep(t[i - 1], s[i])
  BY MergeTable
<1> HIDE DEF n, L
<1>3. ASSUME NEW i \in 1 .. n, Ends(t[i - 1])
      PROVE  \A j \in 1 .. Len(t[i]) : is_final(t[i][j]) => j = Len(t[i]) /\ is_final(s[i])
  <2>1. PICK m \in Seq(L), e \in L : m = t[i - 1] /\ e = s[i]
    <3>1. i - 1 \in 0 .. n
      BY <1>1
    <3> QED
      BY <1>1, <1>2, <3>1
  <2>2. m # Error /\ t[i] = MergeStep(m, e) /\ t[i] # Error
    <3>1. i - 1 \in 0 .. n /\ i \in 0 .. n
      BY <1>1
    <3> QED
      BY <1>2, <2>1, <3>1
  <2>3. \A j \in 1 .. Len(m) : ~is_final(m[j])
    BY <1>3, <2>1
  <2>4. CASE m = <<>> \/ ~MergesWith(Last(m), e)
    <3>1. t[i] = Append(m, e)
      BY <2>2, <2>4, MergeStepIs DEF L
    <3>2. /\ Len(t[i]) = Len(m) + 1 /\ t[i][Len(m) + 1] = e /\ Len(m) \in Nat
          /\ \A j \in 1 .. Len(m) : t[i][j] = m[j]
      BY <3>1
    <3>3. ASSUME NEW j \in 1 .. Len(t[i]), is_final(t[i][j])
          PROVE  j = Len(t[i]) /\ is_final(s[i])
      <4>1. j \in 1 .. Len(m) \/ j = Len(m) + 1
        BY <3>2
      <4>2. j \notin 1 .. Len(m)
        BY <2>3, <3>2, <3>3
      <4> QED
        BY <2>1, <3>2, <3>3, <4>1, <4>2
    <3> QED
      BY <3>3
  <2>5. CASE m # <<>> /\ MergesWith(Last(m), e)
    <3>0. Front(m) \in Seq(L)
      BY <2>5, FrontIs
    <3>1. PICK l : l = with_count(Last(m), Last(m).cnt + e.cnt)
      OBVIOUS
    <3>2. PICK f \in Seq(L) : f = Front(m)
      BY <3>0
    <3>3. t[i] = Append(f, l)
      BY <2>2, <2>5, <3>1, <3>2, MergeStepIs DEF L
    <3>4. /\ Len(f) = Len(m) - 1 /\ Len(m) \in Nat \ {0}
          /\ \A j \in 1 .. (Len(m) - 1) : f[j] = m[j]
      BY <2>5, <3>2, FrontIs
    <3>5. ~is_final(l)
      <4>1. l.control = Last(m).control
        <5>1. Last(m) \in L
          BY <2>5 DEF Last
        <5> QED
          BY <3>1, <5>1 DEF with_count, L, Loose
      <4>2. is_final(l) <=> is_final(Last(m))
        BY <4>1 DEF is_final, kind
      <4>3. Last(m) = m[Len(m)] /\ Len(m) \in 1 .. Len(m)
        BY <3>4 DEF Last
      <4> QED
        BY <2>3, <4>2, <4>3
    <3>6. /\ Len(t[i]) = Len(m) /\ t[i][Len(m)] = l
          /\ \A j \in 1 .. (Len(m) - 1) : t[i][j] = m[j]
      <4>1. /\ Len(Append(f, l)) = Len(f) + 1 /\ Append(f, l)[Len(f) + 1] = l
            /\ \A j \in 1 .. Len(f) : Append(f, l)[j] = f[j]
        BY AppendProperties
      <4> QED
        BY <3>3, <3>4, <4>1
    <3>7. ASSUME NEW j \in 1 .. Len(t[i]) PROVE ~is_final(t[i][j])
      <4>1. j = Len(m) \/ (j \in 1 .. (Len(m) - 1) /\ j \in 1 .. Len(m))
        BY <3>4, <3>6
      <4> QED
        BY <2>3, <3>5, <3>6, <4>1
    <3> QED
      BY <3>7
  <2> QED
    BY <2>4, <2>5
<1> DEFINE S == {k \in Nat : k < n => Ends(t[k])}
<1>4. 0 \in S
  BY <1>2
<1>5. ASSUME NEW k \in Nat, k \in S PROVE k + 1 \in S
  <2> SUFFICES ASSUME k + 1 < n PROVE Ends(t[k + 1])
    OBVIOUS
  <2>1. k + 1 \in 1 .. n /\ (k + 1) - 1 = k /\ k < n /\ k + 1 # n
    BY <1>1
  <2>2. Ends(t[k]) /\ ~is_final(s[k + 1])
    BY <1>1, <1>5, <2>1
  <2> QED
    BY <1>3, <2>1, <2>2
<1>6. Nat \subseteq S
  <2> HIDE DEF S
  <2> QED
    BY <1>4, <1>5, NatInductive
<1>7. FinalLast(t[n])
  <2>1. t[n] \in Seq(L) /\ DOMAIN t[n] = 1 .. Len(t[n])
    <3>1. n \in 0 .. n
      BY <1>1
    <3> QED
      BY <1>2, <3>1
  <2>2. CASE n = 0
    BY <1>2, <2>2 DEF FinalLast
  <2>3. CASE n # 0
    <3>1. n \in 1 .. n /\ n - 1 \in Nat /\ n - 1 < n
      BY <1>1, <2>3
    <3>2. Ends(t[n - 1])
      BY <1>6, <3>1
    <3> QED
      BY <1>3, <2>1, <3>1, <3>2 DEF FinalLast
  <2> QED
    BY <2>2, <2>3
<1> QED
  <2>1. n \in 0 .. n
    BY <1>1
  <2> QED
    BY <1>2, <1>7, <2>1 DEF L

\* convert_to_BitLoad leaves the terminator the last.
LEMMA BitLoadIs ==
  ASSUME NEW s \in Seq(PlainElement), FinalEnds(s), NEW v
  PROVE  \E V : /\ convert_to_BitLoad(s, v) \in Seq(Loose(V, Nat))
                /\ FinalLast(convert_to_BitLoad(s, v))
<1> DEFINE n == Len(s)
           u(i) == updated_value(s[i], ValuesAlong(s, v)[i - 1])
           x(i) == as_bitload_after(s[i], ValuesAlong(s, v)[i - 1])
           V == Word \cup {u(i) : i \in 1 .. n}
           c == convert_to_BitLoad(s, v)
<1>1. /\ DOMAIN s = 1 .. n /\ n \in Nat
      /\ \A i \in 1 .. n : s[i] \in PlainElement /\ (is_final(s[i]) => i = n)
  BY DEF FinalEnds
<1>2. ASSUME NEW i \in 1 .. n PROVE x(i) \in Loose(V, Nat) /\ (is_final(x(i)) => i = n)
  <2>1. PICK e \in Element : e = s[i]
    BY <1>1, PlainIs
  <2>2. PICK w : w = u(i)
    OBVIOUS
  <2>3. w \in V /\ Word \subseteq V
    BY <2>2
  <2>4. x(i) = IF is_regular(e) THEN [e EXCEPT !.val = w, !.mode = "LOAD",
                                        !.control = e.control \ {"TRIGGER", "TRIGGER_FINAL"}] ELSE e
    BY <2>1, <2>2 DEF as_bitload_after, with_regular_value, Element
  <2> HIDE DEF V, x, u
  <2>5. CASE is_regular(e)
    <3>1. x(i) = [control |-> e.control \ {"TRIGGER", "TRIGGER_FINAL"}, mode |-> "LOAD",
                  pos |-> e.pos, cnt |-> e.cnt, val |-> w]
      BY <2>4, <2>5 DEF Element
    <3>2. x(i) \in Loose(V, Nat)
      BY <2>3, <3>1 DEF Loose, Element, BitOps
    <3>3. ~is_final(x(i))
      <4>1. x(i).control \subseteq e.control
        BY <3>1
      <4>2. "TERMINATE" \notin e.control
        BY <2>5 DEF is_regular, kind, type_from_control
      <4> QED
        BY <4>1, <4>2 DEF is_final, kind, type_from_control
    <3> QED
      BY <3>2, <3>3
  <2>6. CASE ~is_regular(e)
    <3>1. e \in Loose(V, Nat)
      BY <2>3, SMTT(60) DEF Loose, Element
    <3> QED
      BY <1>1, <2>1, <2>4, <2>6, <3>1
  <2> QED
    BY <2>5, <2>6, SMTT(60)
<1>3. c = [i \in 1 .. n |-> x(i)]
  BY <1>1 DEF convert_to_BitLoad
<1> HIDE DEF x, V, c, n
<1>4. c \in Seq(Loose(V, Nat)) /\ DOMAIN c = 1 .. n /\ Len(c) = n
  BY <1>1, <1>2, <1>3
<1>5. FinalLast(c)
  BY <1>2, <1>3, <1>4 DEF FinalLast
<1> QED
  BY <1>4, <1>5 DEF c

\* The reference of -check has its terminator at the end, so that the checks
\* compare every run before they stop.
LEMMA ReferenceIs ==
  ASSUME NEW s \in Seq(PlainElement), FinalEnds(s), NEW v,
         convert_for_readback_check(s, v) # Error
  PROVE  \E S : /\ drop_count0(convert_for_readback_check(s, v)) \in Seq(S)
                /\ FinalLast(drop_count0(convert_for_readback_check(s, v)))
<1>1. PICK c : c = convert_to_BitLoad(s, v)
  OBVIOUS
<1>2. PICK V : c \in Seq(Loose(V, Nat)) /\ FinalLast(c)
  BY <1>1, BitLoadIs
<1>3. convert_for_readback_check(s, v) = merge(c)
  BY <1>1 DEF convert_for_readback_check
<1>4. merge(c) \in Seq(Loose(V, Nat)) /\ FinalLast(merge(c))
  BY <1>2, <1>3, MergedIs
<1> QED
  BY <1>3, <1>4, DropIs
-----------------------------------------------------------------------------
(***************************************************************************)
(* A run that returns RC_OK.                                               *)
(***************************************************************************)
\* The samples a run asks for are those played and those still to be played.
PlayTold ==
  /\ pc = "ready" => st.ready = <<>> /\ st.fifo = <<>> /\ ~st.terminal /\ played = <<>>
  /\ pc \in Phases => (to_send # <<>> => pc = "transmit") /\ Promise /\ ReadyPlays

\* What is left to compare, and that a check that ends well leaves nothing.
CheckTold ==
  /\ pc \in {"transmit", "trigger"} => work \in Seq(PlainElement) /\ FinalEnds(work)
  /\ pc = "check" => (\E S : work \in Seq(S)) /\ FinalLast(work)
  /\ pc \in {"read", "wait", "waited", "post"} /\ opts.check => "CHECK" \in rc \/ NoPulses(work)

OkTold ==
  Finished /\ rc = {} /\ ~opts.dont_wait =>
    /\ st.terminal /\ played = want /\ "QOUT_SELECT" \notin if_ctrl
    /\ final # None => st.qout = final
    /\ opts.check => NoPulses(work)

RunInv == PlayTold /\ CheckTold /\ OkTold

\* Power-up establishes the invariant of a run.
LEMMA RunStart == FlowInit => RunInv
BY DEF FlowInit, RunInv, PlayTold, CheckTold, OkTold, Finished, Phases

\* A process that ends otherwise than with RC_OK, or that was not to wait.
LEMMA EndKeeps ==
  ASSUME pc' = "none", rc' # {} \/ opts'.dont_wait
  PROVE  RunInv'
BY DEF RunInv, PlayTold, CheckTold, OkTold, Finished, Phases

\* A new process keeps it.
LEMMA StartRuns ==
  ASSUME NEW o \in Options, StartProcess(o)
  PROVE  RunInv'
<1>1. pc' = "ready" /\ st' = HwReset(o.i) /\ played' = <<>>
  BY DEF StartProcess, BringUp
<1>2. st'.ready = <<>> /\ st'.fifo = <<>> /\ ~st'.terminal
  BY <1>1 DEF HwReset
<1> QED
  BY <1>1, <1>2 DEF RunInv, PlayTold, CheckTold, OkTold, Finished, Phases

\* The preparations promise the whole sequence.
LEMMA SendRuns ==
  ASSUME ControlInv, RunInv, NEW n \in 1 .. NSequences, SendAndTrig(n)
  PROVE  RunInv'
<1> DEFINE p == prepare_sequence_for_streaming(Sequence(n), [t |-> None, random |-> None], st.qout)
<1>1. pc = "ready" /\ st' = st /\ played' = played
      /\ \/ Return({"EXCEPTION"})
         \/ /\ p # Error /\ work' = p.seq /\ to_send' = p.seq /\ pc' = "transmit"
            /\ want' = Heard(Front(p.seq), st.qout)
  BY DEF SendAndTrig, hwVars, Heard
<1>2. CASE Return({"EXCEPTION"})
  BY <1>2, EndKeeps DEF Return
<1>3. CASE ~Return({"EXCEPTION"})
  <2>1. p # Error /\ p.seq \in Seq(PlainElement) /\ FinalEnds(p.seq)
    BY <1>1, <1>3, PreparedIs, SequencesAssumption
  <2>2. PICK u \in Seq(PlainElement) : u = p.seq
    BY <2>1
  <2>3. /\ FinalEnds(u) /\ work' = u /\ to_send' = u /\ pc' = "transmit"
        /\ want' = Heard(Front(u), st.qout)
    BY <1>1, <1>3, <2>1, <2>2
  <2>4. st'.ready = <<>> /\ st'.fifo = <<>> /\ ~st'.terminal /\ played' = <<>> /\ st'.qout = st.qout
    BY <1>1 DEF RunInv, PlayTold
  <2> HIDE DEF p
  <2>5. Ahead' = u
    <3>1. <<>> \o <<>> \o u = u
      BY <2>2
    <3> QED
      BY <2>3, <2>4, <3>1 DEF Ahead
  <2>6. want' = <<>> \o Heard(Front(u), st.qout)
    <3>1. u # <<>>
      BY <2>3 DEF FinalEnds
    <3>2. Front(u) \in Seq(PlainElement) /\ st.qout \in Word
      BY <3>1, FrontIs DEF ControlInv, FlowTypes, StreamerStates
    <3>3. PICK h \in Seq(Word) : h = Heard(Front(u), st.qout)
      BY <3>2, HeardConcat
    <3> QED
      BY <2>3, <3>3
  <2>7. Promise' /\ ReadyPlays'
    BY <2>3, <2>4, <2>5, <2>6 DEF Promise, ReadyPlays
  <2> QED
    BY <2>3, <2>7 DEF RunInv, PlayTold, CheckTold, OkTold, Finished
<1> QED
  BY <1>2, <1>3

\* A step of the host between two phases leaves the promise.
LEMMA HostPlays ==
  ASSUME PlayTold, pc \in Phases, pc' \in Phases, pc' = pc \/ to_send = <<>>,
         UNCHANGED <<st, played, to_send, want>>
  PROVE  PlayTold'
<1>1. Promise' = Promise /\ ReadyPlays' = ReadyPlays
  BY DEF Promise, Ahead, ReadyPlays
<1> QED
  BY <1>1 DEF PlayTold, Phases

\* Host steps between two phases keep it.
LEMMA MovesRun ==
  ASSUME RunInv, pc \in Phases, pc' \in Phases, pc' = pc \/ to_send = <<>>,
         UNCHANGED <<st, played, to_send, want>>, CheckTold'
  PROVE  RunInv'
<1>1. PlayTold' /\ pc' # "none"
  BY HostPlays DEF RunInv, Phases
<1> QED
  BY <1>1 DEF RunInv, OkTold, Finished

\* The transmission keeps it.
LEMMA TransmitRuns ==
  ASSUME ControlInv, RunInv, Transmit
  PROVE  RunInv'
<1>1. pc = "transmit" /\ pc' = pc /\ work' = work
  BY DEF Transmit
<1>2. FlowTypes /\ Promise /\ ReadyPlays
  BY <1>1 DEF ControlInv, RunInv, PlayTold, Phases
<1>3. Promise' /\ ReadyPlays'
  BY <1>2, SendKeeps
<1> QED
  BY <1>1, <1>3 DEF RunInv, PlayTold, CheckTold, OkTold, Finished

\* The end of the transmission keeps it.
LEMMA SentRuns ==
  ASSUME RunInv, Sent
  PROVE  RunInv'
<1>1. pc = "transmit" /\ pc' = "trigger" /\ work' = work /\ to_send = <<>>
      /\ UNCHANGED <<st, played, to_send, want>>
  BY DEF Sent, Enter, hwVars, Rest
<1>2. CheckTold'
  BY <1>1 DEF RunInv, CheckTold
<1> QED
  BY <1>1, <1>2, MovesRun DEF Phases

\* A poll before the trigger keeps it.
LEMMA PollRuns ==
  ASSUME RunInv, PollOutputFifo
  PROVE  RunInv'
<1>1. pc = "trigger" /\ UNCHANGED <<hwVars, Rest>>
      /\ \/ Return(rc \cup {"TIMEOUT"})
         \/ UNCHANGED <<pc, work, to_send>>
  BY DEF PollOutputFifo
<1>2. CASE Return(rc \cup {"TIMEOUT"})
  BY <1>2, EndKeeps DEF Return
<1>3. CASE UNCHANGED <<pc, work, to_send>>
  <2>1. CheckTold'
    BY <1>1, <1>3 DEF RunInv, CheckTold
  <2> QED
    BY <1>1, <1>3, <2>1, MovesRun DEF Phases, hwVars, Rest
<1> QED
  BY <1>1, <1>2, <1>3

\* Arming and forcing the trigger keep it.
LEMMA TriggerRuns ==
  ASSUME RunInv, ArmTrigger \/ ForceTrigger
  PROVE  RunInv'
<1>1. pc = "trigger" /\ Triggered /\ UNCHANGED <<hwVars, Rest>>
  BY DEF ArmTrigger, ForceTrigger
<1>2. \/ Return({"EXCEPTION"})
      \/ /\ Reference # Error /\ pc' = AfterTrigger /\ to_send' = to_send /\ rc' = rc
         /\ work' = IF opts.check THEN drop_count0(Reference) ELSE Reference
  BY <1>1 DEF Triggered, Enter
<1>3. CASE Return({"EXCEPTION"})
  BY <1>3, EndKeeps DEF Return
<1>4. CASE ~Return({"EXCEPTION"})
  <2>1. /\ Reference # Error /\ pc' = AfterTrigger /\ to_send' = to_send
        /\ work' = IF opts.check THEN drop_count0(Reference) ELSE Reference
        /\ opts' = opts
    BY <1>1, <1>2, <1>4 DEF Rest
  <2>2. pc' \in {"check", "read", "wait"} /\ (pc' = "check" => opts.check) /\ (opts.check => pc' = "check")
    BY <2>1 DEF AfterTrigger
  <2>3. to_send = <<>> /\ work \in Seq(PlainElement) /\ FinalEnds(work)
    BY <1>1 DEF RunInv, PlayTold, CheckTold, Phases
  <2>4. ASSUME opts.check PROVE (\E S : work' \in Seq(S)) /\ FinalLast(work')
    <3>1. Reference = convert_for_readback_check(work, start)
      BY <2>4 DEF Reference
    <3> QED
      BY <2>1, <2>3, <2>4, <3>1, ReferenceIs
  <2>5. CheckTold'
    BY <2>1, <2>2, <2>4 DEF CheckTold
  <2> QED
    BY <1>1, <2>1, <2>2, <2>3, <2>5, MovesRun DEF Phases, hwVars, Rest
<1> QED
  BY <1>3, <1>4

\* A check that fails says so in the return code.
LEMMA FailsRun ==
  ASSUME NEW timeout, CheckFails(timeout)
  PROVE  "CHECK" \in rc' /\ pc' \in {"read", "wait"}
BY DEF CheckFails, Enter, AfterCheck

\* A run read back and compared keeps it.
LEMMA CheckReadRuns ==
  ASSUME RunInv, CheckRead
  PROVE  RunInv'
<1> DEFINE ahead == {i \in DOMAIN work : encodes_pulses(work[i])}
           k == CHOOSE m \in ahead : \A i \in ahead : m <= i
<1>1. /\ pc = "check" /\ UNCHANGED <<st, played, to_send, want, opts>>
      /\ \/ \E timeout : CheckFails(timeout)
         \/ ahead # {} /\ work' = SubSeq(work, k + 1, Len(work)) /\ pc' = pc
  BY DEF CheckRead, Rest, TakeRun
<1>2. (\E S : work \in Seq(S)) /\ FinalLast(work) /\ to_send = <<>>
  BY <1>1 DEF RunInv, PlayTold, CheckTold, Phases
<1>3. PICK S : work \in Seq(S)
  BY <1>2
<1>4. CASE \E timeout : CheckFails(timeout)
  <2>1. "CHECK" \in rc' /\ pc' \in {"read", "wait"}
    BY <1>4, FailsRun
  <2>2. CheckTold'
    BY <2>1 DEF CheckTold
  <2> QED
    BY <1>1, <1>2, <2>1, <2>2, MovesRun DEF Phases
<1>5. CASE ahead # {} /\ work' = SubSeq(work, k + 1, Len(work)) /\ pc' = pc
  <2>1. ahead \subseteq Nat /\ ahead \subseteq 1 .. Len(work) /\ Len(work) \in Nat
    BY <1>3
  <2>2. k \in ahead
    <3>1. \E m \in ahead : \A i \in ahead : m <= i
      BY <1>5, <2>1, LeastNat
    <3> HIDE DEF ahead
    <3> QED
      BY <3>1
  <2>3. k \in 1 .. Len(work)
    BY <2>1, <2>2
  <2>4. PICK j \in Nat : j = k
    BY <2>1, <2>2
  <2> HIDE DEF k
  <2>5. work' \in Seq(S) /\ FinalLast(work')
    <3>1. PICK w \in Seq(S) : w = work
      BY <1>3
    <3>2. j \in 1 .. Len(w) /\ Len(w) \in Nat /\ work' = SubSeq(w, j + 1, Len(w))
      BY <1>5, <2>1, <2>3, <2>4, <3>1
    <3>3. /\ SubSeq(w, j + 1, Len(w)) \in Seq(S) /\ Len(SubSeq(w, j + 1, Len(w))) = Len(w) - j
          /\ \A i \in 1 .. (Len(w) - j) : SubSeq(w, j + 1, Len(w))[i] = w[j + i]
      BY <3>2
    <3>4. ASSUME NEW i \in DOMAIN work', is_final(work'[i]) PROVE i = Len(work')
      <4>1. i \in 1 .. (Len(w) - j) /\ work'[i] = w[j + i] /\ Len(work') = Len(w) - j
        BY <3>2, <3>3
      <4>2. j + i \in 1 .. Len(w)
        BY <3>2, <4>1, SMTT(60)
      <4>3. is_final(w[j + i])
        BY <3>4, <4>1
      <4>4. j + i = Len(w)
        BY <1>2, <3>1, <4>2, <4>3 DEF FinalLast
      <4> QED
        BY <3>2, <4>1, <4>4
    <3> QED
      BY <3>2, <3>3, <3>4 DEF FinalLast
  <2>6. CheckTold'
    BY <1>1, <1>5, <2>5 DEF CheckTold
  <2> QED
    BY <1>1, <1>2, <1>5, <2>6, MovesRun DEF Phases
<1> QED
  BY <1>1, <1>4, <1>5

\* A poll without a run to read keeps it.
LEMMA CheckIdleRuns ==
  ASSUME RunInv, CheckIdle
  PROVE  RunInv'
<1>1. pc = "check" /\ UNCHANGED <<st, played, to_send, want, opts>>
  BY DEF CheckIdle, hwVars, Rest
<1>2. \/ \E timeout : CheckFails(timeout)
      \/ UNCHANGED <<pc, work>>
      \/ work # <<>> /\ is_final(Head(work)) /\ work' = work /\ pc' = AfterCheck
  BY DEF CheckIdle, Enter
<1>3. (\E S : work \in Seq(S)) /\ FinalLast(work) /\ to_send = <<>>
  BY <1>1 DEF RunInv, PlayTold, CheckTold, Phases
<1>4. CASE \E timeout : CheckFails(timeout)
  <2>1. "CHECK" \in rc' /\ pc' \in {"read", "wait"}
    BY <1>4, FailsRun
  <2>2. CheckTold'
    BY <2>1 DEF CheckTold
  <2> QED
    BY <1>1, <1>3, <2>1, <2>2, MovesRun DEF Phases
<1>5. CASE UNCHANGED <<pc, work>>
  <2>1. CheckTold'
    BY <1>1, <1>3, <1>5 DEF CheckTold
  <2> QED
    BY <1>1, <1>3, <1>5, <2>1, MovesRun DEF Phases
<1>6. CASE work # <<>> /\ is_final(Head(work)) /\ work' = work /\ pc' = AfterCheck
  <2>1. PICK S : work \in Seq(S)
    BY <1>3
  <2>2. Len(work) = 1 /\ DOMAIN work = {1} /\ is_final(work[1])
    <3>1. Head(work) = work[1] /\ 1 \in DOMAIN work /\ DOMAIN work = 1 .. Len(work)
      BY <1>6, <2>1
    <3>2. Len(work) = 1
      BY <1>3, <1>6, <3>1 DEF FinalLast
    <3> QED
      BY <1>6, <3>1, <3>2
  <2>3. NoPulses(work)
    <3>1. ~is_regular(work[1])
      BY <2>2 DEF is_final, is_regular, kind, type_from_control
    <3> QED
      BY <2>2, <3>1 DEF NoPulses, encodes_pulses
  <2>4. pc' \in {"read", "wait"} /\ NoPulses(work')
    BY <1>6, <2>3 DEF AfterCheck
  <2>5. CheckTold'
    BY <2>4 DEF CheckTold
  <2> QED
    BY <1>1, <1>3, <2>4, <2>5, MovesRun DEF Phases
<1> QED
  BY <1>2, <1>4, <1>5, <1>6

\* wait_to_complete keeps it.
LEMMA WaitRuns ==
  ASSUME RunInv, ReadAll \/ WaitToComplete
  PROVE  RunInv'
<1>1. /\ pc \in {"read", "wait"} /\ pc' \in {"read", "wait", "waited"}
      /\ UNCHANGED <<st, played, to_send, want, opts, work, rc>>
  BY DEF ReadAll, ReadEnds, WaitToComplete, Enter, TakeRun, hwVars, Rest
<1>2. to_send = <<>>
  BY <1>1 DEF RunInv, PlayTold, Phases
<1>3. CheckTold'
  BY <1>1 DEF RunInv, CheckTold, NoPulses
<1> QED
  BY <1>1, <1>2, <1>3, MovesRun DEF Phases

\* The checks after the run: RC_OK is returned only when everything was played.
LEMMA WaitedRuns ==
  ASSUME RunInv, Waited
  PROVE  RunInv'
<1>1. /\ pc = "waited"
      /\ \/ abort_streamer_after_timeout(rc \cup {"TIMEOUT"})
         \/ /\ pc' = "post" /\ rc' \in {rc, rc \cup {"BUFFER_ERROR"}}
            /\ UNCHANGED <<hwVars, work, to_send>>
      /\ UNCHANGED Rest
  BY DEF Waited
<1>2. CASE abort_streamer_after_timeout(rc \cup {"TIMEOUT"})
  BY <1>2, EndKeeps DEF abort_streamer_after_timeout, Return
<1>3. CASE ~abort_streamer_after_timeout(rc \cup {"TIMEOUT"})
  <2>1. /\ pc' = "post" /\ rc \subseteq rc'
        /\ UNCHANGED <<st, played, to_send, want, opts, work>>
    BY <1>1, <1>3 DEF hwVars, Rest
  <2>2. to_send = <<>>
    BY <1>1 DEF RunInv, PlayTold, Phases
  <2>3. CheckTold'
    BY <1>1, <2>1 DEF RunInv, CheckTold, NoPulses
  <2> QED
    BY <1>1, <2>1, <2>2, <2>3, MovesRun DEF Phases
<1> QED
  BY <1>2, <1>3

\* What else can happen to a process keeps it.
LEMMA OthersRun ==
  ASSUME RunInv, ppreset \/ ppqout \/ Killed \/ Stalled \/ DontWait
  PROVE  RunInv'
<1>1. pc' = "none" /\ (rc' # {} \/ opts'.dont_wait)
  BY DEF ppreset, ppqout, Killed, Stalled, DontWait, Return, abort_streamer_after_timeout, Rest
<1> QED
  BY <1>1, EndKeeps

\* The checks after a run: with nothing to report the streamer is done.
LEMMA PostRuns ==
  ASSUME ControlInv, RunInv, run_post_execution_checks
  PROVE  RunInv'
<1> DEFINE mismatch == \/ final # None /\ get_qout # final
                       \/ ~InputCountersAgree \/ ~OutputCountersAgree
           code == rc \cup {e \in {"CHECK"} : mismatch} \cup {e \in {"OVERFLOW"} : rb.lost}
                      \cup {e \in {"BUFFER_ERROR"} : buffer_error}
<1>1. /\ pc = "post" /\ if_ctrl' = deactivate_trigger /\ pc' = "none" /\ rc' = code
      /\ UNCHANGED <<st, played, want, final, work, opts>>
  BY DEF run_post_execution_checks, Write, Return, hwVars, Rest
<1>2. CASE rc' # {}
  BY <1>1, <1>2, EndKeeps
<1>3. CASE rc' = {}
  <2>1. rc = {} /\ ~mismatch
    BY <1>1, <1>3
  <2>2. control = if_ctrl /\ "QOUT_SELECT" \notin if_ctrl
    BY <1>1 DEF ControlInv, ControlTold
  <2>3. st.terminal
    BY <1>1, <2>1 DEF ControlInv, WaitTold
  <2>4. played = want
    BY <1>1, <2>3 DEF RunInv, PlayTold, Promise, Phases
  <2>5. "QOUT_SELECT" \notin if_ctrl'
    BY <1>1, <2>2 DEF deactivate_trigger
  <2>6. final # None => st.qout = final
    BY <2>1, <2>2 DEF get_qout
  <2>7. opts.check => NoPulses(work)
    BY <1>1, <2>1 DEF RunInv, CheckTold
  <2>8. NoPulses(work)' = NoPulses(work)
    BY <1>1 DEF NoPulses
  <2> HIDE DEF code, mismatch
  <2>9. OkTold'
    BY <1>1, <2>3, <2>4, <2>5, <2>6, <2>7, <2>8 DEF OkTold
  <2>10. PlayTold' /\ CheckTold'
    BY <1>1 DEF PlayTold, CheckTold, Phases
  <2> QED
    BY <2>9, <2>10 DEF RunInv
<1> QED
  BY <1>2, <1>3

\* The streamer plays what was promised; before the first element it does
\* nothing, and after the last one neither.
LEMMA StreamerRuns ==
  ASSUME ControlInv, RunInv, StreamerNext, UNCHANGED hostVars
  PROVE  RunInv'
<1>1. /\ FlowTypes /\ pc \in {"none", "ready"} \cup Phases
      /\ UNCHANGED <<pc, to_send, want, work, opts, rc, processes, final>>
  BY DEF ControlInv, FlowTypes, hostVars
<1>2. pc # "ready"
  <2> SUFFICES ASSUME pc = "ready" PROVE FALSE
    OBVIOUS
  <2>1. Disarmed /\ st.fifo = <<>>
    BY DEF ControlInv, ControlTold, RunInv, PlayTold
  <2> QED
    BY <2>1 DEF StreamerNext, Decode, Triggers, PlayElement, Underrun, trigger_activated, Disarmed,
       TriggerBits
<1>3. PlayTold'
  <2>1. ASSUME pc \in Phases PROVE Promise' /\ ReadyPlays'
    BY <1>1, <2>1, PromiseKept DEF RunInv, PlayTold
  <2> QED
    BY <1>1, <1>2, <2>1 DEF RunInv, PlayTold
<1>4. NoPulses(work)' = NoPulses(work) /\ FinalEnds(work)' = FinalEnds(work)
      /\ FinalLast(work)' = FinalLast(work)
  BY <1>1 DEF NoPulses, FinalEnds, FinalLast
<1>5. CheckTold'
  BY <1>1, <1>4 DEF RunInv, CheckTold
<1>6. OkTold'
  <2>1. /\ st.terminal => st'.terminal
        /\ CannotPlay => st'.qout = st.qout /\ played' = played
        /\ if_ctrl' = if_ctrl
    BY <1>1, StreamerKeeps DEF ctrlVars
  <2>2. st.terminal => CannotPlay
    BY DEF CannotPlay
  <2> QED
    BY <1>1, <1>4, <2>1, <2>2 DEF RunInv, OkTold, Finished
<1> QED
  BY <1>3, <1>5, <1>6 DEF RunInv

\* Every step of a streaming process and of the streamer keeps it.
LEMMA RunKept == ControlInv /\ RunInv /\ [FlowNext]_flowVars => RunInv'
<1> SUFFICES ASSUME ControlInv, RunInv, [FlowNext]_flowVars PROVE RunInv'
  OBVIOUS
<1>1. CASE UNCHANGED flowVars
  <2>1. UNCHANGED <<st, played, if_ctrl, pc, work, to_send, want, opts, rc, processes, final>>
    BY <1>1 DEF flowVars, hostVars, hwVars, ctrlVars
  <2> QED
    BY <2>1 DEF RunInv, PlayTold, CheckTold, OkTold, Promise, ReadyPlays, Ahead, Finished, NoPulses,
       FinalEnds, FinalLast
<1>2. CASE FlowNext
  BY <1>2, StartRuns, SendRuns, TransmitRuns, SentRuns, PollRuns, TriggerRuns, CheckReadRuns,
     CheckIdleRuns, WaitRuns, WaitedRuns, OthersRun, PostRuns, StreamerRuns DEF FlowNext, HostStep
<1> QED
  BY <1>1, <1>2

\* At every step of send_and_trig what has been played and what the streamer, the
\* transport and the host still hold make up the sequence.
THEOREM RunInvariance == FlowSpec => [](ControlInv /\ RunInv)
BY FlowStart, RunStart, ControlKept, RunKept, PTL DEF FlowSpec

\* send_and_trig returns RC_OK only for a run that was played to its end: the
\* samples are those the sequence asks for, the outputs show its final value,
\* and the check compared every run.
THEOREM OkIsPlayed == FlowSpec => []OkMeansPlayed
<1>1. ControlInv /\ RunInv => OkMeansPlayed
  <2> SUFFICES ASSUME ControlInv, RunInv, Finished, rc = {}, ~opts.dont_wait
               PROVE  /\ played = want /\ get_qout = st.qout
                      /\ final # None => st.qout = final
                      /\ opts.check => ~\E k \in DOMAIN work : encodes_pulses(work[k])
    BY DEF OkMeansPlayed
  <2> QED
    BY DEF RunInv, OkTold, get_qout, NoPulses
<1> QED
  BY <1>1, RunInvariance, PTL
-----------------------------------------------------------------------------
(***************************************************************************)
(* Runs.  The reference of the check is a list of runs, each a value held  *)
(* for a count, no two neighbours of one value: such a list is decided by  *)
(* its samples, and the reference's samples are those the sequence asks    *)
(* for.                                                                    *)
(***************************************************************************)
\* A run as the read-back encodes it, and as the reference of the check holds it.
Pulse == [control : {{}}, mode : {"LOAD"}, pos : {0}, cnt : Nat \ {0}, val : Word]
\* The samples a list of runs stands for.
Spoken(r) == Heard(r, {})
\* Neighbours that could be one run are one run.
Apart(r) == \A i \in 1 .. (Len(r) - 1) : r[i].val # r[i + 1].val

\* A run is a plain element that plays its own value.
LEMMA PulseIs ==
  ASSUME NEW e \in Pulse
  PROVE  /\ e \in PlainElement /\ Plays(e) /\ encodes_pulses(e) /\ ~is_final(e)
         /\ e.cnt \in Nat \ {0} /\ e.val \in Word
         /\ \A q \in Word : updated_value(e, q) = e.val
<1>1. e \in Element
  <2>1. 0 \in Positions /\ "LOAD" \in BitOps
    BY MemoryAssumption DEF Positions, BitOps
  <2> QED
    BY <2>1 DEF Pulse, Element
<1>2. kind(e) = "regular"
  BY DEF Pulse, kind, type_from_control
<1>3. /\ ~Is(e, "NOPASS") /\ e.cnt # 0 /\ e.cnt \in Nat \ {0} /\ e.val \in Word
      /\ \A q \in Word : updated_value(e, q) = e.val
  BY DEF Pulse, Is, updated_value, apply_value_kind
<1> QED
  BY <1>1, <1>2, <1>3 DEF PlainElement, Plays, encodes_pulses, is_final, is_regular, is_trigger

\* A list of runs is a list of plain elements.
LEMMA PulseSeq == \A t \in Seq(Pulse) : t \in Seq(PlainElement)
<1>1. Pulse \subseteq PlainElement
  BY PulseIs
<1> QED
  BY <1>1

\* What a list of runs plays does not depend on what was before it.
LEMMA SpokenAny ==
  ASSUME NEW t \in Seq(Pulse), NEW q \in Word
  PROVE  Heard(t, q) = Spoken(t) /\ Spoken(t) \in Seq(Word)
<1>0. {} \in Word
  BY DEF Word
<1>1. CASE t = <<>>
  <2>1. Heard(<<>>, q) = <<>> /\ Heard(<<>>, {}) = <<>>
    BY <1>0, HeardNone
  <2>2. <<>> \in Seq(Word)
    OBVIOUS
  <2> QED
    BY <1>1, <2>1, <2>2 DEF Spoken
<1>2. CASE t # <<>>
  <2>1. PICK e \in Pulse, r \in Seq(Pulse) : t = <<e>> \o r
    <3>1. Head(t) \in Pulse /\ Tail(t) \in Seq(Pulse) /\ t = <<Head(t)>> \o Tail(t)
      BY <1>2
    <3> QED
      BY <3>1, ZenonT(60)
  <2>2. e \in PlainElement /\ Plays(e) /\ r \in Seq(PlainElement)
        /\ updated_value(e, q) = e.val /\ updated_value(e, {}) = e.val
    BY <1>0, PulseIs, PulseSeq
  <2>3. /\ Heard(t, q) = [k \in 1 .. e.cnt |-> updated_value(e, q)] \o Heard(r, updated_value(e, q))
        /\ Heard(t, {}) = [k \in 1 .. e.cnt |-> updated_value(e, {})] \o Heard(r, updated_value(e, {}))
    BY <1>0, <2>1, <2>2, HeardOne
  <2>4. t \in Seq(PlainElement) /\ <<>> \in Seq(PlainElement)
    BY PulseSeq
  <2>5. Heard(t, {}) \in Seq(Word)
    BY <1>0, <2>4, HeardConcat
  <2> QED
    BY <2>2, <2>3, <2>5, ZenonT(60) DEF Spoken
<1> QED
  BY <1>1, <1>2

\* No run, no sample.
LEMMA SpokenNone == Spoken(<<>>) = <<>>
<1>0. {} \in Word
  BY DEF Word
<1> QED
  BY <1>0, HeardNone DEF Spoken

\* The samples of one run.
RunSamples(e) == [k \in 1 .. e.cnt |-> e.val]

\* The samples of the first run come first.
LEMMA SpokenFirst ==
  ASSUME NEW e \in Pulse, NEW t \in Seq(Pulse)
  PROVE  /\ Spoken(<<e>> \o t) = RunSamples(e) \o Spoken(t)
         /\ RunSamples(e) \in Seq(Word) /\ Len(RunSamples(e)) = e.cnt
<1>0. {} \in Word
  BY DEF Word
<1>1. e \in PlainElement /\ Plays(e) /\ t \in Seq(PlainElement) /\ e.val \in Word
      /\ updated_value(e, {}) = e.val /\ e.cnt \in Nat
  BY <1>0, PulseIs, PulseSeq
<1>2. Heard(<<e>> \o t, {}) = [k \in 1 .. e.cnt |-> updated_value(e, {})] \o Heard(t, updated_value(e, {}))
  BY <1>0, <1>1, HeardOne
<1>3. [k \in 1 .. e.cnt |-> updated_value(e, {})] = RunSamples(e)
  BY <1>1 DEF RunSamples
<1>4. Heard(t, e.val) = Spoken(t)
  BY <1>1, SpokenAny
<1>5. RunSamples(e) \in Seq(Word) /\ Len(RunSamples(e)) = e.cnt
  BY <1>1 DEF RunSamples
<1> QED
  BY <1>1, <1>2, <1>3, <1>4, <1>5 DEF Spoken

\* The samples of two lists of runs follow each other.
LEMMA SpokenConcat ==
  ASSUME NEW s \in Seq(Pulse), NEW t \in Seq(Pulse)
  PROVE  Spoken(s \o t) = Spoken(s) \o Spoken(t)
<1>0. {} \in Word
  BY DEF Word
<1>1. s \in Seq(PlainElement) /\ t \in Seq(PlainElement)
  BY PulseSeq
<1>2. /\ EndsAt(s, {}) \in Word
      /\ Heard(s \o t, {}) = Heard(s, {}) \o Heard(t, EndsAt(s, {}))
  BY <1>0, <1>1, HeardConcat, ZenonT(60)
<1> QED
  BY <1>2, SpokenAny DEF Spoken

\* A list of runs has its first run's samples first, and then a different one.
LEMMA SpokenBegins ==
  ASSUME NEW r \in Seq(Pulse), Apart(r), r # <<>>
  PROVE  /\ r[1] \in Pulse /\ Len(Spoken(r)) \in Nat /\ Len(Spoken(r)) >= r[1].cnt
         /\ \A k \in 1 .. r[1].cnt : Spoken(r)[k] = r[1].val
         /\ Len(r) = 1 => Len(Spoken(r)) = r[1].cnt
         /\ Len(r) # 1 => /\ Len(Spoken(r)) > r[1].cnt
                          /\ Spoken(r)[r[1].cnt + 1] # r[1].val
<1>1. PICK e \in Pulse, t \in Seq(Pulse) : r = <<e>> \o t /\ e = r[1] /\ Len(r) = Len(t) + 1
  <2>1. Head(r) \in Pulse /\ Tail(r) \in Seq(Pulse) /\ r = <<Head(r)>> \o Tail(r)
        /\ Head(r) = r[1] /\ Len(r) = Len(Tail(r)) + 1
    OBVIOUS
  <2> QED
    BY <2>1, ZenonT(60)
<1>2. PICK h \in Seq(Word), w \in Seq(Word) :
        h = RunSamples(e) /\ w = Spoken(t) /\ Spoken(r) = h \o w /\ Len(h) = e.cnt
  <2>1. RunSamples(e) \in Seq(Word) /\ Len(RunSamples(e)) = e.cnt /\ Spoken(<<e>> \o t) = RunSamples(e) \o Spoken(t)
    BY SpokenFirst
  <2>2. {} \in Word
    BY DEF Word
  <2>3. Spoken(t) \in Seq(Word)
    BY <2>2, SpokenAny
  <2> QED
    BY <1>1, <2>1, <2>3
<1>3. e.cnt \in Nat \ {0} /\ \A k \in 1 .. e.cnt : h[k] = e.val
  BY <1>2, PulseIs DEF RunSamples
<1>4. /\ Len(h \o w) = e.cnt + Len(w) /\ Len(w) \in Nat
      /\ \A k \in 1 .. e.cnt : (h \o w)[k] = e.val
      /\ Len(w) > 0 => (h \o w)[e.cnt + 1] = w[1]
  BY <1>2, <1>3
<1>5. CASE t = <<>>
  BY <1>1, <1>2, <1>3, <1>4, <1>5, SpokenNone
<1>6. CASE t # <<>>
  <2>1. PICK f \in Pulse, u \in Seq(Pulse) : t = <<f>> \o u /\ f = t[1]
    <3>1. Head(t) \in Pulse /\ Tail(t) \in Seq(Pulse) /\ t = <<Head(t)>> \o Tail(t) /\ Head(t) = t[1]
      BY <1>6
    <3> QED
      BY <3>1, ZenonT(60)
  <2>2. f = r[2] /\ Len(t) \in Nat \ {0}
    BY <1>1, <1>6, <2>1
  <2>3. f.val # e.val
    <3>1. 1 \in 1 .. (Len(r) - 1)
      BY <1>1, <2>2
    <3> QED
      BY <1>1, <2>2, <3>1 DEF Apart
  <2>4. PICK g \in Seq(Word), x \in Seq(Word) : w = g \o x /\ g = RunSamples(f) /\ Len(g) = f.cnt
    <3>1. RunSamples(f) \in Seq(Word) /\ Len(RunSamples(f)) = f.cnt /\ Spoken(<<f>> \o u) = RunSamples(f) \o Spoken(u)
      BY SpokenFirst
    <3>2. {} \in Word
      BY DEF Word
    <3>3. Spoken(u) \in Seq(Word)
      BY <3>2, SpokenAny
    <3> QED
      BY <1>2, <2>1, <3>1, <3>3
  <2>5. f.cnt \in Nat \ {0} /\ g[1] = f.val
    BY <2>4, PulseIs DEF RunSamples
  <2>6. Len(w) > 0 /\ w[1] = f.val
    BY <2>4, <2>5
  <2>7. Len(r) # 1
    BY <1>1, <2>2
  <2>8. Spoken(r) = h \o w /\ r[1] = e
    BY <1>1, <1>2
  <2>9. Len(h \o w) \in Nat /\ Len(h \o w) >= e.cnt /\ Len(h \o w) > e.cnt
    <3>1. \A c, d \in Nat : d > 0 => c + d \in Nat /\ c + d >= c /\ c + d > c
      OBVIOUS
    <3> QED
      BY <1>3, <1>4, <2>6, <3>1
  <2>10. (h \o w)[e.cnt + 1] # e.val
    BY <1>4, <2>3, <2>6
  <2> QED
    BY <1>4, <2>7, <2>8, <2>9, <2>10, ZenonT(60)
<1> QED
  BY <1>5, <1>6

\* Two lists of runs, one of which plays a part of what the other plays: the
\* first runs agree, unless the part ends within its first run.
LEMMA FirstRun ==
  ASSUME NEW r \in Seq(Pulse), NEW p \in Seq(Pulse), Apart(r), Apart(p), r # <<>>,
         NEW z \in Seq(Word), Spoken(p) = Spoken(r) \o z, Len(r) # 1 \/ z = <<>>
  PROVE  p # <<>> /\ r[1] = p[1]
<1>1. PICK a \in Seq(Word), b \in Seq(Word) : a = Spoken(r) /\ b = Spoken(p) /\ b = a \o z
  BY SpokenAny, SpokenNone DEF Word
<1>2. /\ r[1] \in Pulse /\ Len(a) \in Nat /\ Len(a) >= r[1].cnt
      /\ \A k \in 1 .. r[1].cnt : a[k] = r[1].val
      /\ Len(r) # 1 => Len(a) > r[1].cnt /\ a[r[1].cnt + 1] # r[1].val
      /\ Len(r) = 1 => Len(a) = r[1].cnt
  BY <1>1, SpokenBegins
<1>3. r[1].cnt \in Nat \ {0}
  BY <1>2, PulseIs
<1>4. /\ Len(b) = Len(a) + Len(z) /\ Len(z) \in Nat /\ \A k \in 1 .. Len(a) : b[k] = a[k]
  BY <1>1
<1>5. p # <<>>
  BY <1>1, <1>2, <1>3, <1>4, SpokenNone
<1>6. /\ p[1] \in Pulse /\ Len(b) \in Nat /\ Len(b) >= p[1].cnt
      /\ \A k \in 1 .. p[1].cnt : b[k] = p[1].val
      /\ Len(p) # 1 => Len(b) > p[1].cnt /\ b[p[1].cnt + 1] # p[1].val
      /\ Len(p) = 1 => Len(b) = p[1].cnt
  BY <1>1, <1>5, SpokenBegins
<1>7. p[1].cnt \in Nat \ {0}
  BY <1>6, PulseIs
<1>8. PICK m, n \in Nat \ {0}, v, w \in Word : m = r[1].cnt /\ n = p[1].cnt /\ v = r[1].val /\ w = p[1].val
  BY <1>2, <1>3, <1>6, <1>7, PulseIs
<1>9. v = w
  <2>1. 1 \in 1 .. m /\ 1 \in 1 .. n /\ 1 \in 1 .. Len(a)
    BY <1>2, <1>8, SMTT(60)
  <2> QED
    BY <1>2, <1>4, <1>6, <1>8, <2>1
<1>10. ~(m < n)
  <2> SUFFICES ASSUME m < n PROVE FALSE
    OBVIOUS
  <2>1. m + 1 \in 1 .. n /\ b[m + 1] = w
    <3>1. m + 1 \in 1 .. n
      OBVIOUS
    <3> QED
      BY <1>6, <1>8, <3>1
  <2>2. CASE Len(r) # 1
    <3>1. m + 1 \in 1 .. Len(a)
      BY <1>2, <1>8, <2>2, SMTT(60)
    <3> QED
      BY <1>2, <1>4, <1>8, <1>9, <2>1, <2>2, <3>1
  <2>3. CASE Len(r) = 1
    BY <1>2, <1>4, <1>6, <1>8, <2>3
  <2> QED
    BY <2>2, <2>3
<1>11. ~(n < m)
  <2> SUFFICES ASSUME n < m PROVE FALSE
    OBVIOUS
  <2>1. n + 1 \in 1 .. m /\ n + 1 \in 1 .. Len(a) /\ b[n + 1] = v
    <3>1. n + 1 \in 1 .. m
      OBVIOUS
    <3>0. Len(a) \in Nat /\ Len(a) >= m
      BY <1>2, <1>8
    <3>2. n + 1 \in 1 .. Len(a)
      BY <3>0, <3>1
    <3> QED
      BY <1>2, <1>4, <1>8, <3>1, <3>2
  <2>2. Len(b) >= m
    BY <1>2, <1>4, <1>8
  <2> QED
    BY <1>6, <1>8, <1>9, <2>1, <2>2
<1>12. m = n
  BY <1>10, <1>11
<1>13. r[1] = p[1]
  <2>1. \A x \in Pulse : x = [control |-> {}, mode |-> "LOAD", pos |-> 0, cnt |-> x.cnt, val |-> x.val]
    BY DEF Pulse
  <2> QED
    BY <1>2, <1>6, <1>8, <1>9, <1>12, <2>1
<1> QED
  BY <1>5, <1>13

\* One more run.
LEMMA SpokenLast ==
  ASSUME NEW p \in Seq(Pulse), NEW x \in Pulse
  PROVE  Append(p, x) \in Seq(Pulse) /\ Spoken(Append(p, x)) = Spoken(p) \o RunSamples(x)
<1>1. Append(p, x) = p \o <<x>> /\ <<x>> \in Seq(Pulse) /\ Append(p, x) \in Seq(Pulse)
  OBVIOUS
<1>2. Spoken(<<x>>) = RunSamples(x)
  <2>1. <<>> \in Seq(Pulse) /\ <<x>> \o <<>> = <<x>>
    OBVIOUS
  <2>2. Spoken(<<x>> \o <<>>) = RunSamples(x) \o Spoken(<<>>) /\ RunSamples(x) \in Seq(Word)
    BY <2>1, SpokenFirst
  <2>3. RunSamples(x) \o <<>> = RunSamples(x)
    BY <2>2
  <2> QED
    BY <2>1, <2>2, <2>3, SpokenNone
<1> QED
  BY <1>1, <1>2, SpokenConcat

\* A run of another value after the last.
LEMMA NewRun ==
  ASSUME NEW p \in Seq(Pulse), NEW x \in Pulse, Apart(p), p # <<>> => p[Len(p)].val # x.val
  PROVE  Apart(Append(p, x))
<1> SUFFICES ASSUME NEW i \in 1 .. (Len(Append(p, x)) - 1)
             PROVE  Append(p, x)[i].val # Append(p, x)[i + 1].val
  BY DEF Apart
<1>1. /\ Len(p) \in Nat /\ Len(Append(p, x)) = Len(p) + 1 /\ Append(p, x)[Len(p) + 1] = x
      /\ \A k \in 1 .. Len(p) : Append(p, x)[k] = p[k]
  OBVIOUS
<1>2. i \in 1 .. Len(p)
  BY <1>1
<1>3. CASE i = Len(p)
  <2>1. p # <<>>
    BY <1>2
  <2> QED
    BY <1>1, <1>2, <1>3, <2>1
<1>4. CASE i # Len(p)
  <2>1. i \in 1 .. (Len(p) - 1) /\ i + 1 \in 1 .. Len(p)
    BY <1>1, <1>2, <1>4
  <2> QED
    BY <1>1, <1>2, <2>1 DEF Apart
<1> QED
  BY <1>3, <1>4

\* The last run goes on.
LEMMA LongerRun ==
  ASSUME NEW p \in Seq(Pulse), NEW y \in Pulse, NEW x \in Pulse, Apart(Append(p, y)),
         y.val = x.val
  PROVE  LET z == [y EXCEPT !.cnt = y.cnt + x.cnt]
         IN  /\ z \in Pulse /\ Apart(Append(p, z))
             /\ Spoken(Append(p, z)) = Spoken(Append(p, y)) \o RunSamples(x)
<1> DEFINE z == [y EXCEPT !.cnt = y.cnt + x.cnt]
<1>1. z \in Pulse /\ z.val = y.val /\ z.cnt = y.cnt + x.cnt
  <2>1. y.cnt + x.cnt \in Nat \ {0}
    <3>1. \A a, b \in Nat \ {0} : a + b \in Nat \ {0}
      OBVIOUS
    <3> QED
      BY <3>1, PulseIs
  <2> QED
    BY <2>1 DEF Pulse
<1> HIDE DEF z
<1>2. Apart(p)
  <2> SUFFICES ASSUME NEW i \in 1 .. (Len(p) - 1) PROVE p[i].val # p[i + 1].val
    BY DEF Apart
  <2>1. /\ Len(p) \in Nat /\ Len(Append(p, y)) = Len(p) + 1
        /\ \A k \in 1 .. Len(p) : Append(p, y)[k] = p[k]
    OBVIOUS
  <2>2. i \in 1 .. (Len(Append(p, y)) - 1) /\ i \in 1 .. Len(p) /\ i + 1 \in 1 .. Len(p)
    BY <2>1
  <2> QED
    BY <2>1, <2>2 DEF Apart
<1>3. p # <<>> => p[Len(p)].val # y.val
  <2> SUFFICES ASSUME p # <<>> PROVE p[Len(p)].val # y.val
    OBVIOUS
  <2>1. /\ Len(p) \in Nat \ {0} /\ Len(Append(p, y)) = Len(p) + 1
        /\ Append(p, y)[Len(p)] = p[Len(p)] /\ Append(p, y)[Len(p) + 1] = y
    OBVIOUS
  <2>2. Len(p) \in 1 .. (Len(Append(p, y)) - 1)
    BY <2>1
  <2> QED
    BY <2>1, <2>2 DEF Apart
<1>4. Apart(Append(p, z))
  BY <1>1, <1>2, <1>3, NewRun
<1>5. RunSamples(z) = RunSamples(y) \o RunSamples(x)
  <2>1. PICK a \in Nat, b \in Nat, v \in Word : a = y.cnt /\ b = x.cnt /\ v = y.val /\ v = x.val /\ z.cnt = a + b /\ z.val = v
    BY <1>1, PulseIs
  <2>2. RunSamples(y) = [k \in 1 .. a |-> v] /\ RunSamples(x) = [k \in 1 .. b |-> v] /\ RunSamples(z) = [k \in 1 .. (a + b) |-> v]
    BY <2>1 DEF RunSamples
  <2>3. [k \in 1 .. (a + b) |-> v] = [k \in 1 .. a |-> v] \o [k \in 1 .. b |-> v]
    OBVIOUS
  <2> QED
    BY <2>2, <2>3
<1>6. Spoken(Append(p, z)) = Spoken(Append(p, y)) \o RunSamples(x)
  <2>1. PICK s, h, g \in Seq(Word) : s = Spoken(p) /\ h = RunSamples(y) /\ g = RunSamples(x)
    <3>1. {} \in Word /\ <<>> \in Seq(Pulse)
      BY DEF Word
    <3>2. Spoken(p) \in Seq(Word)
      BY <3>1, SpokenAny
    <3>3. RunSamples(y) \in Seq(Word) /\ RunSamples(x) \in Seq(Word)
      BY <3>1, SpokenFirst
    <3> QED
      BY <3>2, <3>3
  <2>2. Spoken(Append(p, z)) = s \o (h \o g) /\ Spoken(Append(p, y)) = s \o h
    BY <1>1, <1>5, <2>1, SpokenLast
  <2>3. (s \o h) \o g = s \o (h \o g)
    BY WordsAssociative
  <2> QED
    BY <2>1, <2>2, <2>3
<1> QED
  BY <1>1, <1>4, <1>6 DEF z

\* One element from the value the outputs have.
LEMMA EndsOne ==
  ASSUME NEW e \in PlainElement, NEW q \in Word, Plays(e)
  PROVE  /\ EndsAt(<<e>>, q) = updated_value(e, q)
         /\ Heard(<<e>>, q) = [k \in 1 .. e.cnt |-> updated_value(e, q)]
<1>1. <<e>> \in Seq(PlainElement) /\ Len(<<e>>) = 1 /\ <<e>>[1] = e /\ 1 \in 1 .. 1 /\ 1 - 1 = 0
  OBVIOUS
<1>2. Sampling(<<e>>, q)[1] = SampleStep(SampleStart(q), e)
  <2>1. PICK p \in Seq(PlainElement) : p = <<e>> /\ Len(p) = 1 /\ p[1] = e
    BY <1>1
  <2>2. /\ Sampling(p, q)[0] = SampleStart(q)
        /\ \A i \in 1 .. Len(p) : Sampling(p, q)[i] = SampleStep(Sampling(p, q)[i - 1], p[i])
    BY PlainTable
  <2> QED
    BY <1>1, <2>1, <2>2
<1>3. SampleStart(q) \in Samplings /\ SampleStart(q).prev = q
  <2>1. <<>> \in Seq(OutWord)
    OBVIOUS
  <2> QED
    BY <2>1 DEF SampleStart, Samplings
<1>4. SampleStep(SampleStart(q), e).prev = updated_value(e, q)
  BY <1>3, PlainStep
<1>5. EndsAt(<<e>>, q) = updated_value(e, q)
  BY <1>1, <1>2, <1>4 DEF EndsAt
<1>6. PICK h : h = [k \in 1 .. e.cnt |-> updated_value(e, q)]
  OBVIOUS
<1>7. h \in Seq(Word) /\ updated_value(e, q) \in Word
  <2>1. updated_value(e, q) \in Word /\ e.cnt \in Nat
    BY PlainIs, OperationsAgree
  <2> QED
    BY <1>6, <2>1
<1>8. Heard(<<e>> \o <<>>, q) = h \o Heard(<<>>, updated_value(e, q))
  <2>1. <<>> \in Seq(PlainElement)
    OBVIOUS
  <2> QED
    BY <1>6, <2>1, HeardOne
<1>9. Heard(<<>>, updated_value(e, q)) = <<>>
  BY <1>7, HeardNone
<1>10. <<e>> \o <<>> = <<e>> /\ h \o <<>> = h
  BY <1>1, <1>7
<1> QED
  BY <1>5, <1>6, <1>8, <1>9, <1>10

\* The conditions of the trigger, which have no samples.
Silent == {e \in PlainElement : is_trigger(e)}
\* m is what merge has made of the elements w: the conditions of the trigger, and
\* after them the runs of what w plays.
Compressed(m, w, v) ==
  \E tr \in Seq(Silent), p \in Seq(Pulse) :
    /\ m = tr \o p /\ Apart(p) /\ Spoken(p) = Heard(w, v)
    /\ p # <<>> => /\ p[Len(p)].val = EndsAt(w, v)
                   /\ \E j \in DOMAIN w : is_regular(w[j])

\* A condition of the trigger before any run.
LEMMA CompressTrigger ==
  ASSUME NEW m, NEW w \in Seq(PlainElement), NEW e \in PlainElement, NEW v \in Word,
         Compressed(m, w, v), is_trigger(e), \A j \in DOMAIN w : ~is_regular(w[j])
  PROVE  Compressed(Append(m, e), w \o <<e>>, v)
<1>1. PICK tr \in Seq(Silent), p \in Seq(Pulse) :
        /\ m = tr \o p /\ Apart(p) /\ Spoken(p) = Heard(w, v)
        /\ p # <<>> => /\ p[Len(p)].val = EndsAt(w, v)
                       /\ \E j \in DOMAIN w : is_regular(w[j])
  BY DEF Compressed
<1>2. p = <<>>
  BY <1>1
<1>3. e \in Silent /\ Append(tr, e) \in Seq(Silent) /\ Append(m, e) = Append(tr, e) \o p
  <2>1. e \in Silent
    BY DEF Silent
  <2> QED
    BY <1>1, <1>2, <2>1
<1>4. Heard(w \o <<e>>, v) = Heard(w, v)
  <2>1. PICK q \in Word : q = EndsAt(w, v)
    BY HeardConcat
  <2>2. <<e>> \in Seq(PlainElement) /\ <<>> \in Seq(PlainElement) /\ <<e>> \o <<>> = <<e>>
    OBVIOUS
  <2>3. ~Plays(e)
    BY DEF Plays
  <2>4. Heard(<<e>>, q) = <<>>
    <3>1. Heard(<<e>> \o <<>>, q) = Heard(<<>>, q)
      BY <2>2, <2>3, HeardOne
    <3>2. Heard(<<>>, q) = <<>>
      BY HeardNone
    <3> QED
      BY <2>2, <3>1, <3>2
  <2>5. Heard(w \o <<e>>, v) = Heard(w, v) \o Heard(<<e>>, q) /\ Heard(w, v) \in Seq(Word)
    BY <2>1, <2>2, HeardConcat
  <2>6. \A h \in Seq(Word) : h \o <<>> = h
    OBVIOUS
  <2> QED
    BY <2>4, <2>5, <2>6
<1> QED
  BY <1>1, <1>2, <1>3, <1>4 DEF Compressed

\* convert_to_BitLoad makes a run of a regular element without control bits.
LEMMA BitLoadRun ==
  ASSUME NEW e \in PlainElement, NEW q \in Word, is_regular(e), e.cnt # 0,
         e.control = {}, e.pos = 0
  PROVE  /\ as_bitload_after(e, q) \in Pulse
         /\ as_bitload_after(e, q).cnt = e.cnt
         /\ as_bitload_after(e, q).val = updated_value(e, q)
<1>1. PICK u \in Word : u = updated_value(e, q)
  BY PlainIs, OperationsAgree
<1>2. e \in Element
  BY PlainIs
<1>3. as_bitload_after(e, q) = [e EXCEPT !.val = u, !.mode = "LOAD", !.control = {}]
  BY <1>1, <1>2 DEF as_bitload_after, with_regular_value, Element
<1>4. as_bitload_after(e, q)
        = [control |-> {}, mode |-> "LOAD", pos |-> 0, cnt |-> e.cnt, val |-> u]
  BY <1>2, <1>3 DEF Element
<1>5. e.cnt \in Nat \ {0}
  BY <1>2 DEF Element
<1> QED
  BY <1>1, <1>4, <1>5 DEF Pulse

\* Two runs merge when their values are the same.
LEMMA RunsMerge ==
  ASSUME NEW x \in Pulse, NEW y \in Pulse
  PROVE  MergesWith(x, y) <=> x.val = y.val
<1>1. is_regular(x) /\ is_regular(y)
  BY PulseIs DEF encodes_pulses
<1>2. /\ x = [control |-> {}, mode |-> "LOAD", pos |-> 0, cnt |-> x.cnt, val |-> x.val]
      /\ [y EXCEPT !.cnt = x.cnt]
           = [control |-> {}, mode |-> "LOAD", pos |-> 0, cnt |-> x.cnt, val |-> y.val]
  BY DEF Pulse
<1> QED
  BY <1>1, <1>2 DEF MergesWith

\* A regular element after the others.
LEMMA CompressRun ==
  ASSUME NEW m, NEW w \in Seq(PlainElement), NEW e \in PlainElement, NEW v \in Word,
         Compressed(m, w, v), is_regular(e), e.cnt # 0, e.control = {}, e.pos = 0,
         m # Error, MergeStep(m, as_bitload_after(e, EndsAt(w, v))) # Error
  PROVE  Compressed(MergeStep(m, as_bitload_after(e, EndsAt(w, v))), w \o <<e>>, v)
<1>0. PICK q \in Word : q = EndsAt(w, v)
  BY HeardConcat
<1>1. PICK x \in Pulse : x = as_bitload_after(e, q) /\ x.cnt = e.cnt /\ x.val = updated_value(e, q)
  BY BitLoadRun
<1>2. PICK tr \in Seq(Silent), p \in Seq(Pulse) :
        /\ m = tr \o p /\ Apart(p) /\ Spoken(p) = Heard(w, v)
        /\ p # <<>> => p[Len(p)].val = q
  BY <1>0 DEF Compressed
<1>3. PICK n : n = MergeStep(m, x) /\ n # Error
  BY <1>0, <1>1
<1>4. /\ tr \in Seq(Loose(Word, Nat)) /\ p \in Seq(Loose(Word, Nat)) /\ x \in Loose(Word, Nat)
      /\ m \in Seq(Loose(Word, Nat))
  <2>1. Silent \subseteq Loose(Word, Nat) /\ Pulse \subseteq Loose(Word, Nat)
    BY PlainIs, PulseIs DEF Silent, Loose, Element
  <2> QED
    BY <1>2, <2>1
<1>9. tr \o Append(p, x) = Append(tr \o p, x)
  <2>1. PICK S : S = Loose(Word, Nat)
    OBVIOUS
  <2>2. tr \in Seq(S) /\ p \in Seq(S) /\ x \in S
    BY <1>4, <2>1
  <2> QED
    BY <2>2, AppendSecond
<1>5. /\ m = <<>> \/ ~MergesWith(Last(m), x) => n = Append(m, x)
      /\ m # <<>> /\ MergesWith(Last(m), x)
           => n = Append(Front(m), with_count(Last(m), Last(m).cnt + x.cnt))
  BY <1>3, <1>4, MergeStepIs
<1>6. /\ Heard(w \o <<e>>, v) = Spoken(p) \o RunSamples(x) /\ EndsAt(w \o <<e>>, v) = x.val
      /\ w \o <<e>> \in Seq(PlainElement)
      /\ \E j \in DOMAIN (w \o <<e>>) : is_regular((w \o <<e>>)[j])
  <2>1. <<e>> \in Seq(PlainElement)
    OBVIOUS
  <2>2. Plays(e)
    BY DEF Plays, is_trigger, is_regular
  <2>3. EndsAt(<<e>>, q) = x.val /\ Heard(<<e>>, q) = RunSamples(x)
    <3>1. /\ EndsAt(<<e>>, q) = updated_value(e, q)
          /\ Heard(<<e>>, q) = [k \in 1 .. e.cnt |-> updated_value(e, q)]
      BY <2>2, EndsOne
    <3> QED
      BY <1>1, <3>1 DEF RunSamples
  <2>4. /\ EndsAt(w \o <<e>>, v) = EndsAt(<<e>>, q)
        /\ Heard(w \o <<e>>, v) = Heard(w, v) \o Heard(<<e>>, q)
    BY <1>0, <2>1, HeardConcat
  <2>5. /\ w \o <<e>> \in Seq(PlainElement) /\ Len(w) + 1 \in DOMAIN (w \o <<e>>)
        /\ (w \o <<e>>)[Len(w) + 1] = e
    OBVIOUS
  <2> QED
    BY <1>2, <2>3, <2>4, <2>5
<1>7. CASE p = <<>>
  <2>1. m = <<>> \/ ~MergesWith(Last(m), x)
    <3> SUFFICES ASSUME m # <<>> PROVE ~is_regular(Last(m))
      BY DEF MergesWith
    <3>1. m = tr /\ Last(m) \in Silent
      BY <1>2, <1>7 DEF Last
    <3> QED
      BY <3>1 DEF Silent, is_trigger, is_regular
  <2>2. n = tr \o Append(p, x)
    BY <1>2, <1>5, <2>1, <1>9
  <2>3. Append(p, x) \in Seq(Pulse) /\ Spoken(Append(p, x)) = Spoken(p) \o RunSamples(x)
    BY SpokenLast
  <2>4. Apart(Append(p, x))
    BY <1>2, <1>7, NewRun
  <2>5. Append(p, x)[Len(Append(p, x))] = x
    OBVIOUS
  <2>6. PICK r \in Seq(Pulse) : r = Append(p, x)
    BY <2>3
  <2> QED
    BY <1>0, <1>1, <1>3, <1>6, <2>2, <2>3, <2>4, <2>5, <2>6 DEF Compressed
<1>8. CASE p # <<>>
  <2>1. PICK f \in Seq(Pulse), y \in Pulse : p = Append(f, y) /\ y = p[Len(p)] /\ f = Front(p)
    <3>1. Front(p) \in Seq(Pulse) /\ p = Append(Front(p), p[Len(p)]) /\ p[Len(p)] \in Pulse
      <4>1. /\ Front(p) \in Seq(Pulse) /\ Len(Front(p)) = Len(p) - 1 /\ Len(p) \in Nat \ {0}
            /\ \A i \in 1 .. (Len(p) - 1) : Front(p)[i] = p[i]
        BY <1>8, FrontIs
      <4> QED
        BY <4>1
    <3> QED
      BY <3>1
  <2>2. /\ m # <<>> /\ Last(m) = y /\ Front(m) = tr \o f
    <3>1. p \in Seq(Loose(Word, Nat)) /\ tr \in Seq(Loose(Word, Nat))
      BY <1>4
    <3>2. Front(m) = tr \o Front(p)
      BY <1>2, <1>8, <3>1, FrontConcat, SMTT(60)
    <3>3. /\ Len(p) \in Nat \ {0} /\ Len(tr) \in Nat /\ Len(m) = Len(tr) + Len(p)
          /\ m[Len(tr) + Len(p)] = p[Len(p)]
      BY <1>2, <1>8, <3>1, SMTT(60)
    <3> QED
      BY <2>1, <3>2, <3>3 DEF Last
  <2>3. CASE y.val # x.val
    <3>1. n = Append(m, x)
      BY <1>5, <2>2, <2>3, RunsMerge
    <3>2. n = tr \o Append(p, x)
      BY <1>2, <1>9, <3>1
    <3>3. Append(p, x) \in Seq(Pulse) /\ Spoken(Append(p, x)) = Spoken(p) \o RunSamples(x)
      BY SpokenLast
    <3>4. Apart(Append(p, x))
      BY <1>2, <2>1, <2>3, NewRun
    <3>5. Append(p, x)[Len(Append(p, x))] = x
      OBVIOUS
    <3>6. PICK r \in Seq(Pulse) : r = Append(p, x)
      BY <3>3
    <3> QED
      BY <1>0, <1>1, <1>3, <1>6, <3>2, <3>3, <3>4, <3>5, <3>6 DEF Compressed
  <2>4. CASE y.val = x.val
    <3>1. PICK z : z = [y EXCEPT !.cnt = y.cnt + x.cnt]
      OBVIOUS
    <3>2. n = Append(tr \o f, z)
      BY <1>5, <2>2, <2>4, <3>1, RunsMerge DEF with_count
    <3>3. /\ z \in Pulse /\ Apart(Append(f, z))
          /\ Spoken(Append(f, z)) = Spoken(p) \o RunSamples(x)
      BY <1>2, <2>1, <2>4, <3>1, LongerRun
    <3>4. z.val = x.val
      BY <2>4, <3>1 DEF Pulse
    <3>7. Append(f, z) \in Seq(Pulse) /\ Append(f, z)[Len(Append(f, z))] = z
      BY <3>3
    <3>5. PICK r \in Seq(Pulse) : r = Append(f, z) /\ r[Len(r)] = z
      BY <3>7
    <3>6. n = tr \o r
      <4>1. f \in Seq(Loose(Word, Nat)) /\ z \in Loose(Word, Nat)
        <5>1. Pulse \subseteq Loose(Word, Nat)
          BY PulseIs, PlainIs DEF Loose, Element
        <5> QED
          BY <3>3, <5>1
      <4>2. PICK S : S = Loose(Word, Nat)
        OBVIOUS
      <4>3. tr \in Seq(S) /\ f \in Seq(S) /\ z \in S
        BY <1>4, <4>1, <4>2
      <4> QED
        BY <3>2, <3>5, <4>3, AppendSecond, SMTT(60)
    <3> QED
      BY <1>0, <1>1, <1>3, <1>6, <3>3, <3>4, <3>5, <3>6 DEF Compressed
  <2> QED
    BY <2>3, <2>4
<1> QED
  BY <1>7, <1>8

\* The values convert_to_BitLoad carries along are words.
LEMMA ValuesTable ==
  ASSUME NEW s \in Seq(PlainElement), NEW v \in Word
  PROVE  /\ \A i \in 0 .. Len(s) : ValuesAlong(s, v)[i] \in Word
         /\ ValuesAlong(s, v)[0] = v
         /\ \A i \in 1 .. Len(s) :
              ValuesAlong(s, v)[i] = IF is_regular(s[i]) THEN updated_value(s[i], ValuesAlong(s, v)[i - 1])
                                     ELSE ValuesAlong(s, v)[i - 1]
<1> DEFINE n == Len(s)
           Next1(w, e) == IF is_regular(e) THEN updated_value(e, w) ELSE w
           step == [r \in Word \X (1 .. n) |-> Next1(r[1], s[r[2]])]
           Body(f) == [i \in 0 .. n |-> IF i = 0 THEN v
                                        ELSE IF is_regular(s[i]) THEN updated_value(s[i], f[i - 1])
                                        ELSE f[i - 1]]
           t == CHOOSE f : f = Body(f)
<1>0. n \in Nat /\ \A i \in 1 .. n : s[i] \in PlainElement
  OBVIOUS
<1> HIDE DEF n
<1>1. \A w \in Word, e \in PlainElement : Next1(w, e) \in Word
  BY PlainIs, OperationsAgree
<1> HIDE DEF Next1
<1>2. step \in [Word \X (1 .. n) -> Word]
  <2>1. ASSUME NEW r \in Word \X (1 .. n) PROVE Next1(r[1], s[r[2]]) \in Word
    BY <1>0, <1>1
  <2> QED
    BY <2>1
<1>3. \A l \in Word, i \in 1 .. n : step[<<l, i>>] = Next1(l, s[i])
  OBVIOUS
<1> HIDE DEF step
<1>4. PICK f \in [0 .. n -> Word] : Table(f, v, step, n)
  BY <1>0, <1>2, TableExists
<1>5. f = Body(f)
  <2>1. ASSUME NEW i \in 0 .. n PROVE f[i] = Body(f)[i]
    <3>1. CASE i = 0
      BY <1>4, <3>1 DEF Table
    <3>2. CASE i # 0
      <4>1. i \in 1 .. n /\ i - 1 \in 0 .. n
        BY <1>0, <3>2
      <4>2. f[i] = Next1(f[i - 1], s[i])
        BY <1>3, <1>4, <4>1 DEF Table
      <4> QED
        BY <3>2, <4>2 DEF Next1
    <3> QED
      BY <3>1, <3>2
  <2> QED
    BY <1>4, <2>1
<1>6. t = Body(t)
  BY <1>5
<1>7. ValuesAlong(s, v) = t
  BY DEF ValuesAlong, n
<1> HIDE DEF t
<1>8. t[0] = v
  BY <1>0, <1>6
<1>9. ASSUME NEW i \in 1 .. n
      PROVE  t[i] = IF is_regular(s[i]) THEN updated_value(s[i], t[i - 1]) ELSE t[i - 1]
  <2>1. i \in 0 .. n /\ i # 0
    BY <1>0
  <2> QED
    BY <1>6, <2>1
<1> DEFINE S == {k \in Nat : k <= n => t[k] \in Word}
<1>10. 0 \in S
  BY <1>8
<1>11. ASSUME NEW k \in Nat, k \in S PROVE k + 1 \in S
  <2> SUFFICES ASSUME k + 1 <= n PROVE t[k + 1] \in Word
    OBVIOUS
  <2>1. k + 1 \in 1 .. n /\ (k + 1) - 1 = k /\ k <= n
    BY <1>0
  <2>2. t[k + 1] = Next1(t[k], s[k + 1])
    BY <1>9, <2>1 DEF Next1
  <2> QED
    BY <1>0, <1>1, <1>11, <2>1, <2>2
<1> HIDE DEF S
<1>12. Nat \subseteq S
  BY <1>10, <1>11, NatInductive
<1>13. \A k \in 0 .. n : t[k] \in Word
  BY <1>0, <1>12 DEF S
<1> QED
  BY <1>7, <1>8, <1>9, <1>13 DEF n

\* drop_count0, one element further.
LEMMA DropOne ==
  ASSUME NEW S, NEW s \in Seq(S), NEW e \in S
  PROVE  /\ drop_count0(Append(s, e)) = drop_count0(s) \o (IF e.cnt # 0 THEN <<e>> ELSE <<>>)
         /\ drop_count0(s) \in Seq(S)
<1> DEFINE D(x) == IF x.cnt # 0 THEN <<x>> ELSE <<>>
           t == [i \in 1 .. Len(s) |-> D(s[i])]
           u == [i \in 1 .. (Len(s) + 1) |-> D(Append(s, e)[i])]
<1>1. /\ Len(s) \in Nat /\ DOMAIN s = 1 .. Len(s) /\ DOMAIN Append(s, e) = 1 .. (Len(s) + 1)
      /\ \A i \in 1 .. Len(s) : s[i] \in S /\ Append(s, e)[i] = s[i]
      /\ Append(s, e)[Len(s) + 1] = e
  OBVIOUS
<1>2. \A x \in S : D(x) \in Seq(S)
  <2> TAKE x \in S
  <2>1. <<x>> \in Seq(S) /\ <<>> \in Seq(S)
    OBVIOUS
  <2> QED
    BY <2>1
<1>3. drop_count0(s) = FlattenSeq(t) /\ drop_count0(Append(s, e)) = FlattenSeq(u)
  BY <1>1 DEF drop_count0
<1> HIDE DEF D
<1>4. t \in Seq(Seq(S)) /\ Len(t) = Len(s)
  BY <1>1, <1>2
<1>5. u = Append(t, D(e))
  <2>1. u \in Seq(Seq(S)) /\ Len(u) = Len(s) + 1
    <3>1. \A i \in 1 .. (Len(s) + 1) : Append(s, e)[i] \in S
      BY <1>1
    <3> QED
      BY <1>1, <1>2, <3>1
  <2>2. /\ Append(t, D(e)) \in Seq(Seq(S)) /\ Len(Append(t, D(e))) = Len(s) + 1
        /\ Append(t, D(e))[Len(s) + 1] = D(e)
        /\ \A i \in 1 .. Len(s) : Append(t, D(e))[i] = t[i]
    BY <1>2, <1>4
  <2>3. ASSUME NEW i \in 1 .. Len(u) PROVE u[i] = Append(t, D(e))[i]
    <3>1. CASE i = Len(s) + 1
      BY <1>1, <2>1, <2>2, <3>1
    <3>2. CASE i # Len(s) + 1
      <4>1. i \in 1 .. Len(s) /\ i \in 1 .. (Len(s) + 1)
        BY <1>1, <2>1, <3>2
      <4> QED
        BY <1>1, <2>2, <4>1
    <3> QED
      BY <3>1, <3>2
  <2> HIDE DEF u, t
  <2> QED
    BY <2>1, <2>2, <2>3, SeqEqual
<1> HIDE DEF t, u
<1>6. D(e) \in Seq(S)
  BY <1>2
<1>7. FlattenSeq(Append(t, D(e))) = FlattenSeq(t) \o D(e) /\ FlattenSeq(t) \in Seq(S)
  BY <1>4, <1>6, FlattenAppend, FlattenType
<1> QED
  BY <1>3, <1>5, <1>7 DEF D

\* A sequence that is not empty, taken apart at its end.
LEMMA LastApart ==
  ASSUME NEW S, NEW s \in Seq(S), s # <<>>
  PROVE  \E f \in Seq(S), e \in S :
           /\ s = Append(f, e) /\ s = f \o <<e>> /\ Len(s) = Len(f) + 1 /\ f = Front(s) /\ e = s[Len(s)]
           /\ \A i \in 1 .. Len(f) : f[i] = s[i]
<1>1. /\ Front(s) \in Seq(S) /\ Len(Front(s)) = Len(s) - 1 /\ Len(s) \in Nat \ {0}
      /\ \A i \in 1 .. (Len(s) - 1) : Front(s)[i] = s[i]
  BY FrontIs
<1>2. s[Len(s)] \in S
  BY <1>1
<1>3. PICK f \in Seq(S), e \in S : f = Front(s) /\ e = s[Len(s)]
  BY <1>1, <1>2
<1>4. s = Append(f, e) /\ s = f \o <<e>> /\ Len(s) = Len(f) + 1
  BY <1>1, <1>3
<1> QED
  BY <1>1, <1>3, <1>4

\* drop_count0 drops the conditions of the trigger, whose count is zero, and keeps
\* the runs after them and the terminator.
LEMMA DropKeepsRuns ==
  ASSUME NEW tr \in Seq(Silent), NEW p \in Seq(Pulse), NEW f \in PlainElement, f.cnt = 1
  PROVE  drop_count0(Append(tr \o p, f)) = Append(p, f)
<1>0. Silent \subseteq PlainElement /\ Pulse \subseteq PlainElement
  BY PulseIs DEF Silent
<1> DEFINE A == {n \in Nat : \A t \in Seq(Silent) : Len(t) = n => drop_count0(t) = <<>>}
<1>1. 0 \in A
  <2>1. drop_count0(<<>>) = <<>>
    <3>1. [i \in DOMAIN <<>> |-> IF <<>>[i].cnt # 0 THEN <<<<>>[i]>> ELSE <<>>] = <<>>
      OBVIOUS
    <3> QED
      BY <3>1, FlattenEmpty DEF drop_count0
  <2> QED
    BY <2>1
<1>2. ASSUME NEW n \in Nat, n \in A PROVE n + 1 \in A
  <2> SUFFICES ASSUME NEW t \in Seq(Silent), Len(t) = n + 1 PROVE drop_count0(t) = <<>>
    OBVIOUS
  <2>1. t # <<>>
    BY <1>2
  <2>2. PICK g \in Seq(Silent), e \in Silent :
           /\ t = Append(g, e) /\ t = g \o <<e>> /\ Len(t) = Len(g) + 1 /\ g = Front(t) /\ e = t[Len(t)]
           /\ \A i \in 1 .. Len(g) : g[i] = t[i]
    BY <2>1, LastApart
  <2>3. drop_count0(g) = <<>>
    <3>1. Len(g) = n
      BY <1>2, <2>2
    <3> QED
      BY <1>2, <3>1
  <2>4. e.cnt = 0
    <3>1. e \in PlainElement /\ is_trigger(e)
      BY DEF Silent
    <3> QED
      BY <3>1 DEF PlainElement, is_trigger, is_final, is_regular
  <2>5. drop_count0(Append(g, e)) = drop_count0(g) \o <<>>
    BY <2>4, DropOne
  <2>6. <<>> \o <<>> = <<>>
    OBVIOUS
  <2> QED
    BY <2>2, <2>3, <2>5, <2>6
<1> HIDE DEF A
<1>3. Nat \subseteq A
  BY <1>1, <1>2, NatInductive
<1>4. drop_count0(tr) = <<>>
  BY <1>3 DEF A
<1> DEFINE B == {n \in Nat : \A q \in Seq(Pulse) : Len(q) = n => drop_count0(tr \o q) = q}
<1>5. 0 \in B
  <2> SUFFICES ASSUME NEW q \in Seq(Pulse), Len(q) = 0 PROVE drop_count0(tr \o q) = q
    OBVIOUS
  <2>1. q = <<>> /\ tr \o <<>> = tr
    BY SMTT(60)
  <2> QED
    BY <1>4, <2>1
<1>6. ASSUME NEW n \in Nat, n \in B PROVE n + 1 \in B
  <2> SUFFICES ASSUME NEW q \in Seq(Pulse), Len(q) = n + 1 PROVE drop_count0(tr \o q) = q
    OBVIOUS
  <2>1. q # <<>>
    BY <1>6
  <2>2. PICK g \in Seq(Pulse), e \in Pulse :
           /\ q = Append(g, e) /\ q = g \o <<e>> /\ Len(q) = Len(g) + 1 /\ g = Front(q) /\ e = q[Len(q)]
           /\ \A i \in 1 .. Len(g) : g[i] = q[i]
    BY <2>1, LastApart
  <2>3. drop_count0(tr \o g) = g
    <3>1. Len(g) = n
      BY <1>6, <2>2
    <3> QED
      BY <1>6, <3>1
  <2>4. e.cnt # 0
    BY PulseIs
  <2>5. tr \in Seq(PlainElement) /\ g \in Seq(PlainElement) /\ e \in PlainElement
    BY <1>0
  <2>6. tr \o Append(g, e) = Append(tr \o g, e) /\ tr \o g \in Seq(PlainElement)
    BY <2>5, AppendSecond
  <2>7. drop_count0(Append(tr \o g, e)) = drop_count0(tr \o g) \o <<e>>
    BY <2>4, <2>5, <2>6, DropOne
  <2> QED
    BY <2>2, <2>3, <2>6, <2>7
<1> HIDE DEF B
<1>7. Nat \subseteq B
  BY <1>5, <1>6, NatInductive
<1>8. drop_count0(tr \o p) = p
  BY <1>7 DEF B
<1>9. tr \o p \in Seq(PlainElement)
  BY <1>0
<1>10. drop_count0(Append(tr \o p, f)) = drop_count0(tr \o p) \o <<f>>
  <2>1. f.cnt # 0
    OBVIOUS
  <2> QED
    BY <1>9, <2>1, DropOne
<1>11. p \o <<f>> = Append(p, f)
  <2>1. p \in Seq(PlainElement)
    BY <1>0
  <2> QED
    BY <2>1
<1> QED
  BY <1>8, <1>10, <1>11

\* A condition of the trigger changes nothing.
LEMMA TriggerEnds ==
  ASSUME NEW x \in Seq(PlainElement), NEW e \in PlainElement, NEW v \in Word, is_trigger(e)
  PROVE  EndsAt(x \o <<e>>, v) = EndsAt(x, v)
<1>1. ~Plays(e) /\ <<e>> \in Seq(PlainElement) /\ <<>> \in Seq(PlainElement)
  BY DEF Plays
<1>2. EndsAt(x \o <<e>>, v) = EndsAt(<<e>>, EndsAt(x, v)) /\ EndsAt(x, v) \in Word
  BY <1>1, HeardConcat
<1> QED
  BY <1>1, <1>2, HeardOne

\* The reference of the check: after the conditions of the trigger, the runs of what
\* the sequence plays from the value it starts from.
LEMMA ReferenceCompressed ==
  ASSUME NEW s \in Seq(PlainElement), FinalEnds(s), NEW v \in Word, Comparable(s),
         convert_for_readback_check(s, v) # Error
  PROVE  \E m : /\ Compressed(m, Front(s), v)
                /\ convert_for_readback_check(s, v) = Append(m, s[Len(s)])
<1> DEFINE n == Len(s)
           V == ValuesAlong(s, v)
           c == convert_to_BitLoad(s, v)
<1>1. /\ n \in Nat \ {0} /\ DOMAIN s = 1 .. n
      /\ \A i \in 1 .. n : s[i] \in PlainElement /\ (is_final(s[i]) <=> i = n)
  BY DEF FinalEnds
<1>2. /\ \A i \in 0 .. n : V[i] \in Word
      /\ V[0] = v
      /\ \A i \in 1 .. n : V[i] = IF is_regular(s[i]) THEN updated_value(s[i], V[i - 1]) ELSE V[i - 1]
  BY ValuesTable
<1>3. /\ DOMAIN c = 1 .. n /\ c = [i \in 1 .. n |-> c[i]]
      /\ \A i \in 1 .. n : c[i] = as_bitload_after(s[i], V[i - 1])
  BY <1>1 DEF convert_to_BitLoad
<1>4. convert_for_readback_check(s, v) = merge(c)
  BY DEF convert_for_readback_check
<1> HIDE DEF n, V, c
<1>5. ASSUME NEW i \in 1 .. n, is_regular(s[i])
      PROVE  s[i].cnt # 0 /\ s[i].control = {} /\ s[i].pos = 0
  <2>1. i \in DOMAIN s
    BY <1>1
  <2>2. s[i].cnt > 0 /\ s[i].control = {} /\ s[i].pos = 0
    BY <1>5, <2>1 DEF Comparable, NothingEmpty
  <2> QED
    BY <2>2
<1>6. ASSUME NEW i \in 1 .. n, ~is_regular(s[i]) PROVE c[i] = s[i]
  BY <1>3, <1>6 DEF as_bitload_after
<1>7. c \in Seq(Loose(Word, Nat)) /\ Len(c) = n
  <2>1. ASSUME NEW i \in 1 .. n PROVE c[i] \in Loose(Word, Nat)
    <3>1. s[i] \in PlainElement /\ i - 1 \in 0 .. n
      BY <1>1
    <3>2. CASE is_regular(s[i])
      <4>1. c[i] \in Pulse
        <5>1. PICK h \in PlainElement : h = s[i]
          BY <3>1
        <5>2. PICK q \in Word : q = V[i - 1]
          BY <1>2, <3>1
        <5>3. c[i] = as_bitload_after(h, q)
          BY <1>3, <5>1, <5>2
        <5>4. is_regular(h) /\ h.cnt # 0 /\ h.control = {} /\ h.pos = 0
          BY <1>5, <3>2, <5>1
        <5> QED
          BY <5>3, <5>4, BitLoadRun, Zenon
      <4>2. PICK e \in Pulse : e = c[i]
        BY <4>1, Zenon
      <4>3. e \in PlainElement
        BY PulseIs, Zenon
      <4>4. e \in Element
        BY <4>3 DEF PlainElement
      <4> QED
        BY <4>2, <4>4 DEF Loose, Element
    <3>3. CASE ~is_regular(s[i])
      <4>1. c[i] \in Element
        BY <1>6, <3>1, <3>3, PlainIs
      <4> QED
        BY <4>1 DEF Loose, Element
    <3> QED
      BY <3>2, <3>3
  <2>2. c \in Seq(Loose(Word, Nat))
    <3>1. PICK k \in Nat : k = n
      BY <1>1
    <3>2. PICK L : L = Loose(Word, Nat)
      OBVIOUS
    <3>3. c = [i \in 1 .. k |-> c[i]] /\ \A i \in 1 .. k : c[i] \in L
      BY <1>3, <2>1, <3>1, <3>2
    <3>4. c \in Seq(L)
      BY <3>3, IsSeq
    <3> QED
      BY <3>2, <3>4
  <2>3. Len(c) = n
    BY <1>1, <1>3, <2>2
  <2> QED
    BY <2>2, <2>3
<1>8. PICK m \in [0 .. n -> Seq(Loose(Word, Nat))] :
        /\ m[0] = <<>> /\ merge(c) = m[n]
        /\ \A i \in 0 .. n : m[i] # Error
        /\ \A i \in 1 .. n : m[i] = MergeStep(m[i - 1], c[i])
  <2>1. merge(c) # Error
    BY <1>4
  <2>2. PICK k \in Nat : k = Len(c) /\ k = n
    BY <1>1, <1>7
  <2>3. \E m \in [0 .. Len(c) -> Seq(Loose(Word, Nat))] :
          /\ m[0] = <<>> /\ merge(c) = m[Len(c)]
          /\ \A i \in 0 .. Len(c) : m[i] # Error
          /\ \A i \in 1 .. Len(c) : m[i] = MergeStep(m[i - 1], c[i])
    BY <1>7, <2>1, MergeTable
  <2> QED
    BY <2>2, <2>3
<1> DEFINE Good(i, w) == Compressed(m[i], w, v) /\ V[i] = EndsAt(w, v)
           B == {i \in Nat : i < n => \A w \in Seq(PlainElement) :
                   Len(w) = i /\ (\A j \in 1 .. i : w[j] = s[j]) => Good(i, w)}
<1>9. 0 \in B
  <2> SUFFICES ASSUME NEW w \in Seq(PlainElement), Len(w) = 0 PROVE Good(0, w)
    OBVIOUS
  <2>1. w = <<>>
    OBVIOUS
  <2>2. Heard(<<>>, v) = <<>> /\ EndsAt(<<>>, v) = v
    BY HeardNone
  <2>3. Compressed(<<>>, <<>>, v)
    <3>1. <<>> \in Seq(Silent) /\ <<>> \in Seq(Pulse) /\ <<>> = <<>> \o <<>>
      OBVIOUS
    <3>2. Apart(<<>>)
      BY DEF Apart
    <3> QED
      BY <2>2, <3>1, <3>2, SpokenNone DEF Compressed
  <2> QED
    BY <1>2, <1>8, <2>1, <2>2, <2>3
<1>10. ASSUME NEW i \in Nat, i \in B PROVE i + 1 \in B
  <2> SUFFICES ASSUME i + 1 < n, NEW w \in Seq(PlainElement), Len(w) = i + 1,
                      \A j \in 1 .. (i + 1) : w[j] = s[j]
               PROVE  Good(i + 1, w)
    OBVIOUS
  <2>1. /\ i < n /\ i \in 0 .. n /\ i + 1 \in 1 .. n /\ i + 1 # n /\ (i + 1) - 1 = i /\ i + 1 \in 0 .. n
        /\ i + 1 \in 1 .. (i + 1)
    BY <1>1
  <2>2. w # <<>>
    OBVIOUS
  <2>3. PICK x \in Seq(PlainElement), e \in PlainElement :
          /\ w = Append(x, e) /\ w = x \o <<e>> /\ Len(w) = Len(x) + 1 /\ x = Front(w) /\ e = w[Len(w)]
          /\ \A j \in 1 .. Len(x) : x[j] = w[j]
    BY <2>2, LastApart
  <2>4. Len(x) = i /\ e = s[i + 1] /\ \A j \in 1 .. i : x[j] = s[j]
    <3>1. Len(x) = i
      BY <2>3
    <3>2. \A j \in 1 .. i : j \in 1 .. (i + 1)
      OBVIOUS
    <3> QED
      BY <2>1, <2>3, <3>1, <3>2
  <2>5. Good(i, x)
    BY <1>10, <2>1, <2>4
  <2>6. /\ m[i + 1] = MergeStep(m[i], c[i + 1]) /\ m[i] # Error /\ m[i + 1] # Error
        /\ V[i + 1] = IF is_regular(e) THEN updated_value(e, V[i]) ELSE V[i]
        /\ c[i + 1] = as_bitload_after(e, V[i])
    BY <1>2, <1>3, <1>8, <2>1, <2>4
  <2>7. ~is_final(e)
    BY <1>1, <2>1, <2>4
  <2>8. CASE is_trigger(e)
    <3>1. ~is_regular(e)
      BY <2>8 DEF is_trigger, is_regular
    <3>2. c[i + 1] = e
      BY <2>6, <3>1 DEF as_bitload_after
    <3>3. m[i + 1] = Append(m[i], e)
      BY <2>6, <3>1, <3>2 DEF MergeStep, MergesWith
    <3>4. \A j \in DOMAIN x : ~is_regular(x[j])
      <4>1. DOMAIN x = 1 .. i /\ i + 1 \in DOMAIN s /\ \A j \in 1 .. i : j \in 1 .. (i + 1)
        BY <1>1, <2>1, <2>4
      <4>2. \A j \in 1 .. (i + 1) : ~is_regular(s[j])
        BY <2>4, <2>8, <4>1 DEF Comparable
      <4> QED
        BY <2>4, <4>1, <4>2
    <3>5. Compressed(Append(m[i], e), x \o <<e>>, v)
      BY <2>5, <2>8, <3>4, CompressTrigger
    <3>6. V[i + 1] = EndsAt(x \o <<e>>, v)
      BY <2>5, <2>6, <2>8, <3>1, TriggerEnds
    <3> QED
      BY <2>3, <3>3, <3>5, <3>6
  <2>9. CASE is_regular(e)
    <3>1. e.cnt # 0 /\ e.control = {} /\ e.pos = 0
      BY <1>5, <2>1, <2>4, <2>9
    <3>2. m[i + 1] = MergeStep(m[i], as_bitload_after(e, EndsAt(x, v)))
      BY <2>5, <2>6
    <3>3. Compressed(m[i], x, v)
      BY <2>5
    <3>4. Compressed(m[i + 1], x \o <<e>>, v)
      <4>1. PICK mi : mi = m[i]
        OBVIOUS
      <4>2. /\ Compressed(mi, x, v) /\ mi # Error
            /\ MergeStep(mi, as_bitload_after(e, EndsAt(x, v))) # Error
        BY <2>6, <3>2, <3>3, <4>1
      <4>3. Compressed(MergeStep(mi, as_bitload_after(e, EndsAt(x, v))), x \o <<e>>, v)
        BY <2>9, <3>1, <4>2, CompressRun
      <4> QED
        BY <3>2, <4>1, <4>3
    <3>5. V[i + 1] = EndsAt(x \o <<e>>, v)
      <4>1. Plays(e) /\ <<e>> \in Seq(PlainElement)
        BY <2>9, <3>1 DEF Plays, is_trigger, is_regular
      <4>2. PICK q \in Word : q = EndsAt(x, v) /\ EndsAt(x \o <<e>>, v) = EndsAt(<<e>>, q)
        BY <4>1, HeardConcat
      <4>3. EndsAt(<<e>>, q) = updated_value(e, q)
        BY <4>1, EndsOne
      <4> QED
        BY <2>5, <2>6, <2>9, <4>2, <4>3
    <3> QED
      BY <2>3, <3>4, <3>5
  <2> QED
    BY <2>7, <2>8, <2>9, PlainIs
<1> HIDE DEF B
<1>11. Nat \subseteq B
  BY <1>9, <1>10, NatInductive
<1>12. PICK f \in Seq(PlainElement), e \in PlainElement :
         /\ s = Append(f, e) /\ s = f \o <<e>> /\ Len(s) = Len(f) + 1 /\ f = Front(s) /\ e = s[Len(s)]
         /\ \A j \in 1 .. Len(f) : f[j] = s[j]
  <2>1. s # <<>>
    BY DEF FinalEnds
  <2> QED
    BY <2>1, LastApart
<1>13. n - 1 \in Nat /\ n - 1 < n /\ Len(f) = n - 1 /\ e = s[n] /\ n \in 1 .. n /\ n \in 0 .. n
       /\ n - 1 \in 0 .. n
  BY <1>1, <1>12 DEF n
<1>14. Good(n - 1, f)
  BY <1>11, <1>12, <1>13 DEF B
<1>15. ~is_regular(e)
  <2>1. is_final(e)
    BY <1>1, <1>13
  <2> QED
    BY <2>1 DEF is_final, is_regular
<1>16. m[n] = Append(m[n - 1], e)
  <2>1. c[n] = e
    BY <1>6, <1>13, <1>15
  <2>2. m[n] = MergeStep(m[n - 1], e) /\ m[n - 1] # Error
    BY <1>8, <1>13, <2>1, SMTT(60)
  <2> QED
    BY <1>15, <2>2 DEF MergeStep, MergesWith
<1>17. Compressed(m[n - 1], Front(s), v) /\ convert_for_readback_check(s, v) = Append(m[n - 1], s[Len(s)])
  BY <1>4, <1>8, <1>12, <1>14, <1>16
<1> QED
  BY <1>17

\* The reference of the check is the runs of what the sequence plays, and the
\* terminator.
THEOREM ReferenceRuns ==
  ASSUME NEW s \in Seq(PlainElement), FinalEnds(s), NEW v \in Word, Comparable(s),
         convert_for_readback_check(s, v) # Error
  PROVE  \E p \in Seq(Pulse) : \E f \in PlainElement :
           /\ drop_count0(convert_for_readback_check(s, v)) = Append(p, f)
           /\ is_final(f) /\ Apart(p) /\ Spoken(p) = Heard(Front(s), v)
<1>1. PICK m : /\ Compressed(m, Front(s), v)
               /\ convert_for_readback_check(s, v) = Append(m, s[Len(s)])
  BY ReferenceCompressed
<1>2. PICK tr \in Seq(Silent), p \in Seq(Pulse) : m = tr \o p /\ Apart(p) /\ Spoken(p) = Heard(Front(s), v)
  BY <1>1 DEF Compressed
<1>3. PICK f \in PlainElement : f = s[Len(s)] /\ is_final(f) /\ f.cnt = 1
  <2>1. s[Len(s)] \in PlainElement /\ is_final(s[Len(s)])
    BY DEF FinalEnds
  <2> QED
    BY <2>1, PlainIs
<1>4. drop_count0(Append(tr \o p, f)) = Append(p, f)
  BY <1>3, DropKeepsRuns
<1> QED
  BY <1>1, <1>2, <1>3, <1>4
-----------------------------------------------------------------------------
(***************************************************************************)
(* What the read-back holds: a run per value seen on the outputs, and the  *)
(* one that is still open.                                                 *)
(***************************************************************************)
\* What the read-back holds: the runs in its FIFO and the open one.
RbStates == [open : Element \cup {None}, fifo : Seq(Element), lost : BOOLEAN]
\* All of its runs, in order.
Backs(r) == r.fifo \o (IF r.open = None THEN <<>> ELSE <<r.open>>)

\* A flushed read-back has no open run, and loses the run or keeps it.
LEMMA FlushedIs ==
  ASSUME NEW r \in RbStates
  PROVE  /\ Flushed(r) \in RbStates /\ Flushed(r).open = None
         /\ r.lost => Flushed(r).lost
         /\ ~Flushed(r).lost => Backs(Flushed(r)) = Backs(r)
<1>1. /\ r = [open |-> r.open, fifo |-> r.fifo, lost |-> r.lost]
      /\ r.open \in Element \cup {None} /\ r.fifo \in Seq(Element) /\ r.lost \in BOOLEAN
  BY DEF RbStates
<1>2. CASE r.open = None
  BY <1>2 DEF Flushed
<1>3. CASE r.open # None /\ Len(r.fifo) = READBACK_SIZE
  <2>1. Flushed(r) = [open |-> None, fifo |-> r.fifo, lost |-> TRUE]
    BY <1>1, <1>3 DEF Flushed
  <2> QED
    BY <1>1, <2>1 DEF RbStates
<1>4. CASE r.open # None /\ Len(r.fifo) # READBACK_SIZE
  <2>1. Flushed(r) = [open |-> None, fifo |-> Append(r.fifo, r.open), lost |-> r.lost]
    BY <1>1, <1>4 DEF Flushed
  <2>2. PICK f \in Seq(Element), o \in Element : f = r.fifo /\ o = r.open
    BY <1>1, <1>4
  <2>3. Append(f, o) \in Seq(Element) /\ Append(f, o) = f \o <<o>> /\ Append(f, o) \o <<>> = Append(f, o)
    OBVIOUS
  <2>4. Flushed(r) \in RbStates
    BY <1>1, <2>1, <2>2, <2>3 DEF RbStates
  <2> QED
    BY <1>4, <2>1, <2>2, <2>3, <2>4 DEF Backs
<1> QED
  BY <1>2, <1>3, <1>4

\* An element played joins the open run or opens one of its own.
LEMMA SampledIs ==
  ASSUME NEW r \in RbStates, NEW c \in Nat, NEW v \in Word
  PROVE  /\ Sampled(r, c, v) \in RbStates /\ Sampled(r, c, v).open # None
         /\ r.lost => Sampled(r, c, v).lost
<1>1. /\ r = [open |-> r.open, fifo |-> r.fifo, lost |-> r.lost]
      /\ r.open \in Element \cup {None} /\ r.fifo \in Seq(Element) /\ r.lost \in BOOLEAN
  BY DEF RbStates
<1>2. CASE r.open # None /\ r.open.val = v
  <2>1. PICK o \in Element : o = r.open
    BY <1>1, <1>2
  <2>2. PICK z : z = [o EXCEPT !.cnt = o.cnt + c]
    OBVIOUS
  <2>3. z \in Element
    <3>1. o.cnt + c \in Nat
      BY DEF Element
    <3> QED
      BY <2>2, <3>1 DEF Element
  <2>4. Sampled(r, c, v) = [open |-> z, fifo |-> r.fifo, lost |-> r.lost]
    BY <1>1, <1>2, <2>1, <2>2 DEF Sampled
  <2> QED
    BY <1>1, <2>3, <2>4, NoneAssumption DEF RbStates
<1>3. CASE ~(r.open # None /\ r.open.val = v)
  <2>1. PICK f : f = Flushed(r)
    OBVIOUS
  <2>2. /\ f \in RbStates /\ (r.lost => f.lost)
    BY <2>1, FlushedIs
  <2>3. PICK x : x = Regular(c, "LOAD", v)
    OBVIOUS
  <2>4. x \in Element
    <3>1. 0 \in Positions /\ "LOAD" \in BitOps
      BY MemoryAssumption DEF Positions, BitOps
    <3> QED
      BY <2>3, <3>1 DEF Regular, Element
  <2>5. Sampled(r, c, v) = [open |-> x, fifo |-> f.fifo, lost |-> f.lost]
    <3>1. Sampled(r, c, v) = [f EXCEPT !.open = x]
      BY <1>3, <2>1, <2>3 DEF Sampled
    <3> QED
      BY <2>2, <3>1 DEF RbStates
  <2> QED
    BY <2>2, <2>4, <2>5, NoneAssumption DEF RbStates
<1> QED
  BY <1>2, <1>3

\* What is read back is what is played, as runs no two neighbours of which could
\* be one.
LEMMA SampledRuns ==
  ASSUME NEW r \in RbStates, NEW c \in Nat \ {0}, NEW v \in Word,
         Backs(r) \in Seq(Pulse), Apart(Backs(r)), r.open = None => r.fifo = <<>>,
         ~Sampled(r, c, v).lost
  PROVE  /\ Backs(Sampled(r, c, v)) \in Seq(Pulse) /\ Apart(Backs(Sampled(r, c, v)))
         /\ Spoken(Backs(Sampled(r, c, v))) = Spoken(Backs(r)) \o [k \in 1 .. c |-> v]
<1>1. /\ r = [open |-> r.open, fifo |-> r.fifo, lost |-> r.lost]
      /\ r.open \in Element \cup {None} /\ r.fifo \in Seq(Element) /\ r.lost \in BOOLEAN
  BY DEF RbStates
<1>2. PICK x \in Pulse : x = Regular(c, "LOAD", v) /\ x.cnt = c /\ x.val = v
  <2>1. Regular(c, "LOAD", v) \in Pulse
    BY DEF Regular, Pulse
  <2>2. Regular(c, "LOAD", v).cnt = c /\ Regular(c, "LOAD", v).val = v
    BY DEF Regular
  <2> QED
    BY <2>1, <2>2
<1>3. RunSamples(x) = [k \in 1 .. c |-> v]
  BY <1>2 DEF RunSamples
<1>4. CASE r.open # None /\ r.open.val = v
  <2>1. PICK f \in Seq(Element), o \in Element : f = r.fifo /\ o = r.open
    BY <1>1, <1>4
  <2>2. Backs(r) = Append(f, o)
    BY <1>4, <2>1 DEF Backs
  <2>3. f \in Seq(Pulse) /\ o \in Pulse
    <3>1. PICK g \in Seq(Pulse) : g = Append(f, o)
      BY <2>2
    <3>2. /\ Len(g) = Len(f) + 1 /\ g[Len(f) + 1] = o /\ \A i \in 1 .. Len(f) : g[i] = f[i]
      BY <3>1
    <3>3. \A i \in 1 .. Len(g) : g[i] \in Pulse
      OBVIOUS
    <3>4. Len(f) \in Nat /\ Len(f) + 1 \in 1 .. Len(g) /\ \A i \in 1 .. Len(f) : i \in 1 .. Len(g)
      BY <3>2
    <3>5. o \in Pulse /\ \A i \in 1 .. Len(f) : f[i] \in Pulse
      BY <3>2, <3>3, <3>4
    <3> QED
      BY <3>5, IsSeq
  <2>4. PICK z : z = [o EXCEPT !.cnt = o.cnt + c]
    OBVIOUS
  <2>5. Sampled(r, c, v) = [open |-> z, fifo |-> f, lost |-> r.lost]
    BY <1>1, <1>4, <2>1, <2>4 DEF Sampled
  <2>6. o.val = x.val /\ Apart(Append(f, o))
    BY <1>2, <1>4, <2>1, <2>2
  <2>7. z \in Pulse /\ Apart(Append(f, z)) /\ Spoken(Append(f, z)) = Spoken(Append(f, o)) \o RunSamples(x)
    <3>1. z = [o EXCEPT !.cnt = o.cnt + x.cnt]
      BY <1>2, <2>4
    <3>2. /\ [o EXCEPT !.cnt = o.cnt + x.cnt] \in Pulse
          /\ Apart(Append(f, [o EXCEPT !.cnt = o.cnt + x.cnt]))
          /\ Spoken(Append(f, [o EXCEPT !.cnt = o.cnt + x.cnt])) = Spoken(Append(f, o)) \o RunSamples(x)
      BY <2>3, <2>6, LongerRun, ZenonT(60)
    <3> QED
      BY <3>1, <3>2
  <2>8. z # None
    BY <2>7, PulseIs, PlainIs, NoneAssumption
  <2>9. Backs(Sampled(r, c, v)) = Append(f, z)
    <3>1. f \o <<z>> = Append(f, z)
      BY <2>1
    <3> QED
      BY <2>5, <2>8, <3>1 DEF Backs
  <2>10. Append(f, z) \in Seq(Pulse)
    BY <2>3, <2>7
  <2> QED
    BY <1>3, <2>2, <2>7, <2>9, <2>10
<1>5. CASE ~(r.open # None /\ r.open.val = v)
  <2>1. PICK g : g = Flushed(r)
    OBVIOUS
  <2>2. /\ g \in RbStates /\ g.open = None /\ (~g.lost => Backs(g) = Backs(r))
    BY <2>1, FlushedIs
  <2>3. Sampled(r, c, v) = [open |-> x, fifo |-> g.fifo, lost |-> g.lost]
    <3>1. Sampled(r, c, v) = [g EXCEPT !.open = x]
      BY <1>2, <1>5, <2>1 DEF Sampled
    <3> QED
      BY <2>2, <3>1 DEF RbStates
  <2>4. ~g.lost /\ Backs(g) = Backs(r) /\ g.fifo \in Seq(Element)
    BY <2>2, <2>3 DEF RbStates
  <2>5. g.fifo = Backs(r)
    <3>1. g.fifo \o <<>> = g.fifo
      BY <2>4
    <3> QED
      BY <2>2, <2>4, <3>1 DEF Backs
  <2>6. PICK b \in Seq(Pulse) : b = Backs(r) /\ Apart(b)
    OBVIOUS
  <2>7. Backs(Sampled(r, c, v)) = Append(b, x)
    <3>1. x # None
      BY PulseIs, PlainIs, NoneAssumption
    <3>2. b \o <<x>> = Append(b, x)
      OBVIOUS
    <3>3. PICK y : y = Sampled(r, c, v) /\ y.open = x /\ y.fifo = b
      BY <2>3, <2>5, <2>6
    <3>4. Backs(y) = b \o <<x>>
      BY <3>1, <3>3 DEF Backs
    <3> QED
      BY <3>2, <3>3, <3>4
  <2>8. b # <<>> => b[Len(b)].val # x.val
    <3> SUFFICES ASSUME b # <<>> PROVE b[Len(b)].val # x.val
      OBVIOUS
    <3>1. r.open # None
      <4>1. SUFFICES ASSUME r.open = None PROVE FALSE
        OBVIOUS
      <4>2. Backs(r) = <<>>
        BY <4>1 DEF Backs
      <4> QED
        BY <2>6, <4>2
    <3>2. PICK f \in Seq(Element), o \in Element : f = r.fifo /\ o = r.open
      BY <1>1, <3>1
    <3>3. b = Append(f, o)
      BY <2>6, <3>1, <3>2 DEF Backs
    <3>4. b[Len(b)] = o
      BY <3>3
    <3> QED
      BY <1>2, <1>5, <3>1, <3>2, <3>4
  <2>9. Apart(Append(b, x))
    BY <2>6, <2>8, NewRun
  <2>10. Append(b, x) \in Seq(Pulse) /\ Spoken(Append(b, x)) = Spoken(b) \o RunSamples(x)
    BY SpokenLast
  <2> QED
    BY <1>3, <2>6, <2>7, <2>9, <2>10
<1> QED
  BY <1>4, <1>5

\* The final value the host infers is the one the sequence ends at.
LEMMA InferIs ==
  ASSUME NEW s \in Seq(PlainElement), FinalEnds(s), NEW v \in Word
  PROVE  infer_sequence_final_output(s, v) \in {EndsAt(s, v), None}
<1> DEFINE n == Len(s)
           S == Sampling(s, v)
           applied(e) == is_final(e) \/ (is_regular(e) /\ e.cnt # 0)
           Body(f) == [i \in 0 .. n |-> IF i = 0 THEN v
                                        ELSE IF applied(s[i]) THEN updated_value(s[i], f[i - 1])
                                        ELSE f[i - 1]]
           g == [i \in 0 .. n |-> S[i].prev]
           t == CHOOSE f : f = Body(f)
<1>1. n \in Nat /\ \A i \in 1 .. n : s[i] \in PlainElement
  OBVIOUS
<1>2. /\ S \in [0 .. n -> Samplings] /\ S[0] = SampleStart(v)
      /\ \A i \in 1 .. n : S[i] = SampleStep(S[i - 1], s[i])
  BY PlainTable
<1>3. validate_final_is_terminal(s)
  BY DEF validate_final_is_terminal, FinalEnds
<1>4. infer_sequence_final_output(s, v) \in {t[n], None}
  BY <1>3 DEF infer_sequence_final_output
<1>5. EndsAt(s, v) = S[n].prev
  BY DEF EndsAt
<1> HIDE DEF n, S
<1>6. S[0].prev = v
  BY <1>2 DEF SampleStart
<1>7. ASSUME NEW i \in 1 .. n
      PROVE  S[i].prev = IF applied(s[i]) THEN updated_value(s[i], S[i - 1].prev) ELSE S[i - 1].prev
  <2>1. i - 1 \in 0 .. n /\ s[i] \in PlainElement
    BY <1>1
  <2>2. S[i - 1] \in Samplings /\ S[i] = SampleStep(S[i - 1], s[i])
    BY <1>2, <2>1
  <2>3. applied(s[i]) <=> Plays(s[i])
    <3>1. PICK e \in PlainElement : e = s[i]
      BY <2>1
    <3>2. /\ is_regular(e) \/ is_trigger(e) \/ is_final(e)
          /\ is_final(e) => e.cnt = 1
          /\ is_trigger(e) => ~is_regular(e) /\ ~is_final(e)
      BY PlainIs DEF is_regular, is_trigger, is_final
    <3>3. applied(e) <=> Plays(e)
      BY <3>2 DEF Plays
    <3> QED
      BY <3>1, <3>3
  <2> HIDE DEF applied
  <2> QED
    BY <2>1, <2>2, <2>3, PlainStep
<1> HIDE DEF applied
<1>8. g = Body(g)
  <2>1. ASSUME NEW i \in 0 .. n PROVE g[i] = Body(g)[i]
    <3>1. CASE i = 0
      BY <1>6, <3>1
    <3>2. CASE i # 0
      <4>1. i \in 1 .. n /\ i - 1 \in 0 .. n
        BY <1>1, <3>2
      <4> QED
        BY <1>7, <3>2, <4>1
    <3> QED
      BY <3>1, <3>2
  <2> QED
    BY <2>1
<1>9. t = Body(t)
  BY <1>8
<1> HIDE DEF g, t
<1> DEFINE A == {k \in Nat : k <= n => t[k] = S[k].prev}
<1>10. 0 \in A
  BY <1>1, <1>6, <1>9
<1>11. ASSUME NEW k \in Nat, k \in A PROVE k + 1 \in A
  <2> SUFFICES ASSUME k + 1 <= n PROVE t[k + 1] = S[k + 1].prev
    OBVIOUS
  <2>1. k + 1 \in 1 .. n /\ k + 1 \in 0 .. n /\ k + 1 # 0 /\ (k + 1) - 1 = k /\ k <= n
    BY <1>1
  <2>2. t[k + 1] = IF applied(s[k + 1]) THEN updated_value(s[k + 1], t[k]) ELSE t[k]
    BY <1>9, <2>1
  <2> QED
    BY <1>7, <1>11, <2>1, <2>2
<1> HIDE DEF A
<1>12. Nat \subseteq A
  BY <1>10, <1>11, NatInductive
<1>13. t[n] = S[n].prev
  BY <1>1, <1>12 DEF A
<1> QED
  BY <1>4, <1>5, <1>13
-----------------------------------------------------------------------------
(***************************************************************************)
(* No false alarm.  As long as no underrun, loss or time-out has           *)
(* intervened, what the check has compared, what is left of the reference  *)
(* and what the read-back holds stay runs of the same samples: those asked *)
(* for and those played.                                                   *)
(***************************************************************************)
\* The terminator the host appends is not compared.
LEMMA PreparedCompares ==
  ASSUME NEW s \in Seq(PlainElement), NEW v \in Word,
         prepare_sequence_for_streaming(s, [t |-> None, random |-> None], v) # Error
  PROVE  LET p == prepare_sequence_for_streaming(s, [t |-> None, random |-> None], v)
         IN  /\ p.final \in {EndsAt(p.seq, v), None}
             /\ Comparable(s) => Comparable(p.seq)
<1> DEFINE asks == [t |-> None, random |-> None]
           p == prepare_sequence_for_streaming(s, asks, v)
           x == explicit_final_output(s)
           a == Append(s, no_modify_final_output)
<1> SUFFICES p.final \in {EndsAt(p.seq, v), None} /\ (Comparable(s) => Comparable(p.seq))
  OBVIOUS
<1>1. \/ p = [seq |-> s, final |-> infer_sequence_final_output(s, v)]
      \/ p = [seq |-> a, final |-> infer_sequence_final_output(a, v)]
  <2>1. asks.t = None /\ asks.random = None /\ {w \in {asks.t, asks.random} : w # None} = {}
    OBVIOUS
  <2>2. p = append_final_output(s, asks, v)
    BY DEF prepare_sequence_for_streaming
  <2>3. p # Error
    OBVIOUS
  <2> HIDE DEF asks, p
  <2>4. x # Error /\ (x # None => p = [seq |-> s, final |-> infer_sequence_final_output(s, v)])
        /\ (x = None => p = [seq |-> a, final |-> infer_sequence_final_output(a, v)])
    BY <2>1, <2>2, <2>3 DEF append_final_output
  <2> QED
    BY <2>4
<1>2. p.seq \in Seq(PlainElement) /\ FinalEnds(p.seq)
  BY PreparedIs
<1> HIDE DEF p
<1> HIDE DEF a
<1>3. p.final = infer_sequence_final_output(p.seq, v) /\ p.seq \in {s, a}
  <2>1. CASE p = [seq |-> s, final |-> infer_sequence_final_output(s, v)]
    <3>1. p.seq = s /\ p.final = infer_sequence_final_output(s, v)
      BY <2>1
    <3> QED
      BY <3>1
  <2>2. CASE p = [seq |-> a, final |-> infer_sequence_final_output(a, v)]
    <3>1. p.seq = a /\ p.final = infer_sequence_final_output(a, v)
      BY <2>2
    <3> QED
      BY <3>1
  <2> QED
    BY <1>1, <2>1, <2>2
<1>4. p.final \in {EndsAt(p.seq, v), None}
  BY <1>2, <1>3, InferIs
<1>5. ASSUME Comparable(s), p.seq = a PROVE Comparable(p.seq)
  <2>1. ~is_regular(no_modify_final_output) /\ ~is_trigger(no_modify_final_output)
    <3>1. no_modify_final_output.control = {"TERMINATE"}
      BY DEF no_modify_final_output, Final, WithBits, Regular
    <3> QED
      BY <3>1 DEF is_regular, is_trigger, kind, type_from_control
  <2>2. PICK e : e = no_modify_final_output /\ ~is_regular(e) /\ ~is_trigger(e)
    BY <2>1
  <2>3. /\ Len(s) \in Nat /\ DOMAIN a = 1 .. (Len(s) + 1) /\ a[Len(s) + 1] = e /\ DOMAIN s = 1 .. Len(s)
        /\ \A i \in 1 .. Len(s) : a[i] = s[i]
    BY <2>2 DEF a
  <2>4. PICK b : b = a
    OBVIOUS
  <2>5. ASSUME NEW k \in 1 .. (Len(s) + 1), is_regular(b[k])
        PROVE  b[k].cnt > 0 /\ b[k].control = {} /\ b[k].pos = 0
    <3>1. k \in 1 .. Len(s) /\ b[k] = s[k]
      BY <2>2, <2>3, <2>4, <2>5
    <3> QED
      BY <1>5, <2>3, <2>5, <3>1 DEF Comparable, NothingEmpty
  <2>6. ASSUME NEW k \in 1 .. (Len(s) + 1), is_trigger(b[k]), NEW j \in 1 .. k
        PROVE  ~is_regular(b[j])
    <3>1. k \in 1 .. Len(s) /\ b[k] = s[k]
      BY <2>2, <2>3, <2>4, <2>6
    <3>2. j \in 1 .. Len(s) /\ b[j] = s[j]
      BY <2>3, <2>4, <3>1
    <3> QED
      BY <1>5, <2>3, <2>6, <3>1, <3>2 DEF Comparable
  <2> QED
    BY <1>5, <2>3, <2>4, <2>5, <2>6 DEF Comparable, NothingEmpty
<1> QED
  BY <1>3, <1>4, <1>5

\* The read-back and the counters, at any time.
HardwareTold ==
  /\ rb \in RbStates /\ st.ctr_in = st.ctr_out + Len(st.ready)
  /\ st.terminal => rb.open = None
  /\ st.done => ~st.buffer_error
\* Before the trigger nothing has been played, read back or reported.
FreshTold ==
  pc \in {"ready", "transmit", "trigger"} =>
    rb = RbReset(None) /\ played = <<>> /\ rc = {} /\ n_error = 0 /\ ~early
\* What is sent plays what is asked for, and it can be compared when the sequence can.
SentTold ==
  pc \in {"transmit", "trigger"} =>
    /\ start \in Word /\ want = Heard(Front(work), start)
    /\ Comparable(given) => Comparable(work)
\* The value the host expects is the one the outputs end at.
FinalTold == pc \in Phases /\ final # None => final = EndsAt(Ahead, st.qout)
\* What is left of the reference is the runs of what has not been compared, and
\* what is left of the read-back is those of it that have been played.
Comparing ==
  /\ rb.open = None => st.terminal \/ rb.fifo = <<>>
  /\ n_error = 0 /\ Backs(rb) \in Seq(Pulse) /\ Apart(Backs(rb))
  /\ \E past \in Seq(Word) : \E p \in Seq(Pulse) : \E f \in PlainElement :
       /\ work = Append(p, f) /\ is_final(f) /\ Apart(p)
       /\ want = past \o Spoken(p) /\ played = past \o Spoken(Backs(rb))
\* It holds while the check compares, unless there is a reason for an alarm.
CompareTold ==
  pc = "check" /\ ~st.buffer_error /\ ~rb.lost /\ Comparable(given) => Comparing
\* A run that differs, a time-out and an alarm have their reasons.
MismatchTold ==
  pc \in {"check", "read", "wait", "waited", "post"} /\ n_error # 0 =>
    st.buffer_error \/ rb.lost \/ ~Comparable(given)
TimeoutTold ==
  pc \in Phases /\ "TIMEOUT" \in rc => early \/ rb.lost \/ ~Comparable(given)
AlarmTold ==
  "CHECK" \in rc =>
    \/ st.buffer_error \/ {"BUFFER_ERROR", "OVERFLOW"} \cap rc # {}
    \/ early \/ rb.lost \/ ~Comparable(given)

\* What the check is told of the hardware, of the reference and of its own doing.
AlarmInv ==
  /\ HardwareTold /\ FreshTold /\ SentTold /\ FinalTold
  /\ CompareTold /\ MismatchTold /\ TimeoutTold /\ AlarmTold

\* A read-back just reset holds no run.
LEMMA RbFresh == RbReset(None) \in RbStates /\ Backs(RbReset(None)) = <<>>
<1>1. <<>> \in Seq(Element) /\ <<>> \o <<>> = <<>>
  OBVIOUS
<1>2. RbReset(None) = [open |-> None, fifo |-> <<>>, lost |-> FALSE]
  BY DEF RbReset
<1> QED
  BY <1>1, <1>2 DEF RbStates, Backs

\* A reset leaves the read-back and the counters as they should be.
LEMMA ResetTold ==
  ASSUME NEW v, st' = HwReset(v), rb' \in RbStates
  PROVE  HardwareTold'
<1>1. st'.ctr_in = 0 /\ st'.ctr_out = 0 /\ st'.ready = <<>> /\ ~st'.terminal /\ ~st'.done
  BY DEF HwReset
<1>2. Len(<<>>) = 0
  OBVIOUS
<1> QED
  BY <1>1, <1>2 DEF HardwareTold

\* It holds before the first process.
LEMMA AlarmStart == FlowInit => AlarmInv
<1> SUFFICES ASSUME FlowInit PROVE AlarmInv
  OBVIOUS
<1>1. st = HwReset({}) /\ rb = RbReset(None) /\ pc = "none" /\ rc = {}
  BY DEF FlowInit, StreamerInit
<1>2. /\ st.ctr_in = 0 /\ st.ctr_out = 0 /\ st.ready = <<>> /\ ~st.terminal /\ ~st.done
      /\ Len(<<>>) = 0
  BY <1>1 DEF HwReset
<1>3. HardwareTold
  BY <1>1, <1>2, RbFresh DEF HardwareTold
<1> QED
  BY <1>1, <1>3 DEF AlarmInv, FreshTold, SentTold, FinalTold, CompareTold, MismatchTold,
     TimeoutTold, AlarmTold, Phases

\* A process that ends.
LEMMA EndAlarm ==
  ASSUME pc' = "none", HardwareTold', AlarmTold'
  PROVE  AlarmInv'
BY DEF AlarmInv, FreshTold, SentTold, FinalTold, CompareTold, MismatchTold, TimeoutTold, Phases

\* A process that ends and finds no difference.
LEMMA EndQuiet ==
  ASSUME AlarmInv, pc' = "none", UNCHANGED <<st, rb>>, "CHECK" \notin rc'
  PROVE  AlarmInv'
<1>1. HardwareTold' /\ AlarmTold'
  BY DEF AlarmInv, HardwareTold, AlarmTold
<1> QED
  BY <1>1, EndAlarm

\* A process starts with the read-back reset.
LEMMA StartAlarm ==
  ASSUME NEW o \in Options, StartProcess(o)
  PROVE  AlarmInv'
<1>1. /\ pc' = "ready" /\ st' = HwReset(o.i) /\ rb' = RbReset(None) /\ played' = <<>>
      /\ rc' = {} /\ n_error' = 0 /\ ~early'
  BY DEF StartProcess, BringUp
<1>2. HardwareTold'
  BY <1>1, RbFresh, ResetTold
<1> QED
  BY <1>1, <1>2 DEF AlarmInv, FreshTold, SentTold, FinalTold, CompareTold, MismatchTold,
     TimeoutTold, AlarmTold, Phases

\* send_and_trig prepares a sequence that ends in the value it announces.
LEMMA SendAlarm ==
  ASSUME ControlInv, RunInv, AlarmInv, NEW n \in 1 .. NSequences, SendAndTrig(n)
  PROVE  AlarmInv'
<1> DEFINE p == prepare_sequence_for_streaming(Sequence(n), [t |-> None, random |-> None], st.qout)
<1>1. /\ pc = "ready" /\ st' = st /\ rb' = rb /\ played' = played
      /\ given' = Sequence(n) /\ start' = st.qout
      /\ \/ Return({"EXCEPTION"})
         \/ /\ p # Error /\ work' = p.seq /\ to_send' = p.seq /\ pc' = "transmit"
            /\ final' = p.final /\ want' = Heard(Front(p.seq), st.qout)
            /\ UNCHANGED <<rc, n_error, early>>
  BY DEF SendAndTrig, hwVars, Heard
<1>2. CASE Return({"EXCEPTION"})
  BY <1>1, <1>2, EndQuiet DEF Return
<1>3. CASE ~Return({"EXCEPTION"})
  <2>0. st.qout \in Word /\ Sequence(n) \in Seq(PlainElement) /\ p # Error
    BY <1>1, <1>3, SequencesAssumption DEF ControlInv, FlowTypes, StreamerStates
  <2>1. p.seq \in Seq(PlainElement) /\ FinalEnds(p.seq)
    BY <2>0, PreparedIs
  <2>2. p.final \in {EndsAt(p.seq, st.qout), None} /\ (Comparable(Sequence(n)) => Comparable(p.seq))
    BY <2>0, PreparedCompares
  <2>3. PICK u \in Seq(PlainElement) : u = p.seq
    BY <2>1
  <2>4. /\ work' = u /\ to_send' = u /\ pc' = "transmit" /\ final' \in {EndsAt(u, st.qout), None}
        /\ want' = Heard(Front(u), st.qout) /\ UNCHANGED <<rc, n_error, early>>
        /\ (Comparable(Sequence(n)) => Comparable(u))
    BY <1>1, <1>3, <2>2, <2>3
  <2> HIDE DEF p
  <2>5. st.ready = <<>> /\ st.fifo = <<>>
    BY <1>1 DEF RunInv, PlayTold
  <2>6. Ahead' = u
    <3>1. <<>> \o <<>> \o u = u
      OBVIOUS
    <3> QED
      BY <1>1, <2>4, <2>5, <3>1 DEF Ahead
  <2>7. FinalTold'
    BY <1>1, <2>4, <2>6 DEF FinalTold
  <2>8. SentTold'
    BY <1>1, <2>0, <2>4 DEF SentTold
  <2>9. HardwareTold' /\ FreshTold'
    BY <1>1, <2>4 DEF AlarmInv, HardwareTold, FreshTold
  <2>10. CompareTold' /\ MismatchTold' /\ TimeoutTold' /\ AlarmTold'
    BY <2>4, <2>9 DEF CompareTold, MismatchTold, TimeoutTold, AlarmTold, FreshTold
  <2> QED
    BY <2>7, <2>8, <2>9, <2>10 DEF AlarmInv
<1> QED
  BY <1>2, <1>3

\* Sending an element changes where it waits, not what is ahead.
LEMMA TransmitAlarm ==
  ASSUME ControlInv, AlarmInv, Transmit
  PROVE  AlarmInv'
<1>1. /\ pc = "transmit" /\ pc' = pc
      /\ UNCHANGED <<rb, played, work, final, rc, n_error, early, given, want, start>>
  BY DEF Transmit, Rest
<1>2. Ahead' = Ahead /\ st'.qout = st.qout
  BY SendMoves DEF ControlInv
<1>3. st \in StreamerStates /\ \E f : st' = [st EXCEPT !.fifo = f]
  BY DEF Transmit, ControlInv, FlowTypes
<1>4. /\ st'.ctr_in = st.ctr_in /\ st'.ctr_out = st.ctr_out /\ st'.ready = st.ready
      /\ st'.terminal = st.terminal /\ st'.done = st.done /\ st'.buffer_error = st.buffer_error
  BY <1>3 DEF StreamerStates
<1>5. HardwareTold'
  BY <1>1, <1>4 DEF AlarmInv, HardwareTold
<1>6. FreshTold' /\ SentTold'
  BY <1>1 DEF AlarmInv, FreshTold, SentTold
<1>7. FinalTold'
  BY <1>1, <1>2 DEF AlarmInv, FinalTold
<1>8. CompareTold' /\ MismatchTold' /\ TimeoutTold' /\ AlarmTold'
  BY <1>1, <1>6 DEF CompareTold, MismatchTold, TimeoutTold, AlarmTold, FreshTold
<1> QED
  BY <1>5, <1>6, <1>7, <1>8 DEF AlarmInv

\* The end of the transmission and the polls before the trigger.
LEMMA SentAlarm ==
  ASSUME AlarmInv, Sent \/ PollOutputFifo
  PROVE  AlarmInv'
<1>1. /\ pc \in {"transmit", "trigger"} /\ UNCHANGED <<st, rb, played, given, want, start>>
      /\ \/ Return(rc \cup {"TIMEOUT"})
         \/ pc' = "trigger" /\ UNCHANGED <<work, to_send, final, rc, n_error, early>>
  BY DEF Sent, PollOutputFifo, Enter, hwVars, Rest
<1>2. rc = {}
  BY <1>1 DEF AlarmInv, FreshTold
<1>3. CASE Return(rc \cup {"TIMEOUT"})
  BY <1>1, <1>2, <1>3, EndQuiet DEF Return
<1>4. CASE pc' = "trigger" /\ UNCHANGED <<work, to_send, final, rc, n_error, early>>
  <2>1. HardwareTold' /\ FreshTold' /\ SentTold'
    BY <1>1, <1>4 DEF AlarmInv, HardwareTold, FreshTold, SentTold
  <2>2. FinalTold'
    <3>1. Ahead' = Ahead /\ pc \in Phases
      BY <1>1, <1>4 DEF Ahead, Phases
    <3> QED
      BY <1>1, <1>4, <3>1 DEF AlarmInv, FinalTold
  <2>3. CompareTold' /\ MismatchTold' /\ TimeoutTold' /\ AlarmTold'
    BY <1>2, <1>4 DEF CompareTold, MismatchTold, TimeoutTold, AlarmTold
  <2> QED
    BY <2>1, <2>2, <2>3 DEF AlarmInv
<1> QED
  BY <1>1, <1>3, <1>4

\* A step of the host that stays in the phases after the trigger.
LEMMA HostAlarm ==
  ASSUME AlarmInv, pc \in Phases, pc' \in Phases \ {"transmit", "trigger"},
         UNCHANGED <<st, to_send, final>>, rb' \in RbStates, rb'.open = rb.open,
         CompareTold', MismatchTold', TimeoutTold', AlarmTold'
  PROVE  AlarmInv'
<1>1. HardwareTold'
  BY DEF AlarmInv, HardwareTold
<1>2. FreshTold' /\ SentTold'
  BY DEF FreshTold, SentTold, Phases
<1>3. FinalTold'
  <2>1. Ahead' = Ahead
    BY DEF Ahead
  <2> QED
    BY <2>1 DEF AlarmInv, FinalTold
<1> QED
  BY <1>1, <1>2, <1>3 DEF AlarmInv

\* With the trigger the reference becomes the runs of what is asked for.
LEMMA TriggerAlarm ==
  ASSUME RunInv, AlarmInv, ArmTrigger \/ ForceTrigger
  PROVE  AlarmInv'
<1>1. pc = "trigger" /\ Triggered /\ UNCHANGED <<st, rb, played, opts, given, want, start>>
  BY DEF ArmTrigger, ForceTrigger, hwVars, Rest
<1>2. \/ Return({"EXCEPTION"})
      \/ /\ Reference # Error /\ pc' = AfterTrigger
         /\ work' = IF opts.check THEN drop_count0(Reference) ELSE Reference
         /\ UNCHANGED <<to_send, final, rc, n_error, early>>
  BY <1>1 DEF Triggered, Enter
<1>3. rb = RbReset(None) /\ played = <<>> /\ rc = {} /\ n_error = 0
  BY <1>1 DEF AlarmInv, FreshTold
<1>4. CASE Return({"EXCEPTION"})
  BY <1>1, <1>4, EndQuiet DEF Return
<1>5. CASE ~Return({"EXCEPTION"})
  <2>1. /\ Reference # Error /\ pc' = AfterTrigger
        /\ work' = IF opts.check THEN drop_count0(Reference) ELSE Reference
        /\ UNCHANGED <<to_send, final, rc, n_error, early>>
    BY <1>2, <1>5
  <2>2. pc' \in {"check", "read", "wait"} /\ (pc' = "check" => opts.check)
    BY <2>1 DEF AfterTrigger
  <2>3. ASSUME pc' = "check", Comparable(given) PROVE Comparing'
    <3>1. opts.check
      BY <2>2, <2>3
    <3>2. PICK s \in Seq(PlainElement) : s = work /\ FinalEnds(s) /\ Comparable(s)
      BY <1>1, <2>3 DEF RunInv, CheckTold, AlarmInv, SentTold
    <3>3. PICK v \in Word : v = start /\ want = Heard(Front(s), v)
      BY <1>1, <3>2 DEF AlarmInv, SentTold
    <3>4. convert_for_readback_check(s, v) # Error /\ work' = drop_count0(convert_for_readback_check(s, v))
      BY <2>1, <3>1, <3>2, <3>3 DEF Reference
    <3>5. \E p \in Seq(Pulse) : \E f \in PlainElement :
             /\ drop_count0(convert_for_readback_check(s, v)) = Append(p, f)
             /\ is_final(f) /\ Apart(p) /\ Spoken(p) = Heard(Front(s), v)
      BY <3>2, <3>4, ReferenceRuns
    <3>6. PICK p \in Seq(Pulse) : \E f \in PlainElement :
             /\ work' = Append(p, f) /\ is_final(f) /\ Apart(p) /\ Spoken(p) = want
      BY <3>3, <3>4, <3>5
    <3>7. PICK f \in PlainElement : work' = Append(p, f) /\ is_final(f) /\ Apart(p) /\ Spoken(p) = want
      BY <3>6
    <3>8. rb' = RbReset(None) /\ Backs(rb') = <<>> /\ rb'.fifo = <<>> /\ n_error' = 0
          /\ want' = want /\ played' = <<>>
      BY <1>1, <1>3, <2>1, RbFresh DEF RbReset
    <3>9. <<>> \in Seq(Pulse) /\ Apart(<<>>) /\ <<>> \in Seq(Word) /\ <<>> \o <<>> = <<>>
      BY DEF Apart
    <3>10. Spoken(<<>>) = <<>> /\ <<>> \o Spoken(p) = Spoken(p)
      <4>1. {} \in Word
        BY DEF Word
      <4>2. PICK z \in Seq(Word) : z = Spoken(p)
        BY <4>1, SpokenAny
      <4>3. <<>> \o z = z
        OBVIOUS
      <4> QED
        BY <4>2, <4>3, SpokenNone
    <3>11. work' = Append(p, f) /\ is_final(f) /\ Apart(p)
           /\ want' = <<>> \o Spoken(p) /\ played' = <<>> \o Spoken(Backs(rb'))
      BY <3>7, <3>8, <3>9, <3>10
    <3> QED
      BY <3>8, <3>9, <3>11 DEF Comparing
  <2>4. CompareTold' /\ MismatchTold' /\ TimeoutTold' /\ AlarmTold'
    <3>1. given' = given /\ rc' = {} /\ n_error' = 0
      BY <1>1, <1>3, <2>1
    <3> QED
      BY <2>3, <3>1 DEF CompareTold, MismatchTold, TimeoutTold, AlarmTold
  <2>5. rb' \in RbStates /\ rb'.open = rb.open
    BY <1>1 DEF AlarmInv, HardwareTold
  <2> QED
    BY <1>1, <2>1, <2>2, <2>4, <2>5, HostAlarm DEF Phases
<1> QED
  BY <1>4, <1>5

\* What follows a list is what follows it.
LEMMA ConcatCancel ==
  ASSUME NEW S, NEW s \in Seq(S), NEW a \in Seq(S), NEW b \in Seq(S), s \o a = s \o b
  PROVE  a = b
<1>1. Len(s) \in Nat /\ Len(a) \in Nat /\ Len(b) \in Nat /\ Len(s \o a) = Len(s) + Len(a)
      /\ Len(s \o b) = Len(s) + Len(b)
  OBVIOUS
<1>2. Len(a) = Len(b)
  BY <1>1
<1>3. ASSUME NEW i \in 1 .. Len(a) PROVE a[i] = b[i]
  <2>1. (s \o a)[Len(s) + i] = a[i] /\ (s \o b)[Len(s) + i] = b[i]
    BY <1>2
  <2> QED
    BY <2>1
<1> QED
  BY <1>2, <1>3, SeqEqual

\* The runs behind the first one.
LEMMA ApartTail ==
  ASSUME NEW e \in Pulse, NEW t \in Seq(Pulse), Apart(<<e>> \o t)
  PROVE  Apart(t)
<1>1. PICK u \in Seq(Pulse) : u = <<e>> \o t /\ Len(u) = Len(t) + 1 /\ \A i \in 1 .. Len(t) : u[i + 1] = t[i]
  <2>1. /\ <<e>> \o t \in Seq(Pulse) /\ Len(<<e>> \o t) = Len(t) + 1
        /\ \A i \in 1 .. Len(t) : (<<e>> \o t)[i + 1] = t[i]
    OBVIOUS
  <2> QED
    BY <2>1
<1>2. ASSUME NEW i \in 1 .. (Len(t) - 1) PROVE t[i].val # t[i + 1].val
  <2>1. Len(t) \in Nat
    OBVIOUS
  <2>2. i \in 1 .. Len(t) /\ i + 1 \in 1 .. Len(t) /\ i + 1 \in 1 .. (Len(u) - 1)
    BY <1>1, <2>1
  <2>3. u[i + 1].val # u[(i + 1) + 1].val
    BY <1>1, <2>2 DEF Apart
  <2> QED
    BY <1>1, <2>2, <2>3
<1> QED
  BY <1>2 DEF Apart

\* What is asked for is what was played, and more only before the terminator.
LEMMA StillToPlay ==
  ASSUME ControlInv, RunInv, pc \in Phases
  PROVE  \E z \in Seq(Word) : want = played \o z /\ (st.terminal => z = <<>>)
<1>1. Promise /\ played \in Seq(Word) /\ st.qout \in Word
      /\ st.ready \in Seq(PlainElement) /\ st.fifo \in Seq(PlainElement) /\ to_send \in Seq(PlainElement)
  BY DEF RunInv, PlayTold, ControlInv, FlowTypes, StreamerStates
<1>2. CASE st.terminal
  <2>1. want = played /\ played \o <<>> = played /\ <<>> \in Seq(Word)
    BY <1>1, <1>2 DEF Promise
  <2> QED
    BY <2>1
<1>3. CASE ~st.terminal
  <2>1. Ahead \in Seq(PlainElement)
    <3>1. PICK r \in Seq(PlainElement), f \in Seq(PlainElement), s \in Seq(PlainElement) :
            r = st.ready /\ f = st.fifo /\ s = to_send
      BY <1>1
    <3>2. PICK x \in Seq(PlainElement) : x = r \o f
      <4>1. r \o f \in Seq(PlainElement)
        OBVIOUS
      <4> QED
        BY <4>1
    <3>3. x \o s \in Seq(PlainElement)
      OBVIOUS
    <3> QED
      BY <3>1, <3>2, <3>3 DEF Ahead
  <2>2. Ahead # <<>> /\ want = played \o Heard(Front(Ahead), st.qout)
    BY <1>1, <1>3 DEF Promise, FinalEnds
  <2>3. Front(Ahead) \in Seq(PlainElement)
    BY <2>1, <2>2, FrontIs
  <2>4. Heard(Front(Ahead), st.qout) \in Seq(Word)
    BY <1>1, <2>3, HeardConcat
  <2> QED
    BY <1>3, <2>2, <2>4
<1> QED
  BY <1>2, <1>3

\* A run that is read back is the next one of the reference.
LEMMA NextRun ==
  ASSUME ControlInv, RunInv, AlarmInv, pc = "check", ~st.buffer_error, ~rb.lost,
         Comparable(given), rb.fifo # <<>>
  PROVE  \E e \in Pulse : \E p \in Seq(Pulse) : \E b \in Seq(Pulse) : \E f \in PlainElement :
         \E past \in Seq(Word) :
           /\ work = <<e>> \o Append(p, f) /\ is_final(f) /\ Apart(p)
           /\ e = Head(rb.fifo) /\ b = Backs([rb EXCEPT !.fifo = Tail(rb.fifo)]) /\ Apart(b)
           /\ want = past \o Spoken(p) /\ played = past \o Spoken(b)
           /\ rb.open = None => st.terminal
<1>1. Comparing /\ rb \in RbStates /\ (st.terminal => rb.open = None)
  BY DEF AlarmInv, CompareTold, HardwareTold
<1>2. PICK past \in Seq(Word) : \E p \in Seq(Pulse) : \E f \in PlainElement :
        /\ work = Append(p, f) /\ is_final(f) /\ Apart(p)
        /\ want = past \o Spoken(p) /\ played = past \o Spoken(Backs(rb))
  BY <1>1 DEF Comparing
<1>3. PICK p \in Seq(Pulse) : \E f \in PlainElement :
        /\ work = Append(p, f) /\ is_final(f) /\ Apart(p)
        /\ want = past \o Spoken(p) /\ played = past \o Spoken(Backs(rb))
  BY <1>2
<1>4. PICK f \in PlainElement :
        /\ work = Append(p, f) /\ is_final(f) /\ Apart(p)
        /\ want = past \o Spoken(p) /\ played = past \o Spoken(Backs(rb))
  BY <1>3
<1>5. PICK z \in Seq(Word) : want = played \o z /\ (st.terminal => z = <<>>)
  BY StillToPlay DEF Phases
<1>6. PICK r \in Seq(Pulse) : r = Backs(rb) /\ Apart(r)
  BY <1>1 DEF Comparing
<1>7. PICK q \in Seq(Element) : /\ q = rb.fifo /\ q # <<>>
  BY <1>1 DEF RbStates
<1>8. PICK o \in Seq(Element) : o = (IF rb.open = None THEN <<>> ELSE <<rb.open>>)
  <2>1. <<>> \in Seq(Element)
    OBVIOUS
  <2>2. rb.open # None => <<rb.open>> \in Seq(Element)
    BY <1>1 DEF RbStates
  <2> QED
    BY <2>1, <2>2
<1>9. PICK h \in Element, g \in Seq(Element), one \in Seq(Element) :
        h = Head(q) /\ g = Tail(q) /\ one = <<h>> /\ q = one \o g
  <2>1. Head(q) \in Element /\ Tail(q) \in Seq(Element) /\ q = <<Head(q)>> \o Tail(q)
    BY <1>7
  <2>2. <<Head(q)>> \in Seq(Element)
    BY <2>1
  <2> QED
    BY <2>1, <2>2, ZenonT(60)
<1>10. PICK b0 \in Seq(Element) : b0 = g \o o
  <2>1. g \o o \in Seq(Element)
    OBVIOUS
  <2> QED
    BY <2>1
<1>11. r = q \o o
  BY <1>6, <1>7, <1>8 DEF Backs
<1>12. r = <<h>> \o b0
  <2>1. (one \o g) \o o = one \o (g \o o)
    <3>1. PICK S : S = Element
      OBVIOUS
    <3>2. one \in Seq(S) /\ g \in Seq(S) /\ o \in Seq(S)
      BY <3>1
    <3>3. \A x, y, w \in Seq(S) : (x \o y) \o w = x \o (y \o w)
      BY SMTT(60)
    <3> QED
      BY <3>2, <3>3, Zenon
  <2> QED
    BY <1>9, <1>10, <1>11, <2>1
<1>13. /\ r # <<>> /\ Head(r) = h /\ Tail(r) = b0 /\ r[1] = h /\ Len(r) = Len(b0) + 1
       /\ Len(b0) = Len(g) + Len(o)
  <2>1. /\ <<h>> \o b0 # <<>> /\ Head(<<h>> \o b0) = h /\ (<<h>> \o b0)[1] = h
        /\ Len(<<h>> \o b0) = Len(b0) + 1
    OBVIOUS
  <2>2. Tail(<<h>> \o b0) = b0
    BY SMTT(60)
  <2>3. Len(b0) = Len(g) + Len(o)
    BY <1>10
  <2> QED
    BY <1>12, <2>1, <2>2, <2>3
<1>14. PICK e \in Pulse : e = h
  <2>1. Head(r) \in Pulse
    BY <1>13
  <2> QED
    BY <1>13, <2>1
<1>15. PICK b \in Seq(Pulse) : b = b0
  <2>1. Tail(r) \in Seq(Pulse)
    BY <1>13
  <2> QED
    BY <1>13, <2>1
<1>16. r = <<e>> \o b
  BY <1>12, <1>14, <1>15
<1>17. Len(r) # 1 \/ z = <<>>
  <2>1. CASE rb.open = None
    BY <1>1, <1>5, <1>7, <2>1 DEF Comparing
  <2>2. CASE rb.open # None
    <3>1. Len(o) = 1
      BY <1>8, <2>2
    <3>2. Len(g) \in Nat
      OBVIOUS
    <3> QED
      BY <1>13, <3>1, <3>2
  <2> QED
    BY <2>1, <2>2
<1>18. Spoken(p) = Spoken(r) \o z
  <2>0. {} \in Word
    BY DEF Word
  <2>1. PICK x \in Seq(Word), y \in Seq(Word) : x = Spoken(p) /\ y = Spoken(r)
    BY <2>0, SpokenAny
  <2>2. past \o x = (past \o y) \o z
    BY <1>4, <1>5, <1>6, <2>1
  <2>3. (past \o y) \o z = past \o (y \o z)
    BY WordsAssociative, ZenonT(60)
  <2>4. PICK u \in Seq(Word) : u = y \o z
    <3>1. y \o z \in Seq(Word)
      OBVIOUS
    <3> QED
      BY <3>1
  <2>5. past \o x = past \o u
    BY <2>2, <2>3, <2>4
  <2>6. x = u
    BY <2>5, ConcatCancel
  <2> QED
    BY <2>1, <2>4, <2>6
<1>19. p # <<>> /\ r[1] = p[1]
  BY <1>4, <1>6, <1>13, <1>17, <1>18, FirstRun
<1>20. PICK t \in Seq(Pulse) : p = <<e>> \o t
  <2>1. Tail(p) \in Seq(Pulse) /\ p = <<p[1]>> \o Tail(p)
    BY <1>19
  <2> QED
    BY <1>13, <1>14, <1>19, <2>1, ZenonT(60)
<1>21. work = <<e>> \o Append(t, f)
  <2>1. PICK S : S = Loose(Word, Nat)
    OBVIOUS
  <2>2. e \in S /\ f \in S /\ t \in Seq(S)
    <3>1. Pulse \subseteq S /\ PlainElement \subseteq S
      BY <2>1, PlainIs, PulseIs DEF Loose, Element
    <3> QED
      BY <3>1
  <2>3. Append(<<e>> \o t, f) = <<e>> \o Append(t, f)
    BY <2>2, SMTT(60)
  <2> QED
    BY <1>4, <1>20, <2>3
<1>22. Apart(t) /\ Apart(b)
  BY <1>4, <1>6, <1>16, <1>20, ApartTail
<1>23. PICK w \in Seq(Word) : w = past \o RunSamples(e)
  <2>1. RunSamples(e) \in Seq(Word)
    BY SpokenFirst
  <2>2. past \o RunSamples(e) \in Seq(Word)
    BY <2>1
  <2> QED
    BY <2>2
<1>24. ASSUME NEW x \in Seq(Pulse) PROVE past \o Spoken(<<e>> \o x) = w \o Spoken(x)
  <2>0. {} \in Word
    BY DEF Word
  <2>1. PICK y \in Seq(Word), c \in Seq(Word) : y = Spoken(x) /\ c = RunSamples(e)
    BY <2>0, SpokenAny, SpokenFirst
  <2>2. Spoken(<<e>> \o x) = c \o y
    BY <2>1, SpokenFirst
  <2>3. (past \o c) \o y = past \o (c \o y)
    BY WordsAssociative, ZenonT(60)
  <2> QED
    BY <1>23, <2>1, <2>2, <2>3
<1>25. want = w \o Spoken(t) /\ played = w \o Spoken(b)
  BY <1>4, <1>6, <1>16, <1>20, <1>24
<1>26. b = Backs([rb EXCEPT !.fifo = Tail(rb.fifo)])
  <2>1. /\ rb = [open |-> rb.open, fifo |-> rb.fifo, lost |-> rb.lost]
        /\ Tail(rb.fifo) = g
    BY <1>1, <1>7, <1>9 DEF RbStates
  <2>2. PICK y : y = [rb EXCEPT !.fifo = Tail(rb.fifo)]
    OBVIOUS
  <2>3. y.fifo = g /\ y.open = rb.open
    BY <2>1, <2>2
  <2>4. Backs(y) = y.fifo \o (IF y.open = None THEN <<>> ELSE <<y.open>>)
    BY DEF Backs
  <2>5. Backs(y) = g \o o
    BY <1>8, <2>3, <2>4
  <2> QED
    BY <1>10, <1>15, <2>2, <2>5
<1>27. /\ work = <<e>> \o Append(t, f) /\ is_final(f) /\ Apart(t)
       /\ e = Head(rb.fifo) /\ b = Backs([rb EXCEPT !.fifo = Tail(rb.fifo)]) /\ Apart(b)
       /\ want = w \o Spoken(t) /\ played = w \o Spoken(b)
       /\ rb.open = None => st.terminal
  BY <1>1, <1>4, <1>7, <1>9, <1>14, <1>21, <1>22, <1>25, <1>26 DEF Comparing
<1> QED
  BY <1>27

\* A check that fails for one of the reasons.
LEMMA FailsAlarm ==
  ASSUME AlarmInv, pc = "check", NEW timeout \in BOOLEAN, CheckFails(timeout),
         UNCHANGED <<st, to_send, final, given>>, rb' \in RbStates, rb'.open = rb.open,
         rb'.lost = rb.lost,
         st.buffer_error \/ rb.lost \/ ~Comparable(given) \/ early',
         timeout => early' \/ rb.lost \/ ~Comparable(given),
         n_error' # 0 => st.buffer_error \/ rb.lost \/ ~Comparable(given)
  PROVE  AlarmInv'
<1>1. /\ pc' \in {"read", "wait"} /\ (early => early')
      /\ rc' = rc \cup {"CHECK"} \cup (IF timeout THEN {"TIMEOUT"} ELSE {})
  BY DEF CheckFails, Enter, AfterCheck
<1>2. TimeoutTold'
  <2> SUFFICES ASSUME "TIMEOUT" \in rc' PROVE early' \/ rb'.lost \/ ~Comparable(given')
    BY DEF TimeoutTold
  <2>1. "TIMEOUT" \in rc \/ timeout
    BY <1>1
  <2> QED
    BY <1>1, <2>1 DEF AlarmInv, TimeoutTold, Phases
<1>3. AlarmTold' /\ CompareTold' /\ MismatchTold'
  BY <1>1 DEF AlarmTold, CompareTold, MismatchTold
<1> QED
  BY <1>1, <1>2, <1>3, HostAlarm DEF Phases

\* The first element of the reference is the next to be compared.
LEMMA FirstAhead ==
  ASSUME NEW e \in Pulse, NEW u, u = <<e>> \o Tail(u), u \in Seq(PlainElement)
  PROVE  LET ahead == {i \in DOMAIN u : encodes_pulses(u[i])}
             k == CHOOSE m \in ahead : \A i \in ahead : m <= i
         IN  ahead # {} /\ k = 1
<1> DEFINE ahead == {i \in DOMAIN u : encodes_pulses(u[i])}
           k == CHOOSE m \in ahead : \A i \in ahead : m <= i
<1>1. u # <<>> /\ u[1] = e
  <2>1. PICK t : t = Tail(u) /\ u = <<e>> \o t
    OBVIOUS
  <2>2. u # <<>>
    <3> SUFFICES ASSUME u = <<>> PROVE FALSE
      OBVIOUS
    <3>1. Len(u) = 0 /\ Len(<<e>> \o Tail(u)) = Len(<<e>>) + Len(Tail(u)) /\ Len(<<e>>) = 1
      BY <2>1
    <3> QED
      BY <3>1
  <2>3. Tail(u) \in Seq(PlainElement)
    BY <2>2
  <2>4. e \in PlainElement
    BY PulseIs
  <2>5. PICK x \in Seq(PlainElement) : x = Tail(u)
    BY <2>3
  <2>6. (<<e>> \o x)[1] = e
    BY <2>4
  <2> QED
    BY <2>2, <2>5, <2>6
<1>2. DOMAIN u = 1 .. Len(u) /\ Len(u) \in Nat /\ 1 \in DOMAIN u
  BY <1>1
<1>3. encodes_pulses(u[1])
  BY <1>1, PulseIs
<1>4. 1 \in ahead /\ \A i \in ahead : i \in Nat /\ 1 <= i
  BY <1>2, <1>3
<1>5. ahead \subseteq Nat
  BY <1>4
<1> HIDE DEF ahead
<1>6. k \in ahead /\ \A i \in ahead : k <= i
  BY <1>4
<1>7. k = 1
  <2>1. k <= 1 /\ 1 <= k /\ k \in Nat
    BY <1>4, <1>6
  <2> QED
    BY <2>1
<1> QED
  BY <1>4, <1>7 DEF ahead

\* The run the check reads is the first of the reference, or something had
\* already gone wrong.
LEMMA CheckReadAlarm ==
  ASSUME ControlInv, RunInv, AlarmInv, CheckRead
  PROVE  AlarmInv'
<1> DEFINE ahead == {i \in DOMAIN work : encodes_pulses(work[i])}
           k == CHOOSE m \in ahead : \A i \in ahead : m <= i
<1>1. /\ pc = "check" /\ UNCHANGED <<st, played, to_send, want, final, given>>
      /\ rb.fifo # <<>> /\ rb' = [rb EXCEPT !.fifo = Tail(rb.fifo)]
      /\ \/ ahead = {} /\ CheckFails(FALSE)
         \/ /\ ahead # {} /\ work' = SubSeq(work, k + 1, Len(work))
            /\ n_error' = n_error + IF Head(rb.fifo) = work[k] THEN 0 ELSE 1
            /\ (CheckFails(TRUE) /\ early') \/ UNCHANGED <<pc, rc, early>>
  BY DEF CheckRead, Rest, filled, TakeRun, CheckFails
<1>2. rb \in RbStates
  BY DEF AlarmInv, HardwareTold
<1>3. /\ rb' \in RbStates /\ rb'.open = rb.open /\ rb'.lost = rb.lost
      /\ rb'.fifo = Tail(rb.fifo)
  <2>1. Tail(rb.fifo) \in Seq(Element)
    BY <1>1, <1>2 DEF RbStates
  <2> QED
    BY <1>1, <1>2, <2>1 DEF RbStates
<1>4. CASE st.buffer_error \/ rb.lost \/ ~Comparable(given)
  <2>1. CASE CheckFails(FALSE)
    BY <1>1, <1>3, <1>4, <2>1, FailsAlarm
  <2>2. CASE CheckFails(TRUE) /\ early'
    BY <1>1, <1>3, <1>4, <2>2, FailsAlarm
  <2>3. CASE UNCHANGED <<pc, rc, early>>
    <3>1. CompareTold' /\ MismatchTold' /\ TimeoutTold' /\ AlarmTold'
      BY <1>1, <1>3, <1>4, <2>3 DEF AlarmInv, CompareTold, MismatchTold, TimeoutTold, AlarmTold
    <3> QED
      BY <1>1, <1>3, <2>3, <3>1, HostAlarm DEF Phases
  <2> QED
    BY <1>1, <2>1, <2>2, <2>3
<1>5. CASE ~(st.buffer_error \/ rb.lost \/ ~Comparable(given))
  <2>0. \E e \in Pulse : \E p \in Seq(Pulse) : \E b \in Seq(Pulse) : \E f \in PlainElement :
        \E past \in Seq(Word) :
           /\ work = <<e>> \o Append(p, f) /\ is_final(f) /\ Apart(p)
           /\ e = Head(rb.fifo) /\ b = Backs([rb EXCEPT !.fifo = Tail(rb.fifo)]) /\ Apart(b)
           /\ want = past \o Spoken(p) /\ played = past \o Spoken(b)
           /\ rb.open = None => st.terminal
    BY <1>1, <1>5, NextRun, ZenonT(60)
  <2>1. PICK e \in Pulse : \E p \in Seq(Pulse) : \E b \in Seq(Pulse) : \E f \in PlainElement :
        \E past \in Seq(Word) :
           /\ work = <<e>> \o Append(p, f) /\ is_final(f) /\ Apart(p)
           /\ e = Head(rb.fifo) /\ b = Backs(rb') /\ Apart(b)
           /\ want = past \o Spoken(p) /\ played = past \o Spoken(b)
           /\ rb.open = None => st.terminal
    BY <1>1, <2>0, ZenonT(60)
  <2>2. PICK p \in Seq(Pulse) : \E b \in Seq(Pulse) : \E f \in PlainElement :
        \E past \in Seq(Word) :
           /\ work = <<e>> \o Append(p, f) /\ is_final(f) /\ Apart(p)
           /\ e = Head(rb.fifo) /\ b = Backs(rb') /\ Apart(b)
           /\ want = past \o Spoken(p) /\ played = past \o Spoken(b)
           /\ rb.open = None => st.terminal
    BY <2>1
  <2>3. PICK b \in Seq(Pulse) : \E f \in PlainElement : \E past \in Seq(Word) :
           /\ work = <<e>> \o Append(p, f) /\ is_final(f) /\ Apart(p)
           /\ e = Head(rb.fifo) /\ b = Backs(rb') /\ Apart(b)
           /\ want = past \o Spoken(p) /\ played = past \o Spoken(b)
           /\ rb.open = None => st.terminal
    BY <2>2
  <2>4. PICK f \in PlainElement : \E past \in Seq(Word) :
           /\ work = <<e>> \o Append(p, f) /\ is_final(f) /\ Apart(p)
           /\ e = Head(rb.fifo) /\ b = Backs(rb') /\ Apart(b)
           /\ want = past \o Spoken(p) /\ played = past \o Spoken(b)
           /\ rb.open = None => st.terminal
    BY <2>3
  <2>5. PICK past \in Seq(Word) :
           /\ work = <<e>> \o Append(p, f) /\ is_final(f) /\ Apart(p)
           /\ e = Head(rb.fifo) /\ b = Backs(rb') /\ Apart(b)
           /\ want = past \o Spoken(p) /\ played = past \o Spoken(b)
           /\ rb.open = None => st.terminal
    BY <2>4
  <2>6. PICK u \in Seq(PlainElement) : u = Append(p, f)
    <3>1. p \in Seq(PlainElement)
      BY PulseSeq
    <3>2. Append(p, f) \in Seq(PlainElement)
      BY <3>1
    <3> QED
      BY <3>2
  <2>7. PICK w \in Seq(PlainElement) : /\ w = work /\ w = <<e>> \o u /\ Tail(w) = u /\ w[1] = e
                                       /\ SubSeq(w, 2, Len(w)) = u
    <3>1. e \in PlainElement
      BY PulseIs
    <3>2. /\ <<e>> \o u \in Seq(PlainElement) /\ Tail(<<e>> \o u) = u /\ (<<e>> \o u)[1] = e
          /\ Len(<<e>> \o u) = Len(u) + 1 /\ Len(u) \in Nat
          /\ \A i \in 1 .. Len(u) : (<<e>> \o u)[i + 1] = u[i]
      <4>1. PICK x \in PlainElement : x = e
        BY <3>1
      <4>2. /\ <<x>> \o u \in Seq(PlainElement) /\ (<<x>> \o u)[1] = x
            /\ Len(<<x>> \o u) = Len(u) + 1 /\ Len(u) \in Nat
            /\ \A i \in 1 .. Len(u) : (<<x>> \o u)[i + 1] = u[i]
        OBVIOUS
      <4>3. Tail(<<x>> \o u) = u
        OBVIOUS
      <4> QED
        BY <4>1, <4>2, <4>3
    <3>3. PICK v \in Seq(PlainElement) :
            /\ v = <<e>> \o u /\ Len(v) = Len(u) + 1 /\ \A i \in 1 .. Len(u) : v[i + 1] = u[i]
            /\ Tail(v) = u /\ v[1] = e
      BY <3>2
    <3>4. SubSeq(v, 2, Len(v)) = u
      <4>1. /\ SubSeq(v, 2, Len(v)) \in Seq(PlainElement) /\ Len(SubSeq(v, 2, Len(v))) = Len(u)
            /\ \A i \in 1 .. Len(u) : SubSeq(v, 2, Len(v))[i] = v[i + 1]
        BY <3>2, <3>3
      <4>2. PICK y \in Seq(PlainElement) :
              /\ y = SubSeq(v, 2, Len(v)) /\ Len(y) = Len(u) /\ \A i \in 1 .. Len(y) : y[i] = u[i]
        BY <3>3, <4>1, ZenonT(60)
      <4>3. y = u
        BY <4>2, SeqEqual
      <4> QED
        BY <4>2, <4>3
    <3> QED
      BY <2>5, <2>6, <3>3, <3>4
  <2>8. ahead # {} /\ k = 1
    <3>1. w = <<e>> \o Tail(w)
      BY <2>7
    <3>2. LET a == {i \in DOMAIN w : encodes_pulses(w[i])}
              m == CHOOSE j \in a : \A i \in a : j <= i
          IN  a # {} /\ m = 1
      BY <3>1, FirstAhead
    <3> QED
      BY <2>7, <3>2
  <2> HIDE DEF ahead, k
  <2>9. /\ work' = SubSeq(work, 1 + 1, Len(work))
        /\ n_error' = n_error + IF Head(rb.fifo) = work[1] THEN 0 ELSE 1
        /\ (CheckFails(TRUE) /\ early') \/ UNCHANGED <<pc, rc, early>>
    BY <1>1, <2>8
  <2>10. work' = Append(p, f) /\ n_error' = n_error /\ n_error' = 0
    <3>1. 1 + 1 = 2 /\ Head(rb.fifo) = work[1] /\ n_error = 0
      BY <1>1, <1>5, <2>5, <2>7 DEF AlarmInv, CompareTold, Comparing
    <3>2. n_error' = 0 + 0
      BY <2>9, <3>1
    <3>3. work' = u
      BY <2>7, <2>9, <3>1
    <3> QED
      BY <2>6, <3>1, <3>2, <3>3
  <2>11. Comparing'
    <3>1. n_error' = 0
      BY <1>1, <1>5, <2>10 DEF AlarmInv, CompareTold, Comparing
    <3>2. rb'.open = None => st'.terminal
      BY <1>1, <1>3, <2>5
    <3>3. /\ work' = Append(p, f) /\ is_final(f) /\ Apart(p)
          /\ want' = past \o Spoken(p) /\ played' = past \o Spoken(Backs(rb'))
      BY <1>1, <2>5, <2>10
    <3>4. Backs(rb') \in Seq(Pulse) /\ Apart(Backs(rb'))
      BY <2>5
    <3> QED
      BY <3>1, <3>2, <3>3, <3>4 DEF Comparing
  <2>12. CASE CheckFails(TRUE) /\ early'
    BY <1>1, <1>3, <2>10, <2>12, FailsAlarm
  <2>13. CASE UNCHANGED <<pc, rc, early>>
    <3>1. CompareTold' /\ MismatchTold' /\ TimeoutTold' /\ AlarmTold'
      BY <1>1, <1>3, <2>10, <2>11, <2>13
         DEF AlarmInv, CompareTold, MismatchTold, TimeoutTold, AlarmTold
    <3> QED
      BY <1>1, <1>3, <2>13, <3>1, HostAlarm DEF Phases
  <2> QED
    BY <2>9, <2>12, <2>13
<1> QED
  BY <1>4, <1>5

\* When everything has been played and read back, only the terminator is left.
LEMMA NothingLeft ==
  ASSUME ControlInv, RunInv, AlarmInv, pc = "check", ~st.buffer_error, ~rb.lost,
         Comparable(given), rb.fifo = <<>>
  PROVE  work # <<>> /\ n_error = 0 /\ (st.done => is_final(Head(work)))
<1>1. Comparing /\ rb \in RbStates /\ (st.terminal => rb.open = None)
  BY DEF AlarmInv, CompareTold, HardwareTold
<1>2. PICK past \in Seq(Word) : \E p \in Seq(Pulse) : \E f \in PlainElement :
        /\ work = Append(p, f) /\ is_final(f) /\ Apart(p)
        /\ want = past \o Spoken(p) /\ played = past \o Spoken(Backs(rb))
  BY <1>1 DEF Comparing
<1>3. PICK p \in Seq(Pulse) : \E f \in PlainElement :
        /\ work = Append(p, f) /\ is_final(f) /\ Apart(p)
        /\ want = past \o Spoken(p) /\ played = past \o Spoken(Backs(rb))
  BY <1>2
<1>4. PICK f \in PlainElement :
        /\ work = Append(p, f) /\ is_final(f) /\ Apart(p)
        /\ want = past \o Spoken(p) /\ played = past \o Spoken(Backs(rb))
  BY <1>3
<1>5. work # <<>> /\ n_error = 0
  <2>1. Append(p, f) # <<>>
    OBVIOUS
  <2> QED
    BY <1>1, <1>4, <2>1 DEF Comparing
<1>6. ASSUME st.done PROVE is_final(Head(work))
  <2>1. st.terminal
    BY <1>6 DEF ControlInv, WaitTold
  <2>2. want = played
    <3>1. PICK z \in Seq(Word) : want = played \o z /\ (st.terminal => z = <<>>)
      BY StillToPlay DEF Phases
    <3>2. played \in Seq(Word)
      BY DEF ControlInv, FlowTypes
    <3>3. played \o <<>> = played
      BY <3>2
    <3> QED
      BY <2>1, <3>1, <3>3
  <2>3. Backs(rb) = <<>>
    <3>1. <<>> \o <<>> = <<>>
      OBVIOUS
    <3> QED
      BY <1>1, <2>1, <3>1 DEF Backs
  <2>4. Spoken(p) = <<>>
    <3>1. past \o Spoken(p) = past \o <<>>
      BY <1>4, <2>2, <2>3, SpokenNone
    <3>2. PICK x \in Seq(Word) : x = Spoken(p)
      <4>1. {} \in Word
        BY DEF Word
      <4> QED
        BY <4>1, SpokenAny
    <3>3. <<>> \in Seq(Word)
      OBVIOUS
    <3>4. PICK y \in Seq(Word) : y = <<>>
      BY <3>3
    <3>5. past \o x = past \o y
      BY <3>1, <3>2, <3>4
    <3>6. x = y
      BY <3>5, ConcatCancel
    <3> QED
      BY <3>2, <3>4, <3>6
  <2>5. p = <<>>
    <3> SUFFICES ASSUME p # <<>> PROVE FALSE
      OBVIOUS
    <3>1. p[1] \in Pulse /\ Len(Spoken(p)) >= p[1].cnt
      BY <1>4, SpokenBegins
    <3>2. p[1].cnt \in Nat \ {0} /\ Len(<<>>) = 0
      BY <3>1, PulseIs
    <3>3. Len(Spoken(p)) = 0
      BY <2>4, <3>2
    <3> QED
      BY <3>1, <3>2, <3>3
  <2>6. Head(Append(p, f)) = f
    BY <2>5
  <2> QED
    BY <1>4, <2>6
<1> QED
  BY <1>5, <1>6

\* A check that reads nothing, gives up or ends keeps it.
LEMMA CheckIdleAlarm ==
  ASSUME ControlInv, RunInv, AlarmInv, CheckIdle
  PROVE  AlarmInv'
<1>1. /\ pc = "check" /\ UNCHANGED <<st, rb, played, to_send, want, final, given, n_error>>
      /\ rb.fifo = <<>>
  BY DEF CheckIdle, hwVars, Rest, filled
<1>2. \/ (work = <<>> \/ n_error > 0) /\ CheckFails(FALSE)
      \/ pc' = AfterCheck /\ UNCHANGED <<rc, early>>
      \/ ~is_final(Head(work)) /\ CheckFails(TRUE)
      \/ UNCHANGED <<pc, work, rc, early>>
  BY DEF CheckIdle, Enter
<1>3. rb' \in RbStates /\ rb'.open = rb.open /\ rb'.lost = rb.lost
  BY <1>1 DEF AlarmInv, HardwareTold
<1>4. ~(st.buffer_error \/ rb.lost \/ ~Comparable(given)) =>
        work # <<>> /\ n_error = 0 /\ (st.done => is_final(Head(work)))
  BY <1>1, NothingLeft
<1>9. n_error' # 0 => st.buffer_error \/ rb.lost \/ ~Comparable(given)
  BY <1>1 DEF AlarmInv, MismatchTold
<1>5. CASE (work = <<>> \/ n_error > 0) /\ CheckFails(FALSE)
  <2>1. st.buffer_error \/ rb.lost \/ ~Comparable(given)
    BY <1>4, <1>5
  <2> QED
    BY <1>1, <1>3, <1>5, <1>9, <2>1, FailsAlarm
<1>6. CASE ~is_final(Head(work)) /\ CheckFails(TRUE)
  <2>1. early' = (early \/ ~st.done)
    BY <1>1, <1>6 DEF CheckFails, filled
  <2>2. st.done => ~st.buffer_error
    BY DEF AlarmInv, HardwareTold
  <2>3. early' \/ rb.lost \/ ~Comparable(given)
    BY <1>4, <1>6, <2>1, <2>2
  <2> QED
    BY <1>1, <1>3, <1>6, <1>9, <2>3, FailsAlarm
<1>7. CASE pc' = AfterCheck /\ UNCHANGED <<rc, early>>
  <2>1. pc' \in {"read", "wait"}
    BY <1>7 DEF AfterCheck
  <2>2. CompareTold' /\ MismatchTold' /\ TimeoutTold' /\ AlarmTold'
    BY <1>1, <1>7, <2>1 DEF AlarmInv, CompareTold, MismatchTold, TimeoutTold, AlarmTold, Phases
  <2> QED
    BY <1>1, <1>3, <2>1, <2>2, HostAlarm DEF Phases
<1>8. CASE UNCHANGED <<pc, work, rc, early>>
  <2>1. Comparing' = Comparing
    BY <1>1, <1>8 DEF Comparing
  <2>2. CompareTold' /\ MismatchTold' /\ TimeoutTold' /\ AlarmTold'
    BY <1>1, <1>8, <2>1 DEF AlarmInv, CompareTold, MismatchTold, TimeoutTold, AlarmTold
  <2> QED
    BY <1>1, <1>3, <1>8, <2>2, HostAlarm DEF Phases
<1> QED
  BY <1>2, <1>5, <1>6, <1>7, <1>8

\* Reading the rest of the read-back and waiting for done add no alarm.
LEMMA WaitAlarm ==
  ASSUME AlarmInv, ReadAll \/ WaitToComplete
  PROVE  AlarmInv'
<1>1. /\ pc \in {"read", "wait"} /\ pc' \in {"read", "wait", "waited"}
      /\ UNCHANGED <<st, to_send, final, rc, n_error, early, given>>
      /\ rb' = rb \/ (rb.fifo # <<>> /\ rb' = [rb EXCEPT !.fifo = Tail(rb.fifo)])
  BY DEF ReadAll, ReadEnds, WaitToComplete, Enter, TakeRun, filled, hwVars, Rest
<1>2. rb \in RbStates
  BY DEF AlarmInv, HardwareTold
<1>3. rb' \in RbStates /\ rb'.open = rb.open /\ rb'.lost = rb.lost
  <2>1. CASE rb' = rb
    BY <1>2, <2>1
  <2>2. CASE rb.fifo # <<>> /\ rb' = [rb EXCEPT !.fifo = Tail(rb.fifo)]
    <3>1. Tail(rb.fifo) \in Seq(Element)
      BY <1>2, <2>2 DEF RbStates
    <3> QED
      BY <1>2, <2>2, <3>1 DEF RbStates
  <2> QED
    BY <1>1, <2>1, <2>2
<1>4. CompareTold' /\ MismatchTold' /\ TimeoutTold' /\ AlarmTold'
  BY <1>1, <1>3 DEF AlarmInv, CompareTold, MismatchTold, TimeoutTold, AlarmTold, Phases
<1> QED
  BY <1>1, <1>3, <1>4, HostAlarm DEF Phases

\* The abort resets the streamer, and what it says was so before.
LEMMA AbortAlarm ==
  ASSUME AlarmInv, NEW code, abort_streamer_after_timeout(code), given' = given,
         "CHECK" \in code => \/ {"BUFFER_ERROR", "OVERFLOW"} \cap code # {}
                             \/ early \/ rb.lost \/ ~Comparable(given)
  PROVE  AlarmInv'
<1>1. st' = HwReset(start_value) /\ rb' = rb /\ pc' = "none" /\ rc' = code /\ early' = early
  BY DEF abort_streamer_after_timeout, reset_streamer, Return
<1>2. HardwareTold'
  BY <1>1, ResetTold DEF AlarmInv, HardwareTold
<1>3. AlarmTold'
  BY <1>1 DEF AlarmTold
<1> QED
  BY <1>1, <1>2, <1>3, EndAlarm

\* The wait may end in a time-out; the alarm already had its reason.
LEMMA WaitedAlarm ==
  ASSUME AlarmInv, Waited
  PROVE  AlarmInv'
<1>1. /\ pc = "waited" /\ given' = given
      /\ \/ ~st.buffer_error /\ abort_streamer_after_timeout(rc \cup {"TIMEOUT"})
         \/ /\ pc' = "post" /\ rc' \in {rc, rc \cup {"BUFFER_ERROR"}}
            /\ UNCHANGED <<st, rb, to_send, final, n_error, early>>
  BY DEF Waited, Rest, hwVars, buffer_error, status
<1>2. CASE ~st.buffer_error /\ abort_streamer_after_timeout(rc \cup {"TIMEOUT"})
  <2>1. "CHECK" \in rc => \/ {"BUFFER_ERROR", "OVERFLOW"} \cap rc # {}
                          \/ early \/ rb.lost \/ ~Comparable(given)
    BY <1>2 DEF AlarmInv, AlarmTold
  <2>2. "CHECK" \in rc \cup {"TIMEOUT"} => \/ {"BUFFER_ERROR", "OVERFLOW"} \cap (rc \cup {"TIMEOUT"}) # {}
                          \/ early \/ rb.lost \/ ~Comparable(given)
    BY <2>1
  <2> QED
    BY <1>1, <1>2, <2>2, AbortAlarm
<1>3. CASE /\ pc' = "post" /\ rc' \in {rc, rc \cup {"BUFFER_ERROR"}}
           /\ UNCHANGED <<st, rb, to_send, final, n_error, early>>
  <2>1. rb' \in RbStates /\ rb'.open = rb.open
    BY <1>3 DEF AlarmInv, HardwareTold
  <2>2. CompareTold' /\ MismatchTold' /\ TimeoutTold' /\ AlarmTold'
    BY <1>1, <1>3 DEF AlarmInv, CompareTold, MismatchTold, TimeoutTold, AlarmTold, Phases
  <2> QED
    BY <1>1, <1>3, <2>1, <2>2, HostAlarm DEF Phases
<1> QED
  BY <1>1, <1>2, <1>3

\* A process told not to wait compares nothing.
LEMMA DontWaitAlarm ==
  ASSUME AlarmInv, DontWait
  PROVE  AlarmInv'
<1>1. /\ pc = "wait" /\ given' = given
      /\ \/ "TIMEOUT" \in rc /\ abort_streamer_after_timeout(rc)
         \/ Return(rc) /\ UNCHANGED <<st, rb>>
  BY DEF DontWait, Rest, hwVars
<1>2. CASE "TIMEOUT" \in rc /\ abort_streamer_after_timeout(rc)
  <2>1. early \/ rb.lost \/ ~Comparable(given)
    BY <1>1, <1>2 DEF AlarmInv, TimeoutTold, Phases
  <2> QED
    BY <1>1, <1>2, <2>1, AbortAlarm
<1>3. CASE Return(rc) /\ UNCHANGED <<st, rb>>
  <2>1. HardwareTold' /\ AlarmTold' /\ pc' = "none"
    BY <1>1, <1>3 DEF AlarmInv, HardwareTold, AlarmTold, Return
  <2> QED
    BY <2>1, EndAlarm
<1> QED
  BY <1>1, <1>2, <1>3

\* After the terminator the outputs show what the host expects, and every FIFO
\* passed on what it took in.
LEMMA PostAlarm ==
  ASSUME ControlInv, RunInv, AlarmInv, run_post_execution_checks
  PROVE  AlarmInv'
<1> DEFINE mismatch == \/ final # None /\ get_qout # final
                       \/ ~InputCountersAgree \/ ~OutputCountersAgree
<1>1. /\ pc = "post" /\ pc' = "none" /\ UNCHANGED <<st, rb, given, early>>
      /\ rc \subseteq rc' /\ ("CHECK" \in rc' => "CHECK" \in rc \/ mismatch)
  BY DEF run_post_execution_checks, Return, hwVars, Rest
<1>2. "BUFFER_ERROR" \in rc \/ ~mismatch
  <2> SUFFICES ASSUME "BUFFER_ERROR" \notin rc PROVE ~mismatch
    OBVIOUS
  <2>1. st.terminal
    BY <1>1 DEF ControlInv, WaitTold
  <2>2. Ahead = <<>>
    BY <1>1, <2>1 DEF RunInv, PlayTold, Promise, Phases
  <2>3. st.ready = <<>> /\ st.fifo = <<>>
    <3>1. PICK r \in Seq(PlainElement), f \in Seq(PlainElement), s \in Seq(PlainElement) :
            r = st.ready /\ f = st.fifo /\ s = to_send
      BY DEF ControlInv, FlowTypes, StreamerStates
    <3>2. PICK x \in Seq(PlainElement) : x = r \o f
      <4>1. r \o f \in Seq(PlainElement)
        OBVIOUS
      <4> QED
        BY <4>1
    <3>3. x \o s = <<>>
      BY <2>2, <3>1, <3>2 DEF Ahead
    <3>4. x = <<>>
      BY <3>3
    <3>5. Len(r) + Len(f) = 0
      <4>1. Len(x) = Len(r) + Len(f)
        BY <3>2
      <4> QED
        BY <3>4, <4>1
    <3>6. Len(r) = 0 /\ Len(f) = 0
      BY <3>5
    <3>7. r = <<>>
      BY <3>6
    <3>8. f = <<>>
      BY <3>6
    <3> QED
      BY <3>1, <3>7, <3>8
  <2>4. st.ctr_in = st.ctr_out
    <3>1. Len(<<>>) = 0 /\ st.ctr_in \in Nat /\ st.ctr_out \in Nat
      BY DEF ControlInv, FlowTypes, StreamerStates
    <3>2. st.ctr_in = st.ctr_out + 0
      BY <2>3, <3>1 DEF AlarmInv, HardwareTold
    <3> QED
      BY <3>1, <3>2
  <2>5. final # None => get_qout = final
    <3>1. "QOUT_SELECT" \notin if_ctrl /\ st.qout \in Word
      BY <1>1 DEF ControlInv, ControlTold, FlowTypes, StreamerStates
    <3>2. final # None => final = st.qout
      BY <1>1, <2>2, <3>1, HeardNone DEF AlarmInv, FinalTold, Phases
    <3> QED
      BY <3>1, <3>2 DEF get_qout
  <2> QED
    BY <2>3, <2>4, <2>5 DEF InputCountersAgree, OutputCountersAgree
<1>3. HardwareTold'
  BY <1>1 DEF AlarmInv, HardwareTold
<1>4. AlarmTold'
  <2> HIDE DEF mismatch
  <2>1. CASE "BUFFER_ERROR" \in rc
    <3>1. "BUFFER_ERROR" \in rc'
      BY <1>1, <2>1
    <3> QED
      BY <3>1 DEF AlarmTold
  <2>2. CASE "BUFFER_ERROR" \notin rc
    <3> SUFFICES ASSUME "CHECK" \in rc'
                 PROVE  \/ st'.buffer_error \/ {"BUFFER_ERROR", "OVERFLOW"} \cap rc' # {}
                        \/ early' \/ rb'.lost \/ ~Comparable(given')
      BY DEF AlarmTold
    <3>1. "CHECK" \in rc
      BY <1>1, <1>2, <2>2
    <3> QED
      BY <1>1, <3>1 DEF AlarmInv, AlarmTold
  <2> QED
    BY <2>1, <2>2
<1> QED
  BY <1>1, <1>3, <1>4, EndAlarm

\* The value the outputs end at is the same after every step of the streamer.
LEMMA FinalKept ==
  ASSUME ControlInv, RunInv, AlarmInv, StreamerNext, UNCHANGED hostVars
  PROVE  FinalTold'
<1> SUFFICES ASSUME pc \in Phases, final # None PROVE final = EndsAt(Ahead', st'.qout)
  BY DEF FinalTold, hostVars
<1>1. /\ FlowTypes /\ ReadyPlays /\ final = EndsAt(Ahead, st.qout) /\ to_send' = to_send
      /\ st \in StreamerStates /\ st.qout \in Word
  BY DEF ControlInv, RunInv, PlayTold, AlarmInv, FinalTold, hostVars, FlowTypes, StreamerStates
<1>2. CASE Triggers \/ Underrun
  <2>1. st' = [st EXCEPT !.triggered = TRUE] \/ st' = [st EXCEPT !.buffer_error = TRUE]
    BY <1>2 DEF Triggers, Underrun
  <2>2. st'.ready = st.ready /\ st'.fifo = st.fifo /\ st'.qout = st.qout
    BY <1>1, <2>1 DEF StreamerStates
  <2> QED
    BY <1>1, <2>2 DEF Ahead
<1>3. CASE Decode
  <2>1. \E r \in Seq(PlainElement) : \E h \in PlainElement : \E t \in Seq(PlainElement) :
           /\ r = st.ready /\ st'.ready = IF Plays(h) THEN Append(r, h) ELSE r
           /\ Ahead = r \o (<<h>> \o t) /\ Ahead' = IF Plays(h) THEN Ahead ELSE r \o t
           /\ st'.terminal = st.terminal /\ st'.qout = st.qout /\ played' = played
    BY <1>1, <1>3, DecodeMoves
  <2>2. PICK r \in Seq(PlainElement) : \E h \in PlainElement : \E t \in Seq(PlainElement) :
           /\ Ahead = r \o (<<h>> \o t) /\ Ahead' = IF Plays(h) THEN Ahead ELSE r \o t
           /\ st'.qout = st.qout
    BY <2>1
  <2>3. PICK h \in PlainElement : \E t \in Seq(PlainElement) :
           /\ Ahead = r \o (<<h>> \o t) /\ Ahead' = IF Plays(h) THEN Ahead ELSE r \o t
           /\ st'.qout = st.qout
    BY <2>2
  <2>4. PICK t \in Seq(PlainElement) :
           /\ Ahead = r \o (<<h>> \o t) /\ Ahead' = IF Plays(h) THEN Ahead ELSE r \o t
           /\ st'.qout = st.qout
    BY <2>3
  <2>5. CASE Plays(h)
    BY <1>1, <2>4, <2>5
  <2>6. CASE ~Plays(h)
    <3>1. PICK one \in Seq(PlainElement), u \in Seq(PlainElement), q \in Word :
            one = <<h>> /\ u = one \o t /\ q = st.qout
      <4>1. <<h>> \in Seq(PlainElement) /\ <<h>> \o t \in Seq(PlainElement)
        OBVIOUS
      <4> QED
        BY <1>1, <4>1
    <3>2. EndsAt(r, q) \in Word /\ EndsAt(r \o u, q) = EndsAt(u, EndsAt(r, q))
          /\ EndsAt(r \o t, q) = EndsAt(t, EndsAt(r, q))
      BY HeardConcat
    <3>3. EndsAt(one \o t, EndsAt(r, q)) = EndsAt(t, EndsAt(one, EndsAt(r, q)))
      BY <3>2, HeardConcat
    <3>4. EndsAt(one, EndsAt(r, q)) = EndsAt(r, q)
      BY <2>6, <3>1, <3>2, HeardOne
    <3> QED
      BY <1>1, <2>4, <2>6, <3>1, <3>2, <3>3, <3>4
  <2> QED
    BY <2>5, <2>6
<1>4. CASE PlayElement
  <2>1. \E h \in PlainElement : \E t \in Seq(PlainElement) :
           /\ Plays(h) /\ Ahead = <<h>> \o t /\ Ahead' = t /\ ReadyPlays'
           /\ st'.qout = updated_value(h, st.qout)
           /\ \/ is_final(h) /\ st'.terminal = TRUE /\ played' = played
              \/ /\ ~is_final(h) /\ st'.terminal = st.terminal
                 /\ played' = played \o [k \in 1 .. h.cnt |-> updated_value(h, st.qout)]
    BY <1>1, <1>4, PlayMoves
  <2>2. PICK h \in PlainElement : \E t \in Seq(PlainElement) :
           Plays(h) /\ Ahead = <<h>> \o t /\ Ahead' = t /\ st'.qout = updated_value(h, st.qout)
    BY <2>1
  <2>3. PICK t \in Seq(PlainElement) :
           Plays(h) /\ Ahead = <<h>> \o t /\ Ahead' = t /\ st'.qout = updated_value(h, st.qout)
    BY <2>2
  <2>4. PICK one \in Seq(PlainElement), q \in Word : one = <<h>> /\ q = st.qout
    <3>1. <<h>> \in Seq(PlainElement)
      OBVIOUS
    <3> QED
      BY <1>1, <3>1
  <2>5. EndsAt(one \o t, q) = EndsAt(t, EndsAt(one, q))
    BY HeardConcat
  <2>6. EndsAt(one, q) = updated_value(h, q)
    BY <2>3, <2>4, EndsOne
  <2> QED
    BY <1>1, <2>3, <2>4, <2>5, <2>6
<1> QED
  BY <1>2, <1>3, <1>4 DEF StreamerNext

\* Every step of the streamer keeps what is known of the read-back.
LEMMA HardwareKept ==
  ASSUME ControlInv, HardwareTold, StreamerNext
  PROVE  /\ HardwareTold' /\ (rb.lost => rb'.lost) /\ (st.buffer_error => st'.buffer_error)
<1>1. /\ st \in StreamerStates /\ rb \in RbStates /\ (st.done => st.terminal)
      /\ st.ctr_in \in Nat /\ st.ctr_out \in Nat /\ st.ready \in Seq(PlainElement)
  BY DEF ControlInv, FlowTypes, WaitTold, HardwareTold, StreamerStates
<1>2. CASE Decode
  <2>1. PICK h \in PlainElement : h = Head(st.fifo)
    <3>1. st.fifo \in Seq(PlainElement) /\ st.fifo # <<>>
      BY <1>1, <1>2 DEF Decode, StreamerStates
    <3> QED
      BY <3>1
  <2>2. /\ rb' = rb /\ st'.terminal = st.terminal /\ st'.done = st.done
        /\ st'.buffer_error = st.buffer_error /\ st'.ctr_out = st.ctr_out
        /\ \/ st'.ready = Append(st.ready, h) /\ st'.ctr_in = st.ctr_in + 1
           \/ st'.ready = st.ready /\ st'.ctr_in = st.ctr_in
    BY <1>1, <1>2, <2>1 DEF Decode, StreamerStates
  <2>3. Len(Append(st.ready, h)) = Len(st.ready) + 1 /\ Len(st.ready) \in Nat
    BY <1>1
  <2>4. st'.ctr_in = st'.ctr_out + Len(st'.ready)
    BY <1>1, <2>2, <2>3, SMTT(60) DEF HardwareTold
  <2> QED
    BY <2>2, <2>4 DEF HardwareTold
<1>3. CASE Triggers
  <2>1. st' = [st EXCEPT !.triggered = TRUE] /\ rb' = rb
    BY <1>3 DEF Triggers
  <2>2. /\ st'.ready = st.ready /\ st'.ctr_in = st.ctr_in /\ st'.ctr_out = st.ctr_out
        /\ st'.terminal = st.terminal /\ st'.done = st.done /\ st'.buffer_error = st.buffer_error
    BY <1>1, <2>1 DEF StreamerStates
  <2> QED
    BY <2>1, <2>2 DEF HardwareTold
<1>4. CASE Underrun
  <2>1. st' = [st EXCEPT !.buffer_error = TRUE] /\ rb' = Flushed(rb) /\ ~st.terminal
    BY <1>4 DEF Underrun, trigger_activated
  <2>2. /\ st'.ready = st.ready /\ st'.ctr_in = st.ctr_in /\ st'.ctr_out = st.ctr_out
        /\ st'.terminal = st.terminal /\ st'.done = st.done /\ st'.buffer_error = TRUE
    BY <1>1, <2>1 DEF StreamerStates
  <2>3. rb' \in RbStates /\ rb'.open = None /\ (rb.lost => rb'.lost)
    BY <1>1, <2>1, FlushedIs
  <2> QED
    BY <1>1, <2>1, <2>2, <2>3 DEF HardwareTold
<1>5. CASE PlayElement
  <2>1. st.ready # <<>> /\ ~st.terminal
    BY <1>5 DEF PlayElement, trigger_activated
  <2>2. PICK h \in PlainElement : h = Head(st.ready)
    BY <1>1, <2>1
  <2>3. h.cnt \in Nat /\ updated_value(h, st.qout) \in Word
    BY <1>1, PlainIs, OperationsAgree DEF StreamerStates
  <2>4. /\ st'.ready = Tail(st.ready) /\ st'.ctr_in = st.ctr_in /\ st'.ctr_out = st.ctr_out + 1
        /\ st'.buffer_error = st.buffer_error
        /\ \/ st'.terminal = TRUE /\ st'.done = ~st.buffer_error /\ rb' = Flushed(rb)
           \/ /\ st'.terminal = st.terminal /\ st'.done = st.done
              /\ rb' = Sampled(rb, h.cnt, updated_value(h, st.qout))
    BY <1>1, <1>5, <2>2 DEF PlayElement, StreamerStates
  <2>5. st'.ctr_in = st'.ctr_out + Len(st'.ready)
    <3>1. Len(Tail(st.ready)) = Len(st.ready) - 1 /\ Len(st.ready) \in Nat
      BY <1>1, <2>1
    <3> QED
      BY <1>1, <2>4, <3>1 DEF HardwareTold
  <2>6. /\ rb' \in RbStates /\ (rb.lost => rb'.lost)
        /\ rb' = Flushed(rb) => rb'.open = None
    BY <1>1, <2>3, <2>4, FlushedIs, SampledIs
  <2> QED
    BY <1>1, <2>1, <2>4, <2>5, <2>6 DEF HardwareTold
<1> QED
  BY <1>2, <1>3, <1>4, <1>5 DEF StreamerNext

\* What is played and what is read back stay the same samples.
LEMMA CompareKept ==
  ASSUME ControlInv, RunInv, AlarmInv, StreamerNext, UNCHANGED hostVars
  PROVE  CompareTold'
<1> SUFFICES ASSUME pc = "check", ~st'.buffer_error, ~rb'.lost, Comparable(given)
             PROVE  Comparing'
  BY DEF CompareTold, hostVars
<1>1. /\ st \in StreamerStates /\ rb \in RbStates /\ FlowTypes /\ ReadyPlays
      /\ UNCHANGED <<work, want, n_error, to_send>>
  BY DEF ControlInv, FlowTypes, AlarmInv, HardwareTold, RunInv, PlayTold, hostVars, Phases
<1>2. ~st.buffer_error /\ ~rb.lost /\ Comparing
  BY HardwareKept DEF AlarmInv, CompareTold
<1>3. CASE Decode \/ Triggers
  <2>1. rb' = rb /\ played' = played /\ st'.terminal = st.terminal
    BY <1>1, <1>3 DEF Decode, Triggers, StreamerStates
  <2> QED
    BY <1>1, <1>2, <2>1 DEF Comparing
<1>4. ~Underrun
  BY <1>1 DEF Underrun, StreamerStates
<1>5. CASE PlayElement
  <2>1. \E h \in PlainElement : \E t \in Seq(PlainElement) :
           /\ Plays(h) /\ Ahead = <<h>> \o t /\ Ahead' = t /\ ReadyPlays'
           /\ st'.qout = updated_value(h, st.qout)
           /\ \/ is_final(h) /\ st'.terminal = TRUE /\ played' = played
              \/ /\ ~is_final(h) /\ st'.terminal = st.terminal
                 /\ played' = played \o [k \in 1 .. h.cnt |-> updated_value(h, st.qout)]
    BY <1>1, <1>5, PlayMoves
  <2>2. PICK h \in PlainElement : h = Head(st.ready) /\ Plays(h) /\ ~st.terminal
    <3>1. st.ready # <<>> /\ ~st.terminal /\ st.ready \in Seq(PlainElement)
      BY <1>1, <1>5 DEF PlayElement, trigger_activated, StreamerStates
    <3>2. Head(st.ready) \in PlainElement /\ Head(st.ready) = st.ready[1] /\ 1 \in DOMAIN st.ready
      BY <3>1
    <3> QED
      BY <1>1, <3>1, <3>2 DEF ReadyPlays
  <2>3. PICK v \in Word : v = updated_value(h, st.qout)
    <3>1. st.qout \in Word
      BY <1>1 DEF StreamerStates
    <3> QED
      BY <3>1, PlainIs, OperationsAgree
  <2>4. \/ is_final(h) /\ st'.terminal = TRUE /\ played' = played /\ rb' = Flushed(rb)
        \/ /\ ~is_final(h) /\ st'.terminal = st.terminal /\ rb' = Sampled(rb, h.cnt, v)
           /\ played' = played \o [k \in 1 .. h.cnt |-> v]
    BY <1>1, <1>5, <2>2, <2>3 DEF PlayElement, StreamerStates
  <2>5. CASE is_final(h)
    <3>1. st'.terminal = TRUE /\ played' = played /\ rb' = Flushed(rb)
      BY <2>4, <2>5
    <3>2. Backs(rb') = Backs(rb)
      BY <1>1, <3>1, FlushedIs
    <3> QED
      BY <1>1, <1>2, <3>1, <3>2 DEF Comparing
  <2>6. CASE ~is_final(h)
    <3>1. st'.terminal = st.terminal /\ rb' = Sampled(rb, h.cnt, v)
          /\ played' = played \o [k \in 1 .. h.cnt |-> v]
      BY <2>4, <2>6
    <3>2. PICK c \in Nat \ {0} : c = h.cnt
      BY <2>2, PlainIs DEF Plays
    <3>3. rb.open = None => rb.fifo = <<>>
      BY <1>2, <2>2 DEF Comparing
    <3>4. /\ Backs(rb') \in Seq(Pulse) /\ Apart(Backs(rb')) /\ rb'.open # None
          /\ Spoken(Backs(rb')) = Spoken(Backs(rb)) \o [k \in 1 .. c |-> v]
      <4>1. Backs(rb) \in Seq(Pulse) /\ Apart(Backs(rb))
        BY <1>2 DEF Comparing
      <4>2. ~Sampled(rb, c, v).lost
        BY <3>1, <3>2
      <4>3. /\ Backs(Sampled(rb, c, v)) \in Seq(Pulse) /\ Apart(Backs(Sampled(rb, c, v)))
            /\ Spoken(Backs(Sampled(rb, c, v))) = Spoken(Backs(rb)) \o [k \in 1 .. c |-> v]
        BY <1>1, <3>3, <4>1, <4>2, SampledRuns
      <4>4. Sampled(rb, c, v).open # None
        BY <1>1, SampledIs
      <4> QED
        BY <3>1, <3>2, <4>3, <4>4
    <3>5. PICK past \in Seq(Word) : \E p \in Seq(Pulse) : \E f \in PlainElement :
            /\ work = Append(p, f) /\ is_final(f) /\ Apart(p)
            /\ want = past \o Spoken(p) /\ played = past \o Spoken(Backs(rb))
      BY <1>2 DEF Comparing
    <3>6. PICK p \in Seq(Pulse) : \E f \in PlainElement :
            /\ work = Append(p, f) /\ is_final(f) /\ Apart(p)
            /\ want = past \o Spoken(p) /\ played = past \o Spoken(Backs(rb))
      BY <3>5
    <3>7. PICK f \in PlainElement :
            /\ work = Append(p, f) /\ is_final(f) /\ Apart(p)
            /\ want = past \o Spoken(p) /\ played = past \o Spoken(Backs(rb))
      BY <3>6
    <3>8. played' = past \o Spoken(Backs(rb'))
      <4>0. {} \in Word /\ Backs(rb) \in Seq(Pulse) /\ [k \in 1 .. c |-> v] \in Seq(Word)
        BY <1>2 DEF Word, Comparing
      <4>1. PICK x \in Seq(Word), y \in Seq(Word) : x = Spoken(Backs(rb)) /\ y = [k \in 1 .. c |-> v]
        BY <4>0, SpokenAny
      <4>2. (past \o x) \o y = past \o (x \o y)
        BY WordsAssociative, Zenon
      <4> QED
        BY <3>1, <3>2, <3>4, <3>7, <4>1, <4>2
    <3>9. /\ work' = Append(p, f) /\ is_final(f) /\ Apart(p)
          /\ want' = past \o Spoken(p) /\ played' = past \o Spoken(Backs(rb'))
      BY <1>1, <3>7, <3>8
    <3>10. n_error' = 0
      BY <1>1, <1>2 DEF Comparing
    <3> QED
      BY <3>4, <3>9, <3>10 DEF Comparing
  <2> QED
    BY <2>5, <2>6
<1> QED
  BY <1>3, <1>4, <1>5 DEF StreamerNext

\* The streamer's own steps keep all of it.
LEMMA StreamerAlarm ==
  ASSUME ControlInv, RunInv, AlarmInv, StreamerNext, UNCHANGED hostVars
  PROVE  AlarmInv'
<1>1. /\ HardwareTold' /\ (rb.lost => rb'.lost) /\ (st.buffer_error => st'.buffer_error)
  BY HardwareKept DEF AlarmInv
<1>2. UNCHANGED <<pc, rc, early, given, want, work, start, n_error, final>>
  BY DEF hostVars
<1>3. FreshTold'
  <2>1. ASSUME pc \in {"ready", "transmit", "trigger"} PROVE UNCHANGED <<rb, played>>
    <3>1. Disarmed
      BY <2>1 DEF ControlInv, ControlTold
    <3> QED
      BY <3>1 DEF StreamerNext, Decode, Triggers, PlayElement, Underrun, trigger_activated, Disarmed,
         TriggerBits
  <2> QED
    BY <1>2, <2>1 DEF AlarmInv, FreshTold
<1>4. SentTold'
  BY <1>2 DEF AlarmInv, SentTold
<1>5. FinalTold' /\ CompareTold'
  BY FinalKept, CompareKept
<1>6. MismatchTold' /\ TimeoutTold' /\ AlarmTold'
  BY <1>1, <1>2 DEF AlarmInv, MismatchTold, TimeoutTold, AlarmTold
<1> QED
  BY <1>1, <1>3, <1>4, <1>5, <1>6 DEF AlarmInv

\* What else can happen to a process.
LEMMA OthersAlarm ==
  ASSUME AlarmInv, ppreset \/ ppqout \/ Killed \/ Stalled
  PROVE  AlarmInv'
<1>1. pc' = "none" /\ UNCHANGED <<st, rb>>
  BY DEF ppreset, ppqout, Killed, Stalled, Return, hwVars
<1>2. "CHECK" \notin rc'
  <2>1. CASE Stalled
    <3>1. rc = {} /\ rc' = rc \cup {"TIMEOUT"}
      BY <2>1 DEF AlarmInv, FreshTold, Stalled, Return
    <3> QED
      BY <3>1
  <2>2. CASE ppreset \/ ppqout \/ Killed
    <3>1. CASE Killed
      BY <3>1 DEF Killed, Return
    <3>2. CASE ppreset
      BY <3>2 DEF ppreset, Return
    <3>3. CASE ppqout
      BY <3>3 DEF ppqout, Return
    <3> QED
      BY <2>2, <3>1, <3>2, <3>3
  <2> QED
    BY <2>1, <2>2
<1> QED
  BY <1>1, <1>2, EndQuiet

\* Every step of a streaming process and of the streamer keeps it.
LEMMA AlarmKept == ControlInv /\ RunInv /\ AlarmInv /\ [FlowNext]_flowVars => AlarmInv'
<1> SUFFICES ASSUME ControlInv, RunInv, AlarmInv, [FlowNext]_flowVars PROVE AlarmInv'
  OBVIOUS
<1>1. CASE UNCHANGED flowVars
  <2>1. UNCHANGED <<st, played, rb, pc, work, to_send, want, rc, early, given, start, n_error, final>>
    BY <1>1 DEF flowVars, hostVars, hwVars
  <2>2. Ahead' = Ahead /\ Comparing' = Comparing
    BY <2>1 DEF Ahead, Comparing
  <2> QED
    BY <2>1, <2>2 DEF AlarmInv, HardwareTold, FreshTold, SentTold, FinalTold, CompareTold,
       MismatchTold, TimeoutTold, AlarmTold
<1>2. CASE FlowNext
  BY <1>2, StartAlarm, SendAlarm, TransmitAlarm, SentAlarm, TriggerAlarm, CheckReadAlarm,
     CheckIdleAlarm, WaitAlarm, WaitedAlarm, DontWaitAlarm, OthersAlarm, PostAlarm, StreamerAlarm
     DEF FlowNext, HostStep
<1> QED
  BY <1>1, <1>2

\* At every step of the check what it has compared was played and asked for, its
\* reference and the read-back hold the runs of the rest, and a run that differed,
\* a time-out and a check bit each had one of the reasons for it.
THEOREM AlarmInvariance == FlowSpec => [](ControlInv /\ RunInv /\ AlarmInv)
BY FlowStart, RunStart, AlarmStart, ControlKept, RunKept, AlarmKept, PTL DEF FlowSpec

\* A run that differs from its reference, in a process whether or not a time-out
\* ends its check, was broken by an underrun, was read back with data missing, or
\* belongs to a sequence the reference cannot describe.  A process that returns with
\* the check bit had one of these reasons, or the time-out of the check came before
\* the streamer was done or the last run was read.
THEOREM AlarmIsTrue == FlowSpec => []NoFalseAlarm
<1>1. AlarmInv => NoFalseAlarm
  BY DEF AlarmInv, AlarmTold, MismatchTold, NoFalseAlarm
<1> QED
  BY <1>1, AlarmInvariance, PTL
=============================================================================
