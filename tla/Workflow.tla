------------------------------ MODULE Workflow ------------------------------
(***************************************************************************)
(* The programs that stream: send_and_trig of c++/ppworkflow.hh with the   *)
(* read-back check of c++/readback.hh, and the commands around it          *)
(* (c++/pptool_streaming.cc, c++/basic_multi_dma.hh), one process after    *)
(* another on the same streamer.  A process may be killed at any moment;   *)
(* the streamer goes on, and the next process finds what it left.          *)
(***************************************************************************)
EXTENDS StreamerControl

CONSTANTS
  Sequence(_),   \* the sequences a user may send, by number
  NSequences,    \* how many
  Options,       \* command lines: see OptionsOK
  MaxPolls,      \* bound: polls before a time-out, and polls of one wait
  MaxProcesses,  \* bound: processes
  MAX_SIZE       \* largest sequence that is sent at all (max_size)

\* A time-out of zero is no time-out (readback.hh, check_timeout).
ASSUME PollsAssumption == MaxPolls \in Nat \ {0}

\* The elements the streamer of this module plays as the host sees it: regular
\* ones, trigger conditions, whose count is zero, and the terminator, whose count
\* is one (from_raw_triplet).  Storing, replaying, retriggering and the generator
\* are in Streamer.
PlainElement ==
  {e \in Element : /\ is_regular(e) \/ (is_trigger(e) /\ e.cnt = 0) \/ (is_final(e) /\ e.cnt = 1)
                   /\ ~Is(e, "NOPASS")}
ASSUME SequencesAssumption ==
  \A n \in 1..NSequences : Sequence(n) \in Seq(PlainElement)
ASSUME OptionsAssumption ==
  \A o \in Options : /\ {o.force, o.check, o.read, o.dont_wait, o.sbe} \subseteq BOOLEAN
                     /\ o.policy \in {"default", "idle", "hard", "none"}
                     /\ o.i \in Word

VARIABLES
  pc, opts,
  work,        \* the working copy: what is sent, then what is left to check
  to_send,        \* elements still to be sent
  final,       \* the value the outputs are to end at, or None
  rc,          \* the return code, a set of error bits
  polls,       \* polls of the current wait
  n_error,     \* mismatches of the read-back check
  got_first,   \* the read-back has read an element
  rb_failure, timed_out,
  early,       \* history: the time-out of the check came before the streamer was
               \* done, or while there were still runs to read
  given, want, start,  \* history: the sequence, the samples it asks for, and the
                       \* value it starts from
  processes

hostVars == <<pc, opts, work, to_send, final, rc, polls, n_error, got_first,
              rb_failure, timed_out, early, given, want, start, processes>>
flowVars == <<ctrlVars, hwVars, hostVars>>

NoOptions == [force |-> FALSE, check |-> FALSE, read |-> FALSE, dont_wait |-> FALSE,
              sbe |-> FALSE, policy |-> "default", i |-> {}]
FlowInit ==
  /\ StreamerInit({})
  /\ pc = "none" /\ opts = NoOptions
  /\ work = <<>> /\ to_send = <<>> /\ final = None /\ rc = {}
  /\ polls = 0 /\ n_error = 0 /\ got_first = FALSE
  /\ rb_failure = FALSE /\ timed_out = FALSE /\ early = FALSE
  /\ given = <<>> /\ want = <<>> /\ start = {} /\ processes = 0

Data(ws) == [k \in DOMAIN ws |-> ws[k].data]
\* The part of the state a step of the host usually leaves alone.
Rest == <<opts, given, want, start, processes>>
-----------------------------------------------------------------------------
(***************************************************************************)
(* A process starts: streamer::streamer and readback::readback.  The copy  *)
(* of the control word is empty; -stop_on_buffer_error sets its default.   *)
(***************************************************************************)
BringUp(o) ==
  LET defaults == IF o.sbe THEN {"STOP_ON_BUFFER_ERROR"} ELSE {}
  IN  /\ control_initial_value' = defaults
      /\ start_value' = o.i
      /\ control' = defaults /\ if_ctrl' = defaults
      /\ st' = HwReset(o.i) /\ played' = <<>>
      /\ rb' = RbReset(None)

StartProcess(o) ==
  /\ pc = "none" /\ processes < MaxProcesses
  /\ processes' = processes + 1
  /\ BringUp(o)
  /\ opts' = o /\ pc' = "ready" /\ rc' = {}
  /\ polls' = 0 /\ n_error' = 0 /\ got_first' = FALSE
  /\ rb_failure' = FALSE /\ timed_out' = FALSE /\ early' = FALSE
  /\ UNCHANGED <<work, to_send, final, given, want, start>>

Return(code) ==
  /\ pc' = "none" /\ rc' = code
  /\ UNCHANGED <<work, to_send, final, polls, n_error, got_first, rb_failure, timed_out, early>>

\* ppreset does nothing more; ppqout leaves the override selected.
ppreset ==
  /\ pc = "ready" /\ processes = 1
  /\ Return({"OTHER"})
  /\ UNCHANGED <<ctrlVars, hwVars, Rest>>
ppqout ==
  /\ pc = "ready" /\ processes = 1
  /\ qout_select(TRUE)
  /\ Return({"OTHER"})
  /\ UNCHANGED <<control_initial_value, start_value, hwVars, Rest>>

\* The process is killed.
Killed ==
  /\ pc # "none"
  /\ Return({"KILLED"})
  /\ UNCHANGED <<ctrlVars, hwVars, Rest>>
-----------------------------------------------------------------------------
(***************************************************************************)
(* send_and_trig: preparation and transmission.                            *)
(***************************************************************************)
SendAndTrig(n) ==
  LET s == Sequence(n)
      prepared == prepare_sequence_for_streaming(s, [t |-> None, random |-> None], st.qout)
  IN  /\ pc = "ready"
      /\ given' = s /\ start' = st.qout
      /\ want' = IF prepared = Error THEN <<>>
                 ELSE Data(Samples(Front(prepared.seq), st.qout))
      /\ IF prepared = Error \/ Len(prepared.seq) > MAX_SIZE
           THEN Return({"EXCEPTION"})
           ELSE /\ work' = prepared.seq /\ to_send' = prepared.seq /\ final' = prepared.final
                /\ pc' = "transmit"
                /\ UNCHANGED <<rc, polls, n_error, got_first, rb_failure, timed_out, early>>
      /\ UNCHANGED <<ctrlVars, hwVars, opts, processes>>

\* Mutant: the write does not wait for room.
MutNoWait ==
  /\ pc = "transmit" /\ to_send # <<>>
  /\ st' = IF Len(st.fifo) < TRANSPORT_SIZE
             THEN [st EXCEPT !.fifo = Append(@, Head(to_send))] ELSE st
  /\ to_send' = Tail(to_send)
  /\ UNCHANGED <<ctrlVars, rb, played, pc, work, final, rc, polls, n_error, got_first,
                 rb_failure, timed_out, early, Rest>>
Transmit ==
  /\ pc = "transmit" /\ to_send # <<>> /\ Len(st.fifo) < TRANSPORT_SIZE
  /\ st' = [st EXCEPT !.fifo = Append(@, Head(to_send))]
  /\ to_send' = Tail(to_send)
  /\ UNCHANGED <<ctrlVars, rb, played, pc, work, final, rc, polls, n_error, got_first,
                 rb_failure, timed_out, early, Rest>>
\* The transport makes no progress: StallTimeout.
Stalled ==
  /\ pc = "transmit" /\ to_send # <<>>
  /\ Len(st.fifo) = TRANSPORT_SIZE /\ Len(st.ready) = OUTPUT_SIZE
  /\ Return(rc \cup {"TIMEOUT"})
  /\ UNCHANGED <<ctrlVars, hwVars, Rest>>

\* Enters the next phase of send_and_trig, with its counters cleared.
Enter(phase) ==
  /\ pc' = phase /\ polls' = 0 /\ got_first' = FALSE
Sent ==
  /\ pc = "transmit" /\ to_send = <<>>
  /\ Enter("trigger")
  /\ UNCHANGED <<ctrlVars, hwVars, work, to_send, final, rc, n_error, rb_failure, timed_out, early, Rest>>

\* activate_trigger.  A forced trigger waits for output_fifo_has_pending_data.
AfterTrigger == IF opts.check THEN "check" ELSE IF opts.read THEN "read" ELSE "wait"
\* The reference of the check: the effective values, without empty elements.
Reference == IF opts.check THEN convert_for_readback_check(work, start) ELSE work
Triggered ==
  \E ref \in {Reference} :
    IF ref = Error
      THEN Return({"EXCEPTION"})
      ELSE /\ Enter(AfterTrigger)
           /\ work' = IF opts.check THEN drop_count0(ref) ELSE ref
           /\ UNCHANGED <<to_send, final, rc, n_error, rb_failure, timed_out, early>>
ArmTrigger ==
  /\ pc = "trigger" /\ ~opts.force
  /\ trigger_enable
  /\ Triggered
  /\ UNCHANGED <<control_initial_value, start_value, hwVars, Rest>>
ForceTrigger ==
  /\ pc = "trigger" /\ opts.force /\ st.ctr_in > st.ctr_out
  /\ trigger_force
  /\ Triggered
  /\ UNCHANGED <<control_initial_value, start_value, hwVars, Rest>>
PollOutputFifo ==
  /\ pc = "trigger" /\ opts.force /\ st.ctr_in = st.ctr_out
  /\ IF polls >= MaxPolls
       THEN Return(rc \cup {"TIMEOUT"})
       ELSE /\ polls' = polls + 1
            /\ UNCHANGED <<pc, work, to_send, final, rc, n_error, got_first, rb_failure,
                           timed_out, early>>
  /\ UNCHANGED <<ctrlVars, hwVars, Rest>>
-----------------------------------------------------------------------------
(***************************************************************************)
(* readback: check and read_all.  The policy says which waits are bounded: *)
(* the one for the first element, the ones between elements, or all of     *)
(* them together.  check_timeout is called when there is nothing to read,  *)
(* and again after every element read.                                     *)
(***************************************************************************)
\* Mutant: the default bounds the waits between elements only.
MutFirstUnbounded ==
  IF opts.policy = "hard" THEN {"total"} ELSE IF opts.policy = "none" THEN {} ELSE {"idle"}
readback_timeout_policy ==
  CASE opts.policy = "default" -> {"first", "idle"}
    [] opts.policy = "idle"    -> {"idle"}
    [] opts.policy = "hard"    -> {"total"}
    [] opts.policy = "none"    -> {}
\* polls is the time since the start, or, without a total bound, since the last
\* element that was read.
check_timeout(elapsed, got) ==
  /\ elapsed >= MaxPolls
  /\ \/ "total" \in readback_timeout_policy
     \/ (IF got THEN "idle" ELSE "first") \in readback_timeout_policy
filled == rb.fifo # <<>>
\* That time at the check after a read: as before with a total bound, and zero
\* without, unless the deadline passes while the host is busy with the element.
AfterRead(late) ==
  IF late THEN MaxPolls ELSE IF "total" \in readback_timeout_policy THEN polls ELSE 0
\* One element is read, and the loop goes on with the next.
TakeRun(late) ==
  /\ got_first' = TRUE /\ polls' = AfterRead(late)
  /\ UNCHANGED <<pc, timed_out>>

AfterCheck == IF opts.read THEN "read" ELSE "wait"
CheckFails(timeout) ==
  /\ Enter(AfterCheck)
  /\ rb_failure' = TRUE /\ timed_out' = timeout
  /\ early' = (early \/ (timeout /\ (~st.done \/ filled)))
  /\ rc' = rc \cup {"CHECK"} \cup (IF timeout THEN {"TIMEOUT"} ELSE {})

encodes_pulses(e) == is_regular(e) /\ e.cnt # 0
CheckRead ==
  LET ahead == {k \in DOMAIN work : encodes_pulses(work[k])}
      k == CHOOSE n \in ahead : \A m \in ahead : n <= m
  IN  /\ pc = "check" /\ filled
      /\ rb' = [rb EXCEPT !.fifo = Tail(@)]
      /\ IF ahead = {}                 \* "Reference sequence exhausted"
           THEN CheckFails(FALSE) /\ UNCHANGED <<work, n_error>>
           ELSE /\ n_error' = n_error + IF Head(rb.fifo) = work[k] THEN 0 ELSE 1
                /\ work' = SubSeq(work, k + 1, Len(work))
                /\ \E late \in BOOLEAN :
                     IF check_timeout(AfterRead(late), TRUE) THEN CheckFails(TRUE)
                     ELSE TakeRun(late) /\ UNCHANGED <<rc, rb_failure, early>>
      /\ UNCHANGED <<ctrlVars, st, played, to_send, final, Rest>>
CheckIdle ==
  /\ pc = "check" /\ ~filled
  /\ CASE work = <<>> -> CheckFails(FALSE)
       [] work # <<>> /\ is_final(Head(work)) ->
            IF n_error > 0 THEN CheckFails(FALSE)
            ELSE Enter(AfterCheck) /\ UNCHANGED <<rc, rb_failure, timed_out, early>>
       [] OTHER ->
            IF check_timeout(polls, got_first) THEN CheckFails(TRUE)
            ELSE /\ polls' = IF polls < MaxPolls THEN polls + 1 ELSE polls
                 /\ UNCHANGED <<pc, rc, got_first, rb_failure, timed_out, early>>
  /\ UNCHANGED <<ctrlVars, hwVars, work, n_error, to_send, final, Rest>>

\* read_all ends by a time-out only.
ReadEnds == Enter("wait") /\ timed_out' = TRUE
ReadAll ==
  /\ pc = "read"
  /\ IF filled
       THEN /\ rb' = [rb EXCEPT !.fifo = Tail(@)]
            /\ \E late \in BOOLEAN :
                 IF check_timeout(AfterRead(late), TRUE) THEN ReadEnds ELSE TakeRun(late)
       ELSE /\ UNCHANGED rb
            /\ IF check_timeout(polls, got_first) THEN ReadEnds
               ELSE /\ polls' = IF polls < MaxPolls THEN polls + 1 ELSE polls
                    /\ UNCHANGED <<pc, timed_out, got_first>>
  /\ UNCHANGED <<ctrlVars, st, played, work, to_send, final, rc, n_error, rb_failure, early, Rest>>
-----------------------------------------------------------------------------
(***************************************************************************)
(* Completion, the checks after it, and the clean-up.                      *)
(***************************************************************************)
deactivate_trigger ==
  IF opts.force THEN control \ {"TRIGGER_FORCE_INT"} ELSE control \ {"TRIGGER_ENABLE_INT"}

\* stop, disarm, reset.
\* Mutant: the trigger is only withdrawn.
MutOnlyDisarms(code) ==
  /\ Write(deactivate_trigger)
  /\ Return(code)
  /\ UNCHANGED <<control_initial_value, start_value, hwVars>>
abort_streamer_after_timeout(code) ==
  /\ reset_streamer(deactivate_trigger \cup {"STOP"})
  /\ Return(code)
  /\ UNCHANGED <<control_initial_value, start_value, rb>>

DontWait ==
  /\ pc = "wait" /\ opts.dont_wait
  /\ IF "TIMEOUT" \in rc THEN abort_streamer_after_timeout(rc)
     ELSE Return(rc) /\ UNCHANGED <<ctrlVars, hwVars>>
  /\ UNCHANGED Rest

\* wait_to_complete: the loop, ...
WaitToComplete ==
  /\ pc = "wait" /\ ~opts.dont_wait
  /\ IF ~(done \/ buffer_error) /\ polls < MaxPolls
       THEN polls' = polls + 1 /\ UNCHANGED pc
       ELSE pc' = "waited" /\ UNCHANGED polls
  /\ UNCHANGED <<ctrlVars, hwVars, work, to_send, final, rc, n_error, got_first, rb_failure,
                 timed_out, early, Rest>>
\* ... and its result: the poll counter decides, whatever happened since.
Waited ==
  /\ pc = "waited"
  /\ CASE buffer_error ->
            /\ pc' = "post" /\ rc' = rc \cup {"BUFFER_ERROR"}
            /\ UNCHANGED <<ctrlVars, hwVars, work, to_send, final, polls, n_error, got_first,
                           rb_failure, timed_out, early>>
       [] ~buffer_error /\ polls = MaxPolls ->
            abort_streamer_after_timeout(rc \cup {"TIMEOUT"})
       [] OTHER ->
            /\ pc' = "post"
            /\ UNCHANGED <<ctrlVars, hwVars, work, to_send, final, rc, polls, n_error,
                           got_first, rb_failure, timed_out, early>>
  /\ UNCHANGED Rest

get_qout == IF "QOUT_SELECT" \in if_ctrl THEN {} ELSE st.qout
run_post_execution_checks ==
  LET mismatch == \/ final # None /\ get_qout # final
                  \/ ~InputCountersAgree \/ ~OutputCountersAgree
      code == rc \cup {e \in {"CHECK"} : mismatch} \cup {e \in {"OVERFLOW"} : rb.lost}
                 \cup {e \in {"BUFFER_ERROR"} : buffer_error}
  IN  /\ pc = "post"
      /\ Write(deactivate_trigger)
      /\ Return(code)
      /\ UNCHANGED <<control_initial_value, start_value, hwVars, Rest>>
-----------------------------------------------------------------------------
HostStep ==
  \/ Transmit \/ Stalled \/ Sent
  \/ ArmTrigger \/ ForceTrigger \/ PollOutputFifo
  \/ CheckRead \/ CheckIdle \/ ReadAll
  \/ DontWait \/ WaitToComplete \/ Waited \/ run_post_execution_checks

FlowNext ==
  \/ \E o \in Options : StartProcess(o)
  \/ ppreset \/ ppqout
  \/ \E n \in 1..NSequences : SendAndTrig(n)
  \/ HostStep
  \/ Killed
  \/ StreamerNext /\ UNCHANGED hostVars

-----------------------------------------------------------------------------
(***************************************************************************)
(* Properties.                                                             *)
(***************************************************************************)
Finished == pc = "none" /\ processes > 0
NothingEmpty(s) == \A k \in DOMAIN s : is_regular(s[k]) => s[k].cnt > 0

\* A run that waits and returns RC_OK has played the sequence, all of it and
\* nothing else, the outputs show its final value, and -check has compared
\* every run: whatever the process before it left in the streamer, and although
\* the host sees only counters and flags (run_post_execution_checks).
OkMeansPlayed ==
  Finished /\ rc = {} /\ ~opts.dont_wait =>
    /\ played = want /\ get_qout = st.qout
    /\ final # None => st.qout = final
    /\ opts.check => ~\E k \in DOMAIN work : encodes_pulses(work[k])

\* What the reference of the check can describe.  convert_to_BitLoad carries the
\* value of an element of length zero on, and the streamer does not; merge()
\* keeps two elements apart when their control words differ or a trigger
\* condition stands between them, and the read-back shows one run.
Comparable(s) ==
  /\ NothingEmpty(s)
  /\ \A k \in DOMAIN s : is_regular(s[k]) => s[k].control = {} /\ s[k].pos = 0
  /\ \A k \in DOMAIN s : is_trigger(s[k]) => \A j \in 1 .. k : ~is_regular(s[j])

\* The checks raise no false alarm.  A run the check has read differs from its
\* reference only when an underrun broke the run, read-back data were lost, or the
\* reference cannot describe the sequence; and with the check bit set one of these
\* is so, or the time-out came before the streamer was done or all runs were read.
\* (A total bound that passes while the last run is read makes check() fail
\* although all of them agree, and the streamer is done.)
NoFalseAlarm ==
  /\ pc \in {"check", "read", "wait", "waited", "post"} /\ n_error # 0 =>
       st.buffer_error \/ rb.lost \/ ~Comparable(given)
  /\ Finished /\ "CHECK" \in rc =>
       \/ st.buffer_error \/ {"BUFFER_ERROR", "OVERFLOW"} \cap rc # {}
       \/ early \/ rb.lost \/ ~Comparable(given)

\* abort_streamer_after_timeout: "A triggered chain stays triggered until reset,
\* so disarming alone is not a safe abort".  After a run that ended in a
\* time-out the outputs keep still until the next process, unless an underrun
\* had ended the wait before.
QuietAfterTimeout ==
  [][Finished /\ "TIMEOUT" \in rc /\ "BUFFER_ERROR" \notin rc /\ pc' = "none"
       => st'.qout = st.qout]_flowVars

\* send_and_trig returns, whatever the streamer does, when the waits of the
\* read-back are bounded.  (-timeout bounds the waits between elements only:
\* with it a check for data that never come does not end.)
Returns ==
  (pc \notin {"none", "ready"} /\ opts.policy \in {"default", "hard"})
    ~> (pc \in {"none", "ready"})
=============================================================================
