-------------------------- MODULE InputPathProofs --------------------------
(***************************************************************************)
(* The input path is type correct, its FIFOs never overflow, and what the  *)
(* streamer pops is what the program means, for every set of programs and  *)
(* every FIFO and memory size.                                             *)
(***************************************************************************)
EXTENDS InputPath, InputFifoProofs

IInv == TypeOK /\ InputFifoInv

\* Power-up establishes the inductive invariant.
LEMMA PathStart == Init => IInv
<1> SUFFICES ASSUME Init PROVE IInv
  OBVIOUS
<1>1. InputFifoInv
  BY InputFifoStart DEF Init
<1>2. prog \in Seq(Element)
  BY ProgramsAssumption DEF Init
<1>3. pc \in 1 .. (Len(prog) + 1)
  BY <1>2 DEF Init
<1>4. popped \in Seq(Element)
  BY DEF Init
<1> QED
  BY <1>1, <1>3, <1>4 DEF Init, IInv, TypeOK, InputFifoInv

\* Every step of the source, the FIFOs, the preprocessor and the reset
\* keeps the inductive invariant.
LEMMA PathStep == IInv /\ [Next]_vars => IInv'
<1> SUFFICES ASSUME IInv, [Next]_vars PROVE IInv'
  OBVIOUS
<1>0. /\ InputFifoInv /\ prog \in Programs /\ prog \in Seq(Element)
      /\ pc \in 1 .. (Len(prog) + 1) /\ popped \in Seq(Element)
  BY ProgramsAssumption DEF IInv, TypeOK
<1>1. CASE ResetTick
  <2>1. InputFifoInv'
    BY <1>0, <1>1, BlankIsElement, InputFifoStep DEF ResetTick
  <2>2. prog' \in Programs /\ prog' \in Seq(Element)
    BY <1>1, ProgramsAssumption DEF ResetTick
  <2>3. pc' \in 1 .. (Len(prog') + 1)
    BY <1>1, <2>2 DEF ResetTick
  <2>4. popped' \in Seq(Element)
    BY <1>1 DEF ResetTick
  <2> QED
    BY <2>1, <2>2, <2>3, <2>4 DEF IInv, TypeOK, InputFifoInv
<1>2. ASSUME NEW valid \in BOOLEAN, NEW rdreq \in BOOLEAN,
             Tick(valid, rdreq)
      PROVE  IInv'
  <2>1. (IF Offering THEN prog[pc] ELSE Blank) \in Element
    BY <1>0, BlankIsElement DEF Offering
  <2>2. InputFifoInv'
    BY <1>0, <1>2, <2>1, InputFifoStep DEF Tick
  <2>3. prog' = prog /\ prog' \in Programs
    BY <1>0, <1>2 DEF Tick
  <2>4. pc' \in 1 .. (Len(prog) + 1)
    BY <1>0, <1>2 DEF Tick, Offering
  <2>5. popped' \in Seq(Element)
    <3>1. q_i \in Element
      BY <1>0, InputSignals
    <3> QED
      BY <1>0, <1>2, <3>1 DEF Tick
  <2> QED
    BY <2>2, <2>3, <2>4, <2>5 DEF IInv, TypeOK, InputFifoInv
<1>3. CASE UNCHANGED vars
  BY <1>3 DEF vars, inputFifoVars, preprocVars, IInv, TypeOK, InputFifoInv,
     InputFifoTypeOK, PreprocTypeOK, ReplayInRange, BelowAlmostFull,
     InputNeverOverflows
<1> QED
  BY <1>1, <1>2, <1>3 DEF Next

\* The inductive invariant of the input path holds in every reachable state.
THEOREM PathInvariance == Spec => []IInv
BY PathStart, PathStep, PTL DEF Spec

\* The registers, FIFOs and counters of input_fifo.sv keep their types, and
\* no FIFO holds more words than it has room for.
THEOREM PathTypeCorrect == Spec => []TypeOK
<1>1. IInv => TypeOK
  BY DEF IInv
<1> QED
  BY <1>1, PathInvariance, PTL

\* docs/docs/details.md: an overflow of an input FIFO is impossible by
\* construction, for every size and every behaviour of the source.
THEOREM PathNeverOverflows == Spec => []InputNeverOverflows
<1>1. IInv => InputNeverOverflows
  BY DEF IInv, InputFifoInv
<1> QED
  BY <1>1, PathInvariance, PTL
-----------------------------------------------------------------------------
(***************************************************************************)
(* What is popped is what the program means.                               *)
(***************************************************************************)
MeansInv ==
  /\ IInv /\ CountersConserve
  /\ Len(popped) <= Horizon
  /\ Delivers(prog, Horizon, pc - 1, popped \o fifo2)

\* Power-up: nothing is sent, nothing popped.
LEMMA MeansStart == Init => MeansInv
<1> SUFFICES ASSUME Init PROVE MeansInv
  OBVIOUS
<1>1. IInv
  BY PathStart
<1>2. /\ fifo1 = <<>> /\ fifo2 = <<>> /\ popped = <<>> /\ pc = 1
      /\ ctr1_in = 0 /\ ctr1_out = 0 /\ ctr2_in = 0 /\ ctr2_out = 0
      /\ memory_valid = {} /\ active = FALSE /\ prog \in Seq(Element)
  BY ProgramsAssumption DEF Init, InputFifoInit, PreprocInit
<1>3. Len(<<>>) = 0 /\ 0 - 0 = 0 /\ 1 - 1 = 0 /\ <<>> \o <<>> = <<>>
  OBVIOUS
<1>4. CountersConserve
  BY <1>2, <1>3 DEF CountersConserve
<1>5. Len(popped) <= Horizon
  BY <1>2, HorizonAssumption
<1>6. Delivers(prog, Horizon, 0, <<>>)
  BY <1>2, HorizonAssumption, DeliverStart
<1>7. Delivers(prog, Horizon, pc - 1, popped \o fifo2)
  BY <1>2, <1>3, <1>6
<1> QED
  BY <1>1, <1>4, <1>5, <1>7 DEF MeansInv

\* Every step keeps what is popped and what waits in FIFO 2 together the
\* beginning of what the program means.
LEMMA MeansStep == MeansInv /\ [Next]_vars => MeansInv'
<1> SUFFICES ASSUME MeansInv, [Next]_vars PROVE MeansInv'
  OBVIOUS
<1>0. /\ InputFifoInv /\ prog \in Programs /\ prog \in Seq(Element)
      /\ StoresBeforeReplays(prog) /\ CountersConserve
      /\ pc \in 1 .. (Len(prog) + 1) /\ popped \in Seq(Element)
      /\ fifo2 \in Seq(Element) /\ Horizon \in Nat
  BY ProgramsAssumption, StoredAssumption, HorizonAssumption
     DEF MeansInv, IInv, TypeOK, InputFifoTypeOK
<1>1. IInv'
  BY PathStep DEF MeansInv
<1>2. CASE ResetTick
  <2>1. InputFifoTick(TRUE, Blank, FALSE, FALSE) /\ prog' \in Seq(Element)
        /\ pc' = 1 /\ popped' = <<>>
    BY <1>2, ProgramsAssumption DEF ResetTick
  <2>2. CountersConserve'
    BY <1>0, <2>1, BlankIsElement, CountersStep
  <2>3. fifo1' = <<>> /\ fifo2' = <<>> /\ memory_valid' = {} /\ active' = FALSE
    BY <2>1 DEF InputFifoTick, PreprocTick, PreprocReset
  <2>4. Delivers(prog, Horizon, 0, <<>>)'
    <3>1. PICK p \in Seq(Element) : p = prog'
      BY <2>1
    <3>2. Delivers(p, Horizon, 0, <<>>)'
      BY <1>0, <2>3, DeliverRestart
    <3> QED
      BY <3>1, <3>2
  <2>5. Len(<<>>) = 0 /\ 1 - 1 = 0 /\ <<>> \o <<>> = <<>>
    OBVIOUS
  <2>6. Delivers(prog, Horizon, pc - 1, popped \o fifo2)'
    BY <2>1, <2>3, <2>4, <2>5
  <2>7. Len(popped') <= Horizon
    BY <1>0, <2>1, <2>5
  <2> QED
    BY <1>1, <2>2, <2>6, <2>7 DEF MeansInv
<1>3. ASSUME NEW valid \in BOOLEAN, NEW rdreq \in BOOLEAN, Tick(valid, rdreq)
      PROVE  MeansInv'
  <2>1. PICK data \in Element : data = IF Offering THEN prog[pc] ELSE Blank
    BY <1>0, BlankIsElement DEF Offering
  <2>2. InputFifoTick(FALSE, data, valid, rdreq)
    BY <1>3, <2>1 DEF Tick
  <2>3. CountersConserve'
    BY <1>0, <2>2, CountersStep
  <2>4. PICK p \in Seq(Element) : p = prog /\ p = prog' /\ StoresBeforeReplays(p)
    BY <1>0, <1>3 DEF Tick
  <2>5. PICK given \in Seq(Element) : given = popped \o fifo2
    BY <1>0, ConcatProperties
  <2>6. PICK sent : sent = pc - 1
    OBVIOUS
  <2>7. Delivers(p, Horizon, sent, given)
    BY <2>4, <2>5, <2>6 DEF MeansInv
  <2>8. popped' \o fifo2' = IF wrreq2 THEN Append(given, dout(q1)) ELSE given
    <3>1. fifo2' = ScNext(fifo2, LENGTH2, wrreq2, dout(q1), rdreq)
      BY <2>2 DEF InputFifoTick
    <3>2. popped' = IF rdreq /\ ~empty_i THEN Append(popped, q_i) ELSE popped
      BY <1>3 DEF Tick
    <3> QED
      BY <1>0, <2>5, <3>1, <3>2, PopKeepsOrder
  <2>9. wrreq1(valid) => sent < Len(p) /\ data = p[sent + 1]
    <3>1. wrreq1(valid) => pc <= Len(prog) /\ data = prog[pc]
      BY <1>3, <2>1 DEF wrreq1, Tick, Offering
    <3>2. sent + 1 = pc /\ sent \in Nat /\ Len(prog) \in Nat /\ pc \in Nat
      BY <1>0, <2>6
    <3> QED
      BY <2>4, <3>1, <3>2
  <2>10. pc' - 1 = IF wrreq1(valid) THEN sent + 1 ELSE sent
    BY <1>0, <1>3, <2>6 DEF Tick, wrreq1, full
  <2>11. PICK sent2 : sent2 = pc' - 1
    OBVIOUS
  <2>12. PICK given2 : given2 = popped' \o fifo2'
    OBVIOUS
  <2>13. Delivers(p, Horizon, sent2, given2)'
    BY <1>0, <2>2, <2>4, <2>7, <2>8, <2>9, <2>10, <2>11, <2>12, DeliverStep
  <2>14. Delivers(prog, Horizon, pc - 1, popped \o fifo2)'
    BY <2>4, <2>11, <2>12, <2>13
  <2>15. Len(popped') <= Horizon
    <3>1. Len(popped) <= Horizon /\ Len(popped) \in Nat
      BY <1>0 DEF MeansInv
    <3>2. CASE rdreq /\ ~empty_i
      <4>1. Len(popped) < Horizon /\ popped' = Append(popped, q_i) /\ q_i \in Element
        BY <1>0, <1>3, <3>2, InputSignals DEF Tick
      <4>2. Len(Append(popped, q_i)) = Len(popped) + 1
        BY <1>0, <4>1
      <4> QED
        BY <1>0, <3>1, <4>1, <4>2
    <3>3. CASE ~ (rdreq /\ ~empty_i)
      BY <1>3, <3>1, <3>3 DEF Tick
    <3> QED
      BY <3>2, <3>3
  <2> QED
    BY <1>1, <2>3, <2>14, <2>15 DEF MeansInv
<1>4. CASE UNCHANGED vars
  <2>1. /\ prog' = prog /\ pc' = pc /\ popped' = popped /\ fifo2' = fifo2 /\ fifo1' = fifo1
        /\ UNCHANGED preprocVars
        /\ UNCHANGED <<ctr1_in, ctr1_out, ctr2_in, ctr2_out>>
    BY <1>4 DEF vars, inputFifoVars
  <2>2. CountersConserve'
    BY <1>0, <2>1 DEF CountersConserve
  <2>3. Delivers(prog, Horizon, pc - 1, popped \o fifo2)'
    BY <2>1, ZenonT(60) DEF MeansInv, Delivers, QueueHolds, MemoryHolds, GivenMeans, ReplayPoint, Round,
       preprocVars
  <2> QED
    BY <1>1, <2>1, <2>2, <2>3 DEF MeansInv
<1> QED
  BY <1>2, <1>3, <1>4 DEF Next

\* The streamer pops what the program means: every passed element once and in
\* order and every replay in full, for every program that stores before it
\* replays, every FIFO, memory and counter size, and every pattern of pauses,
\* back-pressure and resets.  The statistics account for every element.
THEOREM PathPopsAsUnrolled == Spec => []PoppedAsUnrolled
<1>1. MeansInv => PoppedAsUnrolled
  <2> SUFFICES ASSUME MeansInv PROVE PoppedAsUnrolled
    OBVIOUS
  <2>1. /\ InputFifoInv /\ prog \in Seq(Element) /\ StoresBeforeReplays(prog)
        /\ popped \in Seq(Element) /\ fifo2 \in Seq(Element) /\ Horizon \in Nat
        /\ Len(popped) <= Horizon /\ CountersConserve
    BY ProgramsAssumption, StoredAssumption, HorizonAssumption
       DEF MeansInv, IInv, TypeOK, InputFifoTypeOK
  <2>2. PICK given \in Seq(Element) : given = popped \o fifo2
    BY <2>1, ConcatProperties
  <2>3. IsPrefix(popped, given)
    BY <2>1, <2>2, PartIsPrefix
  <2>4. Delivers(prog, Horizon, pc - 1, given)
    BY <2>2 DEF MeansInv
  <2>5. /\ IsPrefix(popped, Unrolled(prog, [q \in Positions |-> Blank], Horizon))
        /\ active => 0 .. (length - 1) \subseteq memory_valid
    BY <2>1, <2>3, <2>4, DeliveredMeans
  <2> QED
    BY <2>1, <2>5 DEF PoppedAsUnrolled, ReplayReadsStored
<1> QED
  BY <1>1, MeansStart, MeansStep, PTL DEF Spec
=============================================================================
