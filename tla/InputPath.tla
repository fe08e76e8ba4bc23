----------------------------- MODULE InputPath -----------------------------
(***************************************************************************)
(* input_fifo closed by its two neighbours: a source that sends the        *)
(* elements of a program in order, pausing at will and holding an element  *)
(* until it is taken, and a streamer that pops at will.  A reset throws    *)
(* everything away, except the contents of the replay memory, and the      *)
(* source starts on a program from the beginning.                          *)
(***************************************************************************)
EXTENDS InputFifo

CONSTANTS
  Programs,     \* the programs the source may send
  Horizon       \* bound: elements popped before the observer stops reading

ASSUME ProgramsAssumption == Programs \subseteq Seq(Element)
ASSUME StoredAssumption == \A p \in Programs : StoresBeforeReplays(p)
ASSUME HorizonAssumption == Horizon \in Nat

VARIABLES
  prog, pc,     \* the program and the index of its next element to send
  popped        \* elements popped from FIFO 2 since the reset (history)

vars == <<prog, pc, popped, inputFifoVars>>

Init ==
  /\ InputFifoInit
  /\ prog \in Programs
  /\ pc = 1
  /\ popped = <<>>

Offering == pc <= Len(prog)

\* A posedge of clk outside reset, with input_valid = valid and the streamer
\* asking for an element when rdreq.
Tick(valid, rdreq) ==
  /\ valid => Offering
  /\ rdreq => Len(popped) < Horizon
  /\ InputFifoTick(FALSE, IF Offering THEN prog[pc] ELSE Blank, valid, rdreq)
  /\ pc' = IF valid /\ ~full THEN pc + 1 ELSE pc
  /\ popped' = IF rdreq /\ ~empty_i THEN Append(popped, q_i) ELSE popped
  /\ UNCHANGED prog

ResetTick ==
  /\ InputFifoTick(TRUE, Blank, FALSE, FALSE)
  /\ prog' \in Programs
  /\ pc' = 1
  /\ popped' = <<>>

Next == ResetTick \/ \E valid, rdreq \in BOOLEAN : Tick(valid, rdreq)

Spec == Init /\ [][Next]_vars

\* clk runs, the source sends what it has and the streamer keeps popping.
FairSpec ==
  /\ Spec
  /\ WF_vars(Offering /\ \E rdreq \in BOOLEAN : Tick(TRUE, rdreq))
  /\ WF_vars(\E valid \in BOOLEAN : Tick(valid, TRUE))
-----------------------------------------------------------------------------
TypeOK ==
  /\ InputFifoTypeOK
  /\ prog \in Programs
  /\ pc \in 1 .. (Len(prog) + 1)
  /\ popped \in Seq(Element)

\* A replay never reaches a slot the present program has not stored to, so
\* the memory that survives a reset is never seen.
ReplayReadsStored == active => 0 .. (length - 1) \subseteq memory_valid

\* What the streamer pops is what the program means: every passed element
\* once and in order, every replay unrolled in full, whatever the pauses, the
\* back-pressure and the leftovers of the program before the reset.  The
\* statistics counters account for every element.
PoppedAsUnrolled ==
  /\ IsPrefix(popped,
              Unrolled(prog, [p \in Positions |-> Blank], Horizon))
  /\ ReplayReadsStored
  /\ CountersConserve

\* Once resets stop coming, everything the program means is popped in the
\* end: a full FIFO 2 only pauses a replay, it never loses its place.
AllPopped ==
  <>[][pc' >= pc]_vars =>
    <>[](LET all == Unrolled(prog, [p \in Positions |-> Blank], Horizon)
         IN  popped = all \/ Len(popped) = Horizon)
=============================================================================
