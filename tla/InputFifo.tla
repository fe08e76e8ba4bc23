----------------------------- MODULE InputFifo -----------------------------
(***************************************************************************)
(* The input side of a streamer, ip/streamer/input_fifo.sv: FIFO 1, the    *)
(* preprocessor, FIFO 2, the statistics counters and the overflow latches. *)
(*                                                                         *)
(* An scfifo is a sequence whose head shows on its output; a word written  *)
(* at one edge shows at the next.                                          *)
(***************************************************************************)
EXTENDS Preprocessor

CONSTANTS
  LENGTH1, LENGTH2,  \* 2**p1, 2**p2
  almost_shift       \* words kept free above almost_full

ASSUME InputFifoAssumption ==
  /\ LENGTH1 \in Nat /\ LENGTH2 \in Nat
  /\ almost_shift \in Nat
  /\ almost_shift < LENGTH1 /\ almost_shift < LENGTH2

VARIABLES
  fifo1, fifo2,
  ctr1_in, ctr1_out, ctr2_in, ctr2_out,
  overflow_in, overflow_out

inputFifoVars == <<fifo1, fifo2, ctr1_in, ctr1_out, ctr2_in, ctr2_out,
                   overflow_in, overflow_out, preprocVars>>

InputFifoInit ==
  /\ fifo1 = <<>> /\ fifo2 = <<>>
  /\ ctr1_in = 0 /\ ctr1_out = 0 /\ ctr2_in = 0 /\ ctr2_out = 0
  /\ overflow_in = FALSE /\ overflow_out = FALSE
  /\ PreprocInit
-----------------------------------------------------------------------------
almost_full1 == Len(fifo1) >= LENGTH1 - almost_shift
almost_full2 == Len(fifo2) >= LENGTH2 - almost_shift
full1 == Len(fifo1) = LENGTH1
full2 == Len(fifo2) = LENGTH2
full == almost_full1   \* the back-pressure shown to the source

rdempty1 == fifo1 = <<>>
empty_i == fifo2 = <<>>
q1 == IF rdempty1 THEN Blank ELSE Head(fifo1)
q_i == IF empty_i THEN Blank ELSE Head(fifo2)

\* An scfifo with overflow and underflow checking: a write to a full FIFO
\* and a read from an empty one are ignored.
ScNext(fifo, size, wr, w, rd) ==
  LET rest == IF rd /\ fifo # <<>> THEN Tail(fifo) ELSE fifo
  IN  IF wr /\ Len(fifo) < size THEN Append(rest, w) ELSE rest

\* Mutant: the write request is not gated by almost_full.
MutUngated(wrreq) == wrreq
wrreq1(wrreq) == wrreq /\ ~almost_full1
wrreq2 == dout_valid(q1, ~rdempty1, ~almost_full2) /\ ~almost_full2
rdreq1 == din_ready(q1, ~almost_full2)

\* One posedge of clk: the source offers data with wrreq, the streamer pops
\* with rdreq.
InputFifoTick(rst, data, wrreq, rdreq) ==
  /\ PreprocTick(rst, q1, ~rdempty1, ~almost_full2)
  /\ IF rst
       THEN /\ fifo1' = <<>> /\ fifo2' = <<>>
            /\ ctr1_in' = 0 /\ ctr1_out' = 0
            /\ ctr2_in' = 0 /\ ctr2_out' = 0
            /\ overflow_in' = FALSE /\ overflow_out' = FALSE
       ELSE /\ fifo1' = ScNext(fifo1, LENGTH1, wrreq1(wrreq), data, rdreq1)
            /\ fifo2' = ScNext(fifo2, LENGTH2, wrreq2, dout(q1), rdreq)
            /\ ctr1_in' = Bump(ctr1_in, wrreq1(wrreq))
            /\ ctr1_out' = Bump(ctr1_out, rdreq1 /\ ~rdempty1)
            /\ ctr2_in' = Bump(ctr2_in, wrreq2)
            /\ ctr2_out' = Bump(ctr2_out, rdreq /\ ~empty_i)
            /\ overflow_in' = (overflow_in \/ (wrreq1(wrreq) /\ full1))
            /\ overflow_out' = (overflow_out \/ (wrreq2 /\ full2))
-----------------------------------------------------------------------------
InputFifoTypeOK ==
  /\ fifo1 \in Seq(Element) /\ Len(fifo1) <= LENGTH1
  /\ fifo2 \in Seq(Element) /\ Len(fifo2) <= LENGTH2
  /\ ctr1_in \in Stat /\ ctr1_out \in Stat
  /\ ctr2_in \in Stat /\ ctr2_out \in Stat
  /\ overflow_in \in BOOLEAN /\ overflow_out \in BOOLEAN
  /\ PreprocTypeOK

\* docs/docs/details.md calls a true overflow of an input FIFO impossible by
\* construction: the almost_full gates keep every write out of a full FIFO.
InputNeverOverflows == ~overflow_in /\ ~overflow_out

\* The statistics counters account for every element: what went into a FIFO
\* and has not come out is in it, even after the counters wrap.
CountersConserve ==
  /\ (ctr1_in - ctr1_out) % 2^WIDTH_STAT = Len(fifo1) % 2^WIDTH_STAT
  /\ (ctr2_in - ctr2_out) % 2^WIDTH_STAT = Len(fifo2) % 2^WIDTH_STAT
=============================================================================
