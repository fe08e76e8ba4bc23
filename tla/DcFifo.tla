------------------------------- MODULE DcFifo -------------------------------
(***************************************************************************)
(* The vendor's dual-clock FIFO (dcfifo), as the streamer uses it: overflow *)
(* and underflow checking on, pointers crossing in both directions through *)
(* synchronizers.                                                          *)
(*                                                                         *)
(* A FIFO is a record: q holds the words; vis of them have crossed to the  *)
(* read side; freed counts the words that were read but that the write     *)
(* side still believes present.  How far the synchronizers advance at an   *)
(* edge is left open: their delay depends on the phase of the two clocks.  *)
(***************************************************************************)
EXTENDS Integers, Sequences

DcCleared == [q |-> <<>>, vis |-> 0, freed |-> 0]

rdempty(f) == f.vis = 0
wrusedw(f) == Len(f.q) + f.freed
wrfull(f, size) == wrusedw(f) >= size

\* The states after an edge of the write clock: a write to a full FIFO is
\* ignored.
DcWrite(f, size, wr, w) ==
  {[q |-> IF wr /\ ~wrfull(f, size) THEN Append(f.q, w) ELSE f.q,
    vis |-> f.vis, freed |-> n] : n \in 0 .. f.freed}

\* The states after an edge of the read clock: a read from a FIFO that looks
\* empty is ignored.
DcRead(f, rd) ==
  IF rd /\ ~rdempty(f)
    THEN {[q |-> Tail(f.q), vis |-> n, freed |-> f.freed + 1] :
            n \in (f.vis - 1) .. (Len(f.q) - 1)}
    ELSE {[f EXCEPT !.vis = n] : n \in f.vis .. Len(f.q)}

\* The read side has caught up with every word written so far.
DcCaughtUp(f) == f.vis = Len(f.q)

DcTypeOK(f, W, size) ==
  /\ f \in [q : Seq(W), vis : Nat, freed : Nat]
  /\ Len(f.q) <= size
  /\ f.vis <= Len(f.q)
=============================================================================
