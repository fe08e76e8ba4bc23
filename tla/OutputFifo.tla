----------------------------- MODULE OutputFifo -----------------------------
(***************************************************************************)
(* The output FIFO of ip/streamer/output_fifo.sv: the crossing from clk to *)
(* streamer_clk, the throttling of the decoder, and on the read side the   *)
(* output register and the done / buffer_error / retrigger logic.          *)
(***************************************************************************)
EXTENDS Elements, DcFifo

CONSTANTS
  LENGTH_OUT,   \* 2**P_FIFO_OUT
  OUT_SLACK     \* the 16 of fifo_threshold = length-16

ASSUME OutputFifoAssumption ==
  LENGTH_OUT \in Nat /\ OUT_SLACK \in 3 .. LENGTH_OUT

VARIABLES
  out_fifo,          \* the dcfifo
  out_almost_full,   \* almost_full, registered on the write side
  out_ctr_in, out_ctr_out,
  qout_fifo, qout_valid, strobe_enable,
  done, terminal_seen, buffer_error, retrig_requested, stream_started

outWriteVars == <<out_almost_full, out_ctr_in>>
outReadVars == <<out_ctr_out, qout_fifo, qout_valid, strobe_enable, done,
                 terminal_seen, buffer_error, retrig_requested,
                 stream_started>>
outputFifoVars == <<out_fifo, outWriteVars, outReadVars>>

fifo_threshold == LENGTH_OUT - OUT_SLACK

OutputFifoInit ==
  /\ out_fifo = DcCleared
  /\ out_almost_full = FALSE
  /\ out_ctr_in = 0 /\ out_ctr_out = 0
  /\ qout_fifo = {} /\ qout_valid = FALSE /\ strobe_enable = FALSE
  /\ done = FALSE /\ terminal_seen = FALSE /\ buffer_error = FALSE
  /\ retrig_requested = FALSE /\ stream_started = FALSE
-----------------------------------------------------------------------------
\* One posedge of wrclk, with the write request wr for the word w.  The
\* asynchronous clear empties the FIFO on both sides.
OutputWriteTick(rst, wr, w) ==
  /\ out_fifo' \in IF rst THEN {DcCleared}
                          ELSE DcWrite(out_fifo, LENGTH_OUT, wr, w)
  /\ out_almost_full' = (~rst /\ wrusedw(out_fifo) > fifo_threshold)
  /\ out_ctr_in' = IF rst THEN 0 ELSE Bump(out_ctr_in, wr)

rdreq_nrr(rdreq) == rdreq /\ ~retrig_requested
out_empty == rdempty(out_fifo)
read_fire(rdreq) == rdreq_nrr(rdreq) /\ ~out_empty

\* The word on the show-ahead output, and what its control word makes of it.
qc == IF out_empty THEN [data |-> {}, control |-> {}] ELSE Head(out_fifo.q)
is_retrig == Is(qc, "RETRIG")
is_last == Is(qc, "TERMINATE")
is_data == ~is_retrig /\ ~is_last
is_no_strobe == Is(qc, "NO_STROBE")

data_update(rdreq) == read_fire(rdreq) /\ is_data /\ ~done
wr_last(rdreq) == read_fire(rdreq) /\ is_last /\ ~done
qout_written(rdrst, rdreq) == ~rdrst /\ (data_update(rdreq) \/ wr_last(rdreq))

underrun(rdreq) ==
  stream_started /\ rdreq_nrr(rdreq) /\ ~terminal_seen /\ out_empty

\* What a read does to done, retrig_requested and ctr_out.
\* Mutant: done in spite of an underrun.
MutDoneAnyway(rdreq) == read_fire(rdreq) /\ is_last
completes(rdreq) == read_fire(rdreq) /\ is_last /\ ~buffer_error
requests_retrig(rdreq) == read_fire(rdreq) /\ is_retrig
counts_out(rdreq) == read_fire(rdreq)

ReadReset ==
  /\ out_ctr_out' = 0
  /\ qout_fifo' = {} /\ qout_valid' = FALSE /\ strobe_enable' = FALSE
  /\ done' = FALSE /\ terminal_seen' = FALSE /\ buffer_error' = FALSE
  /\ retrig_requested' = FALSE /\ stream_started' = FALSE

ReadRun(rdreq) ==
  /\ out_ctr_out' = Bump(out_ctr_out, counts_out(rdreq))
  /\ terminal_seen' = (terminal_seen \/ (read_fire(rdreq) /\ is_last))
  /\ done' = (done \/ completes(rdreq))
  /\ retrig_requested' = requests_retrig(rdreq)
  /\ stream_started' = (stream_started \/ read_fire(rdreq))
  /\ buffer_error' = (buffer_error \/ underrun(rdreq))
  /\ qout_fifo' = IF qout_written(FALSE, rdreq) THEN qc.data ELSE qout_fifo
  /\ qout_valid' = (data_update(rdreq) /\ ~is_no_strobe)
  /\ strobe_enable' = (read_fire(rdreq) /\ ~done)

\* One posedge of rdclk.  The FIFO itself obeys rdreq even while rdrst is
\* high; only the registers around it are reset.
OutputReadTick(rdrst, rdreq) ==
  /\ out_fifo' \in DcRead(out_fifo, rdreq_nrr(rdreq))
  /\ IF rdrst THEN ReadReset ELSE ReadRun(rdreq)

OutputFifoTypeOK ==
  /\ DcTypeOK(out_fifo, OutWord, LENGTH_OUT)
  /\ out_almost_full \in BOOLEAN
  /\ out_ctr_in \in Stat /\ out_ctr_out \in Stat
  /\ qout_fifo \in Word
  /\ qout_valid \in BOOLEAN /\ strobe_enable \in BOOLEAN
  /\ done \in BOOLEAN /\ terminal_seen \in BOOLEAN
  /\ buffer_error \in BOOLEAN /\ retrig_requested \in BOOLEAN
  /\ stream_started \in BOOLEAN
=============================================================================
