---------------------------- MODULE CdcBusUpdate ----------------------------
(***************************************************************************)
(* The latest-value bus crossing cdc_bus_update of ip/misc/cdc.sv: a       *)
(* two-phase toggle handshake between two unrelated clocks.  The source    *)
(* holds src_send_data stable from the request toggle until the            *)
(* acknowledgement toggle has come back; updates that arrive meanwhile     *)
(* collapse into src_pending_data.  The destination commits at once when   *)
(* dst_accept is high and otherwise parks the value in dst_pending_data.   *)
(*                                                                         *)
(* The payload is data-independent, so it is modelled by a version number: *)
(* each update offers the current version again or the next one.  A        *)
(* payload sampled by the destination in the very step in which the source *)
(* changes it is Torn: its bits may come from either value.                *)
(***************************************************************************)
EXTENDS Integers

CONSTANTS
  MaxVersion,  \* bound: the number of distinct payloads the source offers
  UpdateIn,    \* values the src_update input may take at a source edge
  AcceptIn     \* values the dst_accept input may take at a destination edge

ASSUME MaxVersionAssumption == MaxVersion \in Nat
ASSUME UpdateInAssumption == UpdateIn \subseteq BOOLEAN
ASSUME AcceptInAssumption == AcceptIn \subseteq BOOLEAN

VARIABLES
  src_reset, dst_reset,   \* the two domains' views of one logical reset
  seen,                   \* domains clocked since both views were asserted
  newest,                 \* newest version seen with src_update (history)
  src_send_data, src_pending_data, src_pending_valid,
  src_req_tgl, src_inflight,
  src_ack_meta, src_ack_sync, src_ack_sync_d,
  dst_req_meta, dst_req_sync,  \* dst_req_sync_chain[0], dst_req_sync_chain[1]
  dst_req_sync_d, dst_ack_tgl,
  dst_data, dst_valid, dst_pending_data, dst_pending_valid

resetVars == <<src_reset, dst_reset>>
srcVars == <<newest, src_send_data, src_pending_data, src_pending_valid,
             src_req_tgl, src_inflight,
             src_ack_meta, src_ack_sync, src_ack_sync_d>>
dstVars == <<dst_req_meta, dst_req_sync, dst_req_sync_d, dst_ack_tgl,
             dst_data, dst_valid, dst_pending_data, dst_pending_valid>>
cdcVars == <<resetVars, seen, srcVars, dstVars>>

RESET_VALUE == 0
Torn == -1
Domains == {"src", "dst"}
-----------------------------------------------------------------------------
SrcCleared ==
  /\ newest = RESET_VALUE
  /\ src_send_data = RESET_VALUE
  /\ src_pending_data = RESET_VALUE
  /\ src_pending_valid = FALSE
  /\ src_req_tgl = FALSE
  /\ src_inflight = FALSE
  /\ src_ack_meta = FALSE
  /\ src_ack_sync = FALSE
  /\ src_ack_sync_d = FALSE

DstCleared ==
  /\ dst_req_meta = FALSE
  /\ dst_req_sync = FALSE
  /\ dst_req_sync_d = FALSE
  /\ dst_ack_tgl = FALSE
  /\ dst_data = RESET_VALUE
  /\ dst_valid = FALSE
  /\ dst_pending_data = RESET_VALUE
  /\ dst_pending_valid = FALSE

\* The FPGA powers up with the registers cleared and the reset asserted.
CdcInit ==
  /\ src_reset = TRUE
  /\ dst_reset = TRUE
  /\ seen = {}
  /\ SrcCleared
  /\ DstCleared
-----------------------------------------------------------------------------
\* Mutants: the edge detector compares a stage with itself; a request in
\* flight does not hold the next one back.
MutAckUnseen == src_ack_sync # src_ack_sync
MutSendsAtOnce == TRUE
src_ack_event == src_ack_sync # src_ack_sync_d
src_can_send == ~src_inflight \/ src_ack_event
src_busy == src_inflight \/ src_pending_valid
dst_req_event == dst_req_sync # dst_req_sync_d
dst_pending == dst_pending_valid

\* Does a busy source keep an update for later?
keeps_pending(upd) == src_pending_valid \/ upd

\* A posedge of src_clk outside reset, with src_update = upd, src_data = v
\* and the acknowledgement wire sampled as ack.
SrcRun(upd, v, ack) ==
  LET sends == src_can_send /\ (upd \/ src_pending_valid)
  IN
  /\ newest' = IF upd THEN v ELSE newest
  /\ src_ack_meta' = ack
  /\ src_ack_sync' = src_ack_meta
  /\ src_ack_sync_d' = src_ack_sync
  /\ src_pending_data' = IF upd THEN v ELSE src_pending_data
  /\ src_pending_valid' = (keeps_pending(upd) /\ ~sends)
  /\ src_send_data' = IF sends THEN (IF upd THEN v ELSE src_pending_data)
                               ELSE src_send_data
  /\ src_req_tgl' = (src_req_tgl # sends)
  /\ src_inflight' = (sends \/ (src_inflight /\ ~src_ack_event))

SrcReset ==
  /\ newest' = RESET_VALUE
  /\ src_send_data' = RESET_VALUE
  /\ src_pending_data' = RESET_VALUE
  /\ src_pending_valid' = FALSE
  /\ src_req_tgl' = FALSE
  /\ src_inflight' = FALSE
  /\ src_ack_meta' = FALSE
  /\ src_ack_sync' = FALSE
  /\ src_ack_sync_d' = FALSE

SrcClk(upd, v, ack) == IF src_reset THEN SrcReset ELSE SrcRun(upd, v, ack)

\* Does the destination still park a payload after this edge?
\* Mutant: accepting it does not free the parking register.
MutParksForEver(acc) == dst_pending_valid \/ (dst_req_event /\ ~acc)
parks(acc) == ~acc /\ (dst_pending_valid \/ dst_req_event)

\* A posedge of dst_clk outside reset, with dst_accept = acc, sampling the
\* payload wires as "sample" and the request wire as req.
DstRun(acc, sample, req) ==
  /\ dst_req_meta' = req
  /\ dst_req_sync' = dst_req_meta
  /\ dst_req_sync_d' = dst_req_sync
  /\ dst_ack_tgl' = (dst_ack_tgl # dst_req_event)
  /\ dst_valid' = (acc /\ (dst_req_event \/ dst_pending_valid))
  /\ dst_data' = IF ~acc THEN dst_data
                 ELSE IF dst_req_event THEN sample
                 ELSE IF dst_pending_valid THEN dst_pending_data
                 ELSE dst_data
  /\ dst_pending_data' = IF dst_req_event /\ ~acc THEN sample
                                                  ELSE dst_pending_data
  /\ dst_pending_valid' = parks(acc)

DstReset ==
  /\ dst_req_meta' = FALSE
  /\ dst_req_sync' = FALSE
  /\ dst_req_sync_d' = FALSE
  /\ dst_ack_tgl' = FALSE
  /\ dst_data' = RESET_VALUE
  /\ dst_valid' = FALSE
  /\ dst_pending_data' = RESET_VALUE
  /\ dst_pending_valid' = FALSE

DstClk(acc, sample, req) ==
  IF dst_reset THEN DstReset ELSE DstRun(acc, sample, req)

Clocked(D) == seen' = IF src_reset /\ dst_reset THEN seen \cup D ELSE seen

Versions == {v \in {newest, newest + 1} : v <= MaxVersion}

SrcEdge(upd, v) ==
  /\ SrcClk(upd, v, dst_ack_tgl)
  /\ Clocked({"src"})
  /\ UNCHANGED <<resetVars, dstVars>>

DstEdge(acc) ==
  /\ DstClk(acc, src_send_data, src_req_tgl)
  /\ Clocked({"dst"})
  /\ UNCHANGED <<resetVars, srcVars>>

\* Both clocks rise together.  The first synchronizer flop of each side
\* settles to the old or to the new level of a toggle that is changing at
\* that moment, and a payload that is changing is sampled Torn.
BothEdges(upd, v, acc) ==
  \E ack, req \in BOOLEAN :
    /\ SrcClk(upd, v, ack)
    /\ DstClk(acc, IF src_send_data' = src_send_data THEN src_send_data
                                                     ELSE Torn, req)
    /\ ack \in {dst_ack_tgl, dst_ack_tgl'}
    /\ req \in {src_req_tgl, src_req_tgl'}
    /\ Clocked(Domains)
    /\ UNCHANGED resetVars

\* "src_reset and dst_reset must represent the same logical reset event":
\* the domains enter it one after the other, and neither leaves it before
\* both have been clocked while both are in it.
AssertSrcReset ==
  /\ src_reset' = TRUE
  /\ seen' = {}
  /\ UNCHANGED <<dst_reset, srcVars, dstVars>>

AssertDstReset ==
  /\ dst_reset' = TRUE
  /\ seen' = {}
  /\ UNCHANGED <<src_reset, srcVars, dstVars>>

ReleaseSrcReset ==
  /\ seen = Domains
  /\ src_reset
  /\ src_reset' = FALSE
  /\ UNCHANGED <<dst_reset, seen, srcVars, dstVars>>

ReleaseDstReset ==
  /\ seen = Domains
  /\ dst_reset
  /\ dst_reset' = FALSE
  /\ UNCHANGED <<src_reset, seen, srcVars, dstVars>>

CdcNext ==
  \/ \E upd \in UpdateIn, v \in Versions : SrcEdge(upd, v)
  \/ \E acc \in AcceptIn : DstEdge(acc)
  \/ \E upd \in UpdateIn, v \in Versions, acc \in AcceptIn :
       BothEdges(upd, v, acc)
  \/ AssertSrcReset
  \/ AssertDstReset
  \/ ReleaseSrcReset
  \/ ReleaseDstReset

CdcSpec == CdcInit /\ [][CdcNext]_cdcVars

SrcTicks == \E upd \in UpdateIn, v \in Versions :
              \/ SrcEdge(upd, v)
              \/ \E acc \in AcceptIn : BothEdges(upd, v, acc)
DstAccepts == \/ DstEdge(TRUE)
              \/ \E upd \in UpdateIn, v \in Versions : BothEdges(upd, v, TRUE)

\* Both clocks run for ever, the destination is ready to accept again and
\* again, and a reset that both domains have entered ends.
FairSpec ==
  /\ CdcSpec
  /\ WF_cdcVars(SrcTicks) /\ WF_cdcVars(DstAccepts)
  /\ WF_cdcVars(ReleaseSrcReset) /\ WF_cdcVars(ReleaseDstReset)
-----------------------------------------------------------------------------
FlagsOK ==
  /\ src_reset \in BOOLEAN /\ dst_reset \in BOOLEAN
  /\ seen \in SUBSET Domains
  /\ src_pending_valid \in BOOLEAN
  /\ src_req_tgl \in BOOLEAN /\ src_inflight \in BOOLEAN
  /\ src_ack_meta \in BOOLEAN
  /\ src_ack_sync \in BOOLEAN
  /\ src_ack_sync_d \in BOOLEAN
  /\ dst_req_meta \in BOOLEAN /\ dst_req_sync \in BOOLEAN
  /\ dst_req_sync_d \in BOOLEAN /\ dst_ack_tgl \in BOOLEAN
  /\ dst_valid \in BOOLEAN
  /\ dst_pending_valid \in BOOLEAN

DataOK ==
  /\ newest \in 0 .. MaxVersion
  /\ src_send_data \in 0 .. MaxVersion
  /\ src_pending_data \in 0 .. MaxVersion
  /\ dst_data \in Torn .. MaxVersion
  /\ dst_pending_data \in Torn .. MaxVersion

TypeOK == FlagsOK /\ DataOK

\* Both domains have gone through their latest common reset.
Clean == seen = Domains

\* cdc.sv, "Source holds src_send_data stable from request toggle until the
\* destination has sampled it": outside a reset the destination never holds a
\* value sampled while it was changing, whatever the two clocks' phases.
Coherent == Clean => dst_data # Torn /\ dst_pending_data # Torn

\* The newest version the destination holds, committed or parked.
Held == IF dst_pending_valid THEN dst_pending_data ELSE dst_data

\* No update is lost in the collapse to the latest value: when the source is
\* not busy, what the destination holds is exactly the newest offered version.
QuiescentIsLatest == Clean /\ ~src_busy => Held = newest

\* Outside a reset the destination moves only forward, and only to versions
\* offered before: no stale, repeated-out-of-order or invented payload.
Abstract == INSTANCE LatestValue
              WITH up <- Clean, offered <- newest, delivered <- dst_data
ImplementsLatestValue == Abstract!Spec

\* Every offered version is eventually shown or overtaken by a newer one,
\* unless a reset intervenes.
EveryOfferArrives ==
  \A n \in 1 .. MaxVersion :
    (Clean /\ newest >= n) ~> (dst_data >= n \/ ~Clean)
=============================================================================
