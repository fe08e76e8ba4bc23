--------------------------- MODULE HostLinkProofs ---------------------------
(***************************************************************************)
(* The FPGA's links to the host and between its clocks, for every width,   *)
(* element size, FIFO size and number of beats and versions.               *)
(*                                                                         *)
(* In: the multiplexer obeys the Avalon-ST rule at its output, mixes no    *)
(* two streams, its counters count, and read_stable_u64 returns a value    *)
(* the counter really had.  The last one rests on the counter never going  *)
(* back: with equal high words before and after, the high word was the     *)
(* same when the low word was read.                                        *)
(*                                                                         *)
(* Out: the read-back encoder's overflow flag is high exactly when a       *)
(* sample is missing from the runs.                                        *)
(*                                                                         *)
(* Between clocks: cdc_bus_update shows the latest value, whatever         *)
(* src_update and dst_accept do.  Seven registers form a ring from the     *)
(* request toggle through the two synchronizers back to the                *)
(* acknowledgement's edge detector, and at most one place of the ring      *)
(* separates unequal levels.  While that place is the destination's edge   *)
(* detector the source neither is idle nor sees an acknowledgement, so the *)
(* payload cannot change under the destination's sample.                   *)
(***************************************************************************)
EXTENDS StMux, RlEncoder, CdcBusUpdate, DataInduction

RegTypeOK ==
  /\ channel \in Channels /\ requested_channel \in Channels
  /\ ctr \in [Channels -> Nat]
  /\ offered \in [Channels -> BOOLEAN]
  /\ beat \in [Channels -> 0 .. MaxBeats]
  /\ reader \in Readers /\ target \in Channels
  /\ hi1 \in Nat /\ lo \in Nat /\ truth \in Nat

\* A source that offers a beat has one.
OfferInRange == \A c \in Channels : offered[c] => beat[c] < MaxBeats

\* A counter that cannot wrap is the number of beats.
CountersExact == \A c \in Channels : ctr[c] = beat[c]

B == 2^HALF

\* What a reader in the middle of read_stable_u64 knows.
ReaderInv ==
  /\ reader \in {"low", "high"} => hi1 <= ctr[target] \div B
  /\ reader = "high" => /\ lo = truth % B /\ truth <= ctr[target]
                        /\ hi1 <= truth \div B
  /\ reader = "returned" => hi1 * B + lo = truth

MuxInv == RegTypeOK /\ OfferInRange /\ CountersExact /\ ReaderInv
-----------------------------------------------------------------------------
(***************************************************************************)
(* Division.                                                               *)
(***************************************************************************)
\* The base of a counter half.
LEMMA BaseFacts == B \in Nat /\ B > 0
BY MuxAssumption DEF B

\* Quotient and remainder.
LEMMA DivMod ==
  ASSUME NEW a \in Nat, NEW b \in Nat, b > 0
  PROVE  /\ a \div b \in Nat /\ a % b \in Nat /\ a % b < b
         /\ a = (a \div b) * b + (a % b)
OBVIOUS

\* A larger quotient is a larger number.
LEMMA DivMonotone ==
  ASSUME NEW a \in Nat, NEW d \in Nat, NEW b \in Nat, b > 0, a <= d
  PROVE  a \div b <= d \div b
<1> DEFINE p == a \div b
           q == d \div b
<1>1. /\ p \in Nat /\ q \in Nat /\ a % b \in Nat /\ d % b \in Nat
      /\ d % b < b /\ a = p * b + (a % b) /\ d = q * b + (d % b)
  BY DivMod
<1> HIDE DEF p, q
<1>2. ASSUME p > q PROVE FALSE
  <2>1. PICK k \in Nat : p = q + 1 + k
    BY <1>1, <1>2
  <2>2. p * b = q * b + b + k * b /\ k * b \in Nat
    BY <1>1, <2>1
  <2> QED
    BY <1>1, <2>2
<1> QED
  BY <1>1, <1>2 DEF p, q
-----------------------------------------------------------------------------
(***************************************************************************)
(* The data path.                                                          *)
(***************************************************************************)
\* The invariants of the registers and counters alone.
DataInv ==
  /\ channel \in Channels /\ requested_channel \in Channels
  /\ ctr \in [Channels -> Nat]
  /\ offered \in [Channels -> BOOLEAN]
  /\ beat \in [Channels -> 0 .. MaxBeats]
  /\ OfferInRange /\ CountersExact

\* One edge keeps the data path's invariants, and no counter goes back.
LEMMA MoveStep ==
  ASSUME DataInv, NEW next \in Channels, NEW rdy \in BOOLEAN,
         Move(next, rdy)
  PROVE  DataInv' /\ \A c \in Channels : ctr[c] <= ctr'[c]
<1>1. channel' \in Channels /\ requested_channel' \in Channels
  BY DEF Move, Select, DataInv
<1>2. offered' \in [Channels -> BOOLEAN]
  BY DEF Move, Sources
<1>3. ASSUME NEW c \in Channels
      PROVE  /\ beat'[c] \in 0 .. MaxBeats /\ ctr'[c] = beat'[c]
             /\ ctr[c] <= ctr'[c]
  <2>1. /\ beat[c] \in Nat /\ beat[c] <= MaxBeats /\ ctr[c] = beat[c]
        /\ MaxBeats \in Nat
    BY MuxAssumption DEF DataInv, CountersExact
  <2>2. CASE transfers(c, rdy)
    <3>1. beat'[c] = beat[c] + 1 /\ ctr'[c] = (ctr[c] + 1) % 2^(2 * HALF)
      BY <2>2 DEF Move, Sources, Count
    <3>2. beat[c] < MaxBeats
      BY <2>2 DEF DataInv, OfferInRange, transfers
    <3>3. (ctr[c] + 1) % 2^(2 * HALF) = ctr[c] + 1
      <4> DEFINE M == 2^(2 * HALF)
      <4>1. M \in Nat /\ MaxBeats < M
        BY NoWrapAssumption
      <4> HIDE DEF M
      <4>2. (ctr[c] + 1) % M = ctr[c] + 1
        BY <2>1, <3>2, <4>1
      <4> QED
        BY <4>2 DEF M
    <3> QED
      BY <2>1, <3>1, <3>2, <3>3
  <2>3. CASE ~transfers(c, rdy)
    <3>1. beat'[c] = beat[c] /\ ctr'[c] = ctr[c]
      BY <2>3 DEF Move, Sources, Count
    <3> QED
      BY <2>1, <3>1
  <2> QED
    BY <2>2, <2>3
<1>4. DOMAIN beat' = Channels /\ DOMAIN ctr' = Channels
      /\ beat' = [c \in Channels |-> beat'[c]]
      /\ ctr' = [c \in Channels |-> ctr'[c]]
  BY DEF Move, Sources, Count
<1>5. beat' \in [Channels -> 0 .. MaxBeats] /\ ctr' \in [Channels -> Nat]
  <2>1. \A c \in Channels : beat'[c] \in 0 .. MaxBeats /\ ctr'[c] \in Nat
    BY <1>3
  <2> QED
    BY <1>4, <2>1
<1>6. OfferInRange'
  BY DEF Move, Sources, OfferInRange
<1>7. CountersExact'
  BY <1>3 DEF CountersExact
<1> QED
  BY <1>1, <1>2, <1>3, <1>5, <1>6, <1>7 DEF DataInv

\* The invariant, split into data path and reader.
ReaderTypeOK ==
  /\ reader \in Readers /\ target \in Channels
  /\ hi1 \in Nat /\ lo \in Nat /\ truth \in Nat

\* The inductive invariant, split along the components.
LEMMA MuxInvParts == MuxInv <=> DataInv /\ ReaderTypeOK /\ ReaderInv
BY DEF MuxInv, DataInv, ReaderTypeOK, RegTypeOK

\* The halves of a counter are numbers.
LEMMA Halves ==
  ASSUME DataInv, NEW c \in Channels
  PROVE  /\ ctr[c] \in Nat /\ high(c) \in Nat /\ low(c) \in Nat
         /\ high(c) = ctr[c] \div B /\ low(c) = ctr[c] % B
<1>1. ctr[c] \in Nat
  BY DEF DataInv
<1>2. high(c) = ctr[c] \div B /\ low(c) = ctr[c] % B
  BY DEF high, low, B
<1> QED
  BY <1>1, <1>2, BaseFacts, DivMod

\* A counter that moves on keeps its high word at least as large.
LEMMA HighGrows ==
  ASSUME DataInv, DataInv', NEW c \in Channels, ctr[c] <= ctr'[c]
  PROVE  ctr[c] \div B <= ctr'[c] \div B
<1>1. ctr[c] \in Nat /\ ctr'[c] \in Nat
  BY DEF DataInv
<1> QED
  BY <1>1, BaseFacts, DivMonotone

\* An edge at which the reader does nothing keeps what it knows.
LEMMA ReaderWaits ==
  ASSUME DataInv, DataInv', ReaderTypeOK, ReaderInv,
         \A c \in Channels : ctr[c] <= ctr'[c],
         target' = target, hi1' = hi1, lo' = lo, truth' = truth,
         reader' = reader
  PROVE  ReaderTypeOK' /\ ReaderInv'
<1>1. ReaderTypeOK'
  BY DEF ReaderTypeOK
<1>2. /\ ctr[target] <= ctr'[target]
      /\ ctr[target] \div B <= ctr'[target] \div B
      /\ ctr[target] \in Nat /\ ctr'[target] \in Nat
  BY HighGrows DEF ReaderTypeOK, DataInv
<1>3. /\ ctr[target] \div B \in Nat /\ ctr'[target] \div B \in Nat
      /\ hi1 \in Nat /\ truth \in Nat
  BY <1>2, BaseFacts, DivMod DEF ReaderTypeOK
<1>4. B' = B
  BY DEF B
<1>5. reader \in {"low", "high"} => hi1 <= ctr'[target] \div B
  BY <1>2, <1>3 DEF ReaderInv
<1>6. reader = "high" => truth <= ctr'[target]
  BY <1>2, <1>3 DEF ReaderInv
<1> QED
  BY <1>1, <1>4, <1>5, <1>6 DEF ReaderInv, B
-----------------------------------------------------------------------------
\* Every step keeps the invariant.
LEMMA MuxStep == MuxInv /\ [Next]_vars => MuxInv'
<1> SUFFICES ASSUME MuxInv, [Next]_vars PROVE MuxInv'
  OBVIOUS
<1>1. DataInv /\ ReaderTypeOK /\ ReaderInv /\ requested_channel \in Channels
  BY MuxInvParts DEF DataInv
<1>2. CASE UNCHANGED vars
  BY <1>1, <1>2 DEF vars, sourceVars, readerVars, MuxInv, RegTypeOK,
     OfferInRange, CountersExact, ReaderInv, B
<1>3. CASE Next
  <2>1. PICK rdy \in BOOLEAN :
          \/ Tick(rdy)
          \/ \E c \in Channels : SwitchChannel(c, rdy)
          \/ \E c \in Channels : ReadFirstHigh(c, rdy)
          \/ ReadLow(rdy)
          \/ ReadSecondHigh(rdy)
          \/ Retry(rdy)
          \/ Return(rdy)
    BY <1>3 DEF Next
  <2>2. \E next \in Channels : Move(next, rdy)
    BY <1>1, <2>1 DEF Tick, SwitchChannel, ReadFirstHigh, ReadLow,
       ReadSecondHigh, Retry, Return
  <2>3. DataInv' /\ \A c \in Channels : ctr[c] <= ctr'[c]
    BY <1>1, <2>2, MoveStep
  <2>4. /\ target \in Channels /\ ctr[target] <= ctr'[target]
        /\ ctr[target] \in Nat /\ ctr'[target] \in Nat
        /\ hi1 \in Nat /\ lo \in Nat /\ truth \in Nat
        /\ reader \in Readers
    BY <1>1, <2>3 DEF ReaderTypeOK, DataInv
  <2>5. B' = B /\ B \in Nat /\ B > 0
    BY BaseFacts DEF B
  <2>6. ctr[target] \div B <= ctr'[target] \div B
    BY <1>1, <2>3, <2>4, HighGrows
  <2>7. CASE Tick(rdy) \/ \E c \in Channels : SwitchChannel(c, rdy)
    <3>1. UNCHANGED <<reader, target, hi1, lo, truth>>
      BY <2>7 DEF Tick, SwitchChannel, readerVars
    <3> QED
      BY <1>1, <2>3, <3>1, ReaderWaits, MuxInvParts DEF MuxInv, DataInv,
         ReaderTypeOK, RegTypeOK
  <2>8. CASE \E c \in Channels : ReadFirstHigh(c, rdy)
    <3>1. PICK c \in Channels : ReadFirstHigh(c, rdy)
      BY <2>8
    <3>2. /\ reader' = "low" /\ target' = c /\ hi1' = high(c)
          /\ lo' = lo /\ truth' = truth
      BY <3>1 DEF ReadFirstHigh
    <3>3. /\ high(c) \in Nat /\ high(c) = ctr[c] \div B
          /\ ctr[c] \div B <= ctr'[c] \div B
      BY <1>1, <2>3, Halves, HighGrows
    <3>4. ReaderInv'
      BY <2>5, <3>2, <3>3 DEF ReaderInv, B
    <3>5. ReaderTypeOK'
      BY <2>4, <3>2, <3>3 DEF ReaderTypeOK, Readers
    <3> QED
      BY <2>3, <3>4, <3>5 DEF MuxInv, DataInv, ReaderTypeOK, RegTypeOK
  <2>9. CASE ReadLow(rdy)
    <3>1. /\ reader = "low" /\ reader' = "high" /\ lo' = low(target)
          /\ truth' = ctr[target] /\ target' = target /\ hi1' = hi1
      BY <2>9 DEF ReadLow
    <3>2. low(target) \in Nat /\ low(target) = ctr[target] % B
      BY <1>1, <2>4, Halves
    <3>3. hi1 <= ctr[target] \div B /\ ctr[target] \div B \in Nat
          /\ ctr'[target] \div B \in Nat
      BY <1>1, <2>4, <2>5, <3>1, DivMod DEF ReaderInv
    <3>4. hi1 <= ctr'[target] \div B
      BY <2>4, <2>6, <3>3
    <3>5. ReaderInv'
      BY <2>4, <3>1, <3>2, <3>3, <3>4 DEF ReaderInv, B
    <3>6. ReaderTypeOK'
      BY <2>4, <3>1, <3>2 DEF ReaderTypeOK, Readers
    <3> QED
      BY <2>3, <3>5, <3>6 DEF MuxInv, DataInv, ReaderTypeOK, RegTypeOK
  <2>10. CASE ReadSecondHigh(rdy)
    <3>1. /\ reader = "high" /\ UNCHANGED <<target, hi1, lo, truth>>
          /\ reader' = IF stable(high(target)) THEN "returned" ELSE "again"
      BY <2>10 DEF ReadSecondHigh
    <3>2. /\ lo = truth % B /\ truth <= ctr[target] /\ hi1 <= truth \div B
      BY <1>1, <3>1 DEF ReaderInv
    <3>3. ASSUME stable(high(target)) PROVE hi1 * B + lo = truth
      <4>1. hi1 = ctr[target] \div B
        BY <1>1, <2>4, <3>3, Halves DEF stable
      <4>2. truth \div B <= ctr[target] \div B
        BY <2>4, <2>5, <3>2, DivMonotone
      <4>3. /\ truth \div B \in Nat /\ truth % B \in Nat
            /\ truth = (truth \div B) * B + (truth % B)
        BY <2>4, <2>5, DivMod
      <4>4. hi1 = truth \div B
        BY <2>4, <3>2, <4>1, <4>2, <4>3
      <4> QED
        BY <3>2, <4>3, <4>4
    <3>4. ReaderInv'
      BY <3>1, <3>3 DEF ReaderInv, B
    <3>5. ReaderTypeOK'
      BY <2>4, <3>1 DEF ReaderTypeOK, Readers
    <3> QED
      BY <2>3, <3>4, <3>5 DEF MuxInv, DataInv, ReaderTypeOK, RegTypeOK
  <2>11. CASE Retry(rdy)
    <3>1. /\ reader' = "low" /\ target' = target /\ hi1' = high(target)
          /\ lo' = lo /\ truth' = truth
      BY <2>11 DEF Retry
    <3>2. high(target) \in Nat /\ high(target) = ctr[target] \div B
      BY <1>1, <2>4, Halves
    <3>3. ReaderInv'
      BY <2>6, <3>1, <3>2 DEF ReaderInv, B
    <3>4. ReaderTypeOK'
      BY <2>4, <3>1, <3>2 DEF ReaderTypeOK, Readers
    <3> QED
      BY <2>3, <3>3, <3>4 DEF MuxInv, DataInv, ReaderTypeOK, RegTypeOK
  <2>12. CASE Return(rdy)
    <3>1. reader' = "idle" /\ UNCHANGED <<target, hi1, lo, truth>>
      BY <2>12 DEF Return
    <3>2. ReaderInv'
      BY <3>1 DEF ReaderInv
    <3>3. ReaderTypeOK'
      BY <2>4, <3>1 DEF ReaderTypeOK, Readers
    <3> QED
      BY <2>3, <3>2, <3>3 DEF MuxInv, DataInv, ReaderTypeOK, RegTypeOK
  <2> QED
    BY <2>1, <2>7, <2>8, <2>9, <2>10, <2>11, <2>12
<1> QED
  BY <1>2, <1>3

\* The invariant holds after configuration.
LEMMA MuxStart == Init => MuxInv
BY MuxAssumption DEF Init, Zero, Channels, Readers, MuxInv, RegTypeOK,
   OfferInRange, CountersExact, ReaderInv

\* The invariant holds in every reachable state.
THEOREM MuxInvariance == Spec => []MuxInv
BY MuxStart, MuxStep, PTL DEF Spec

\* read_stable_u64 returns a value the running counter had when its low word
\* was read, for every width and every number of transfers in between.
THEOREM StableReads == Spec => []ReadIsTrue
<1>1. MuxInv => ReadIsTrue
  BY DEF MuxInv, ReaderInv, ReadIsTrue, B
<1> QED
  BY <1>1, MuxInvariance, PTL

\* st_mux_if.sv's counters are the numbers of beats handed over.
THEOREM MuxCounts == Spec => []CountersCount
<1>1. MuxInv => CountersCount
  <2> SUFFICES ASSUME MuxInv, NEW c \in Channels
               PROVE  ctr[c] = beat[c] % 2^(2 * HALF)
    BY DEF CountersCount
  <2> DEFINE M == 2^(2 * HALF)
  <2>1. M \in Nat /\ MaxBeats < M /\ MaxBeats \in Nat
    BY NoWrapAssumption, MuxAssumption
  <2>2. beat[c] \in Nat /\ beat[c] <= MaxBeats /\ ctr[c] = beat[c]
    BY <2>1 DEF MuxInv, RegTypeOK, CountersExact
  <2> HIDE DEF M
  <2>3. beat[c] % M = beat[c]
    BY <2>1, <2>2
  <2> QED
    BY <2>2, <2>3 DEF M
<1> QED
  BY <1>1, MuxInvariance, PTL

\* A stalled beat survives a channel switch: st_mux_if.sv moves its channel
\* register only when the selected source is not stalled.
THEOREM BeatIsHeld == Spec => HeldBeat
<1>1. MuxInv /\ [Next]_vars =>
        [aso_valid /\ beat' = beat
           => /\ aso_valid' /\ aso_data' = aso_data
              /\ aso_channel' = aso_channel]_vars
  <2> SUFFICES ASSUME MuxInv, Next, aso_valid, beat' = beat
               PROVE  /\ aso_valid' /\ aso_data' = aso_data
                      /\ aso_channel' = aso_channel
    BY DEF vars
  <2>1. channel \in Channels /\ requested_channel \in Channels
        /\ beat[channel] \in Nat
    BY MuxAssumption DEF MuxInv, RegTypeOK
  <2>2. PICK rdy \in BOOLEAN, next \in Channels : Move(next, rdy)
    BY <2>1 DEF Next, Tick, SwitchChannel, ReadFirstHigh, ReadLow,
       ReadSecondHigh, Retry, Return
  <2>3. ~transfers(channel, rdy)
    <3>1. transfers(channel, rdy) => beat'[channel] = beat[channel] + 1
      BY <2>1, <2>2 DEF Move, Sources
    <3> QED
      BY <2>1, <3>1
  <2>4. ~rdy
    BY <2>3 DEF transfers, asi_ready, aso_valid
  <2>5. channel' = channel
    BY <2>2, <2>4 DEF Move, Select, selected_stalled
  <2>6. offered'[channel]
    BY <2>1, <2>2, <2>3 DEF Move, Sources, aso_valid
  <2> QED
    BY <2>5, <2>6 DEF aso_valid, aso_data, aso_channel
<1> QED
  BY <1>1, MuxInvariance, PTL DEF Spec, HeldBeat
-----------------------------------------------------------------------------
(***************************************************************************)
(* The adapter.  A beat that is not the last of an element lengthens the   *)
(* unfinished one; the last one moves it to the finished ones.  Strung     *)
(* together, both give the same numbers.                                   *)
(***************************************************************************)
AdapterTypes ==
  /\ partial \in [Channels -> Seq(Nat)]
  /\ elements \in [Channels -> Seq(Seq(Nat))]

\* The first n beats of a source, in order.
BeatsTo(n) == [i \in 1 .. n |-> i]

\* The beats of a source, with the next one.
LEMMA OneMoreBeat ==
  ASSUME NEW n \in Nat
  PROVE  BeatsTo(n + 1) = Append(BeatsTo(n), n + 1)
<1>1. BeatsTo(n) \in Seq(Nat) /\ Len(BeatsTo(n)) = n
  BY DEF BeatsTo
<1>2. /\ Append(BeatsTo(n), n + 1) \in Seq(Nat)
      /\ Len(Append(BeatsTo(n), n + 1)) = n + 1
      /\ \A i \in 1 .. (n + 1) :
           Append(BeatsTo(n), n + 1)[i] = IF i = n + 1 THEN n + 1 ELSE i
  BY <1>1 DEF BeatsTo
<1>3. BeatsTo(n + 1) \in Seq(Nat) /\ Len(BeatsTo(n + 1)) = n + 1
  BY DEF BeatsTo
<1>4. \A i \in 1 .. (n + 1) : BeatsTo(n + 1)[i] = i
  BY DEF BeatsTo
<1> QED
  BY <1>2, <1>3, <1>4, SeqEqual

\* A word that is appended to the unfinished element is appended to all.
LEMMA AdapterString ==
  ASSUME NEW es \in Seq(Seq(Nat)), NEW p \in Seq(Nat), NEW b \in Nat
  PROVE  /\ FlattenSeq(es) \o Append(p, b) = Append(FlattenSeq(es) \o p, b)
         /\ FlattenSeq(Append(es, Append(p, b))) \o <<>>
              = Append(FlattenSeq(es) \o p, b)
<1>1. FlattenSeq(es) \in Seq(Nat) /\ Append(p, b) \in Seq(Nat)
  BY FlattenType
<1>2. FlattenSeq(Append(es, Append(p, b))) = FlattenSeq(es) \o Append(p, b)
  BY <1>1, FlattenAppend
<1> HIDE DEF FlattenSeq
<1>3. \A f \in Seq(Nat) : f \o Append(p, b) = Append(f \o p, b)
  OBVIOUS
<1>4. \A f \in Seq(Nat) : f \o <<>> = f
  OBVIOUS
<1>5. FlattenSeq(es) \o Append(p, b) \in Seq(Nat)
  BY <1>1
<1> QED
  BY <1>1, <1>2, <1>3, <1>4, <1>5

\* Every step keeps the elements of each source intact.
LEMMA AdapterStep ==
  MuxInv /\ AdapterTypes /\ ElementsIntact /\ [Next]_vars
    => AdapterTypes' /\ ElementsIntact'
<1> SUFFICES ASSUME MuxInv, AdapterTypes, ElementsIntact, [Next]_vars
             PROVE  AdapterTypes' /\ ElementsIntact'
  OBVIOUS
<1>1. CASE UNCHANGED vars
  BY <1>1 DEF vars, sourceVars, adapterVars, AdapterTypes, ElementsIntact
<1>2. CASE Next
  <2>0. channel \in Channels /\ requested_channel \in Channels
    BY DEF MuxInv, RegTypeOK
  <2>1. PICK rdy \in BOOLEAN, next \in Channels : Move(next, rdy)
    BY <1>2, <2>0 DEF Next, Tick, SwitchChannel, ReadFirstHigh, ReadLow,
       ReadSecondHigh, Retry, Return
  <2> DEFINE c == channel
             b == beat[c] + 1
             word == Append(partial[c], b)
  <2>2. /\ c \in Channels /\ beat[c] \in Nat /\ b \in Nat
        /\ partial[c] \in Seq(Nat) /\ elements[c] \in Seq(Seq(Nat))
        /\ word \in Seq(Nat)
    <3>1. c \in Channels /\ beat[c] \in Nat
      BY <2>0, MuxAssumption DEF MuxInv, RegTypeOK
    <3> QED
      BY <3>1 DEF AdapterTypes
  <2>3. CASE aso_valid /\ rdy
    <3>1. /\ partial' = [partial EXCEPT ![c] = IF Len(word) = Beats
                                                 THEN <<>> ELSE word]
          /\ elements' = IF Len(word) = Beats
                           THEN [elements EXCEPT ![c] = Append(@, word)]
                           ELSE elements
      BY <2>1, <2>3 DEF Move, Adapt, aso_channel, aso_data
    <3>2. \A d \in Channels : beat'[d] = IF d = c THEN b ELSE beat[d]
      BY <2>1, <2>3 DEF Move, Sources, transfers, asi_ready, aso_valid
    <3> HIDE DEF word, b, c
    <3>3. AdapterTypes'
      <4>1. <<>> \in Seq(Nat) /\ Append(elements[c], word) \in Seq(Seq(Nat))
        BY <2>2
      <4> QED
        BY <2>2, <3>1, <4>1 DEF AdapterTypes
    <3>4. ASSUME NEW d \in Channels
          PROVE  FlattenSeq(elements'[d]) \o partial'[d] = BeatsTo(beat'[d])
      <4>1. FlattenSeq(elements[d]) \o partial[d] = BeatsTo(beat[d])
        BY DEF ElementsIntact, BeatsTo
      <4>2. CASE d # c
        <5>1. elements'[d] = elements[d] /\ partial'[d] = partial[d]
              /\ beat'[d] = beat[d]
          BY <3>1, <3>2, <4>2 DEF AdapterTypes
        <5> QED
          BY <4>1, <5>1
      <4>3. CASE d = c
        <5>1. /\ beat'[d] = b
              /\ \/ partial'[d] = word /\ elements'[d] = elements[d]
                 \/ /\ partial'[d] = <<>>
                    /\ elements'[d] = Append(elements[d], word)
          BY <3>1, <3>2, <4>3 DEF AdapterTypes
        <5>2. Append(FlattenSeq(elements[d]) \o partial[d], b) = BeatsTo(b)
          BY <2>2, <4>1, <4>3, OneMoreBeat DEF b
        <5>3. /\ FlattenSeq(elements[d]) \o word = BeatsTo(b)
              /\ FlattenSeq(Append(elements[d], word)) \o <<>> = BeatsTo(b)
          BY <2>2, <4>3, <5>2, AdapterString DEF word
        <5> QED
          BY <5>1, <5>3
      <4> QED
        BY <4>2, <4>3
    <3> QED
      BY <3>3, <3>4 DEF ElementsIntact, BeatsTo
  <2>4. CASE ~(aso_valid /\ rdy)
    <3>1. UNCHANGED adapterVars
      BY <2>1, <2>4 DEF Move, Adapt
    <3>2. \A d \in Channels : beat'[d] = beat[d]
      BY <2>1, <2>4 DEF Move, Sources, transfers, asi_ready, aso_valid
    <3> QED
      BY <3>1, <3>2 DEF adapterVars, AdapterTypes, ElementsIntact
  <2> QED
    BY <2>3, <2>4
<1> QED
  BY <1>1, <1>2

\* docs/docs/st_mux.md: whatever switches and stalls there are, no element
\* holds beats of two sources, and none is lost, doubled or out of order.
THEOREM NothingIsMixed == Spec => []ElementsIntact
<1>1. Init => AdapterTypes /\ ElementsIntact
  <2> SUFFICES ASSUME Init PROVE AdapterTypes /\ ElementsIntact
    OBVIOUS
  <2>1. AdapterTypes
    BY DEF Init, AdapterTypes
  <2>2. \A c \in Channels : [i \in 1 .. beat[c] |-> i] = <<>>
    BY DEF Init, Zero
  <2>3. \A c \in Channels : elements[c] = <<>> /\ partial[c] = <<>>
    BY DEF Init
  <2>4. FlattenSeq(<<>>) \o <<>> = <<>>
    BY FlattenEmpty
  <2> QED
    BY <2>1, <2>2, <2>3, <2>4 DEF ElementsIntact
<1> QED
  BY <1>1, AdapterStep, MuxInvariance, PTL DEF Spec
-----------------------------------------------------------------------------
(***************************************************************************)
(* The read-back encoder: overflow and loss are the same thing, for every  *)
(* width and FIFO size.                                                    *)
(*                                                                         *)
(* The runs are closed ones, on their way to the reader, and the open one. *)
(* An edge of input_clk extends or closes the open run and may start       *)
(* another; it loses a run only when the FIFO refuses the write, and a run *)
(* is never empty, so from then on fewer samples are in the runs than were *)
(* seen.  A reset clears the two sides at different times: in between      *)
(* nothing is claimed, and what is said of a reset is that it leaves both  *)
(* of them empty.                                                          *)
(***************************************************************************)

RunSet == [count : 1 .. MAX_COUNT, value : Values]
Three == BOOLEAN \X BOOLEAN \X BOOLEAN
OpenRun == Run(run_count, run_value)
Stored == delivered \o rl_fifo.q
Closed == Stored \o (IF wrreq THEN <<j>> ELSE <<>>)

EncoderTypes ==
  /\ have_run \in BOOLEAN /\ wrreq \in BOOLEAN /\ overflow \in BOOLEAN
  /\ reset_counter \in BOOLEAN /\ reset_sync \in Three
  /\ have_run => OpenRun \in RunSet
  /\ wrreq => j \in RunSet
  /\ DcTypeOK(rl_fifo, RunSet, LENGTH_RL)
  /\ delivered \in Seq(RunSet) /\ sampled \in Seq(Values)

\* A reset has cleared the reader's side as long as it lasts, and the encoder's
\* side where the synchronizer shows it; it ends seen by all three flops.
EncoderEmpty == ~have_run /\ ~wrreq /\ sampled = <<>> /\ gaps = {}
ResetClears ==
  /\ reset_counter \/ reset_iclk => Stored = <<>>
  /\ reset_iclk => EncoderEmpty
  /\ ~reset_counter => /\ reset_sync[1] => reset_sync[2]
                       /\ reset_sync[2] => reset_sync[3]

\* What is in the runs, and what is missing.
NothingMissing ==
  Running => /\ Len(Decode(AllRuns)) <= Len(sampled)
             /\ overflow => Len(Decode(AllRuns)) < Len(sampled)
             /\ ~overflow => Decode(AllRuns) = sampled
CounterCounts == Running => counter = Len(sampled) % 2^WIDTH_COUNTER

\* A run that is not followed by an open one ended where valid dropped.
EndsInGap ==
  Running /\ ~overflow /\ ~have_run /\ AllRuns # <<>> => Len(sampled) \in gaps
EncoderInv ==
  EncoderTypes /\ ResetClears /\ NothingMissing /\ CounterCounts /\ EndsInGap /\ RunsMaximal
-----------------------------------------------------------------------------
\* The counter of a run saturates at a positive number.
LEMMA MaxCount == MAX_COUNT \in Nat /\ MAX_COUNT >= 1
BY EncoderAssumption DEF MAX_COUNT

\* The samples of one run.
Samples1(r) == [k \in 1 .. r.count |-> r.value]
SamplesOf(runs) == [i \in DOMAIN runs |-> Samples1(runs[i])]

\* The samples of one run are as many as its count says.
LEMMA OneRun ==
  ASSUME NEW r \in RunSet
  PROVE  Samples1(r) \in Seq(Values) /\ Len(Samples1(r)) = r.count /\ r.count \in Nat /\ r.count >= 1
<1>1. r.count \in 1 .. MAX_COUNT /\ r.value \in Values
  BY DEF RunSet
<1>2. r.count \in Nat /\ r.count >= 1
  BY <1>1, MaxCount
<1> QED
  BY <1>1, <1>2 DEF Samples1

\* The samples of the runs are a list of lists of samples.
LEMMA SamplesOfType ==
  ASSUME NEW runs \in Seq(RunSet)
  PROVE  SamplesOf(runs) \in Seq(Seq(Values))
<1>1. \A i \in DOMAIN runs : Samples1(runs[i]) \in Seq(Values)
  BY OneRun
<1>2. DOMAIN runs = 1 .. Len(runs) /\ Len(runs) \in Nat
  OBVIOUS
<1> QED
  BY <1>1, <1>2 DEF SamplesOf

\* The runs decode to their samples one run after the other.
LEMMA DecodeIs ==
  ASSUME NEW runs \in Seq(RunSet)
  PROVE  Decode(runs) = FlattenSeq(SamplesOf(runs)) /\ Decode(runs) \in Seq(Values)
<1>1. Decode(runs) = FlattenSeq(SamplesOf(runs))
  BY DEF Decode, SamplesOf, Samples1
<1> QED
  BY <1>1, SamplesOfType, FlattenType

\* No runs, no samples.
LEMMA DecodeEmpty == Decode(<<>>) = <<>>
<1>1. [i \in DOMAIN <<>> |-> [k \in 1 .. (<<>>)[i].count |-> (<<>>)[i].value]] = <<>>
  OBVIOUS
<1> QED
  BY <1>1, FlattenEmpty DEF Decode

\* One more run adds its samples.
LEMMA DecodeAppend ==
  ASSUME NEW runs \in Seq(RunSet), NEW r \in RunSet
  PROVE  /\ Decode(Append(runs, r)) = Decode(runs) \o Samples1(r)
         /\ Len(Decode(Append(runs, r))) = Len(Decode(runs)) + r.count
         /\ Len(Decode(runs)) \in Nat /\ r.count \in Nat /\ r.count >= 1
<1> DEFINE more == Append(runs, r)
<1>1. more \in Seq(RunSet)
  OBVIOUS
<1>2. SamplesOf(more) = Append(SamplesOf(runs), Samples1(r))
  <2>1. /\ Len(more) = Len(runs) + 1 /\ more[Len(runs) + 1] = r
        /\ \A i \in 1 .. Len(runs) : more[i] = runs[i]
        /\ DOMAIN more = 1 .. Len(more) /\ DOMAIN runs = 1 .. Len(runs) /\ Len(runs) \in Nat
    OBVIOUS
  <2> HIDE DEF more
  <2>2. SamplesOf(runs) \in Seq(Seq(Values)) /\ SamplesOf(more) \in Seq(Seq(Values))
    BY <1>1, SamplesOfType
  <2>3. Len(SamplesOf(runs)) = Len(runs) /\ Len(SamplesOf(more)) = Len(runs) + 1
    BY <2>1, <2>2 DEF SamplesOf
  <2>4. \A i \in 1 .. Len(runs) : SamplesOf(more)[i] = SamplesOf(runs)[i]
    BY <2>1 DEF SamplesOf
  <2>5. SamplesOf(more)[Len(runs) + 1] = Samples1(r)
    BY <2>1 DEF SamplesOf
  <2>6. Samples1(r) \in Seq(Values)
    BY OneRun
  <2> QED
    BY <2>1, <2>2, <2>3, <2>4, <2>5, <2>6
<1>3. Samples1(r) \in Seq(Values) /\ Len(Samples1(r)) = r.count /\ r.count \in Nat /\ r.count >= 1
  BY OneRun
<1>4. SamplesOf(runs) \in Seq(Seq(Values))
  BY SamplesOfType
<1>5. Decode(more) = FlattenSeq(SamplesOf(more)) /\ Decode(runs) = FlattenSeq(SamplesOf(runs))
  BY <1>1, DecodeIs
<1>6. Decode(more) = Decode(runs) \o Samples1(r)
  BY <1>2, <1>3, <1>4, <1>5, FlattenAppend
<1>7. Decode(runs) \in Seq(Values)
  BY DecodeIs
<1>8. Len(Decode(runs) \o Samples1(r)) = Len(Decode(runs)) + Len(Samples1(r))
  BY <1>3, <1>7, ConcatProperties
<1>9. Len(Decode(runs)) \in Nat
  BY <1>7
<1> QED
  BY <1>3, <1>6, <1>8, <1>9

\* A run of one more sample.
LEMMA DecodeExtended ==
  ASSUME NEW runs \in Seq(RunSet), NEW c \in Nat, NEW v \in Values,
         Run(c, v) \in RunSet, Run(c + 1, v) \in RunSet
  PROVE  Decode(Append(runs, Run(c + 1, v))) = Append(Decode(Append(runs, Run(c, v))), v)
<1>1. Samples1(Run(c + 1, v)) = Append(Samples1(Run(c, v)), v)
  BY DEF Samples1, Run
<1>2. /\ Decode(Append(runs, Run(c + 1, v))) = Decode(runs) \o Samples1(Run(c + 1, v))
      /\ Decode(Append(runs, Run(c, v))) = Decode(runs) \o Samples1(Run(c, v))
  BY DecodeAppend
<1>3. Decode(runs) \in Seq(Values) /\ Samples1(Run(c, v)) \in Seq(Values)
  BY DecodeIs, OneRun
<1>4. Decode(runs) \o Append(Samples1(Run(c, v)), v) = Append(Decode(runs) \o Samples1(Run(c, v)), v)
  BY <1>3, AppendSecond
<1> QED
  BY <1>1, <1>2, <1>4

\* All runs, from the stored ones, the one being written and the open one.
AllRunsSplit ==
  /\ Stored \in Seq(RunSet) /\ Closed \in Seq(RunSet) /\ AllRuns \in Seq(RunSet)
  /\ Closed = IF wrreq THEN Append(Stored, j) ELSE Stored
  /\ AllRuns = IF have_run THEN Append(Closed, OpenRun) ELSE Closed

\* The runs on their way, in order: read, in the FIFO, in the write register,
\* open.
LEMMA AllRunsAre == EncoderTypes => AllRunsSplit
<1> SUFFICES ASSUME EncoderTypes PROVE AllRunsSplit
  OBVIOUS
<1>1. delivered \in Seq(RunSet) /\ rl_fifo.q \in Seq(RunSet)
  BY DEF EncoderTypes, DcTypeOK
<1>2. Stored \in Seq(RunSet)
  BY <1>1 DEF Stored
<1>3. /\ Closed = IF wrreq THEN Append(Stored, j) ELSE Stored
      /\ Closed \in Seq(RunSet)
  BY <1>2 DEF Closed, EncoderTypes
<1>4. AllRuns = Closed \o (IF have_run THEN <<OpenRun>> ELSE <<>>)
  BY DEF AllRuns, Closed, Stored, OpenRun
<1>5. AllRuns = IF have_run THEN Append(Closed, OpenRun) ELSE Closed
  <2>1. CASE have_run
    <3>1. OpenRun \in RunSet
      BY <2>1 DEF EncoderTypes
    <3> QED
      BY <1>3, <1>4, <2>1, <3>1, AppendIsConcat
  <2>2. CASE ~have_run
    <3>1. Closed \o <<>> = Closed
      BY <1>3
    <3> QED
      BY <1>4, <2>2, <3>1
  <2> QED
    BY <2>1, <2>2
<1>6. AllRuns \in Seq(RunSet)
  BY <1>3, <1>5 DEF EncoderTypes
<1> QED
  BY <1>2, <1>3, <1>5, <1>6 DEF AllRunsSplit

\* The same after a step.
LEMMA AllRunsAfter == EncoderTypes' => AllRunsSplit'
BY AllRunsAre, PTL
-----------------------------------------------------------------------------
(***************************************************************************)
(* An edge of input_clk.                                                   *)
(***************************************************************************)
LEMMA CountUp ==
  ASSUME have_run, OpenRun \in RunSet, run_count # MAX_COUNT
  PROVE  /\ (run_count + 1) % 2^WIDTH_COUNTER = run_count + 1
         /\ run_count \in Nat /\ run_value \in Values /\ Run(run_count + 1, run_value) \in RunSet
<1> DEFINE M == 2^WIDTH_COUNTER
<1>1. M \in Nat /\ M > 1 /\ MAX_COUNT = M - 1
  BY EncoderAssumption DEF MAX_COUNT
<1>2. run_count \in 1 .. MAX_COUNT /\ run_value \in Values
  BY DEF OpenRun, Run, RunSet
<1> HIDE DEF M
<1>3. run_count \in Nat /\ run_count + 1 < M /\ run_count + 1 \in 1 .. MAX_COUNT
  BY <1>1, <1>2
<1>4. (run_count + 1) % M = run_count + 1
  BY <1>1, <1>3
<1> QED
  BY <1>2, <1>3, <1>4 DEF M, Run, RunSet

\* The run that is open grows, or is closed; another is opened, or none.
Grows(data) ==
  /\ have_run /\ have_run' /\ ~wrreq' /\ data = run_value
  /\ run_count \in Nat /\ OpenRun' = Run(run_count + 1, run_value)
Closes == wrreq' = have_run /\ (have_run => j' = OpenRun)
Opens(data) ==
  /\ Closes /\ have_run' /\ OpenRun' = Run(1, data)
  /\ have_run => data # run_value \/ run_count = MAX_COUNT
Flushes == Closes /\ ~have_run'

\* An edge of input_clk at the encoder: the open run grows, a new one opens or
\* a pause flushes it.
LEMMA EncoderStep ==
  ASSUME EncoderTypes, NEW valid \in BOOLEAN, NEW data \in Values, InputTick(valid, data)
  PROVE  /\ EncoderCleared => ~have_run' /\ ~wrreq'
         /\ ~EncoderCleared => IF valid THEN Grows(data) \/ Opens(data) ELSE Flushes
         /\ have_run' \in BOOLEAN /\ wrreq' \in BOOLEAN
         /\ have_run' => OpenRun' \in RunSet
         /\ wrreq' => j' \in RunSet
<1>1. /\ have_run \in BOOLEAN /\ (have_run => OpenRun \in RunSet)
  BY DEF EncoderTypes
<1>2. CASE EncoderCleared
  BY <1>2 DEF InputTick, EncoderReset
<1>3. CASE ~EncoderCleared /\ valid /\ extends_run(data)
  <2>1. /\ have_run /\ data = run_value /\ run_count # MAX_COUNT
        /\ run_count' = (run_count + 1) % 2^WIDTH_COUNTER
        /\ have_run' = have_run /\ run_value' = run_value /\ wrreq' = FALSE
    BY <1>3 DEF InputTick, SampleEvent, EmitNothing, extends_run
  <2>2. /\ (run_count + 1) % 2^WIDTH_COUNTER = run_count + 1
        /\ run_count \in Nat /\ Run(run_count + 1, run_value) \in RunSet
    BY <1>1, <2>1, CountUp
  <2>3. OpenRun' = Run(run_count + 1, run_value)
    BY <2>1, <2>2 DEF OpenRun
  <2> QED
    BY <1>3, <2>1, <2>2, <2>3 DEF Grows
<1>4. CASE ~EncoderCleared /\ valid /\ ~extends_run(data)
  <2>1. /\ have_run' = TRUE /\ run_value' = data /\ run_count' = 1
        /\ have_run => wrreq' = TRUE /\ j' = OpenRun
        /\ ~have_run => wrreq' = FALSE
    BY <1>4 DEF InputTick, SampleEvent, StartRun, Emit, EmitNothing, OpenRun
  <2>2. have_run => data # run_value \/ run_count = MAX_COUNT
    BY <1>4 DEF extends_run
  <2>3. Run(1, data) \in RunSet
    BY MaxCount DEF Run, RunSet
  <2>4. OpenRun' = Run(1, data)
    BY <2>1 DEF OpenRun
  <2> QED
    BY <1>1, <1>4, <2>1, <2>2, <2>3, <2>4 DEF Opens, Closes
<1>5. CASE ~EncoderCleared /\ ~valid
  <2>1. /\ have_run' = FALSE
        /\ have_run => wrreq' = TRUE /\ j' = OpenRun
        /\ ~have_run => wrreq' = FALSE
    BY <1>5 DEF InputTick, FlushEvent, Emit, EmitNothing, OpenRun
  <2> QED
    BY <1>1, <1>5, <2>1 DEF Flushes, Closes
<1> QED
  BY <1>2, <1>3, <1>4, <1>5

\* The write to the FIFO is taken, or refused and latched.
Refused == wrreq /\ Stored' = Stored /\ (~reset_iclk => overflow')
Accepted == Stored' = Closed /\ (~reset_iclk => overflow' = overflow)

\* An edge of input_clk at the FIFO: the write is taken, or refused and latched.
LEMMA FifoStep ==
  ASSUME EncoderTypes, NEW valid \in BOOLEAN, NEW data \in Values, InputTick(valid, data)
  PROVE  /\ DcTypeOK(rl_fifo', RunSet, LENGTH_RL) /\ overflow' \in BOOLEAN
         /\ reset_counter => Stored' = Stored
         /\ ~reset_counter => Refused \/ Accepted
         /\ ~reset_counter /\ reset_iclk => ~overflow'
         /\ delivered' = delivered
<1>1. /\ delivered' = delivered /\ FifoWriteTick
      /\ wrreq \in BOOLEAN /\ reset_counter \in BOOLEAN /\ overflow \in BOOLEAN
      /\ reset_iclk \in BOOLEAN
      /\ DcTypeOK(rl_fifo, RunSet, LENGTH_RL) /\ (wrreq => j \in RunSet)
      /\ delivered \in Seq(RunSet)
  BY DEF InputTick, EncoderTypes, reset_iclk, Three
<1>2. CASE reset_counter
  <2>1. rl_fifo' = rl_fifo /\ \E f \in BOOLEAN : overflow' = overflow_next(f)
    BY <1>1, <1>2 DEF FifoWriteTick
  <2>2. overflow' \in BOOLEAN
    BY <1>1, <2>1 DEF overflow_next
  <2> QED
    BY <1>1, <1>2, <2>1, <2>2 DEF Stored
<1>3. CASE ~reset_counter
  <2> DEFINE full == wrfull(rl_fifo, LENGTH_RL)
  <2>1. /\ rl_fifo' \in DcWrite(rl_fifo, LENGTH_RL, wrreq, j) /\ overflow' = overflow_next(full)
    BY <1>1, <1>3 DEF FifoWriteTick
  <2>2. PICK n \in 0 .. rl_fifo.freed :
          rl_fifo' = [q |-> IF wrreq /\ ~full THEN Append(rl_fifo.q, j) ELSE rl_fifo.q,
                      vis |-> rl_fifo.vis, freed |-> n]
    BY <2>1 DEF DcWrite
  <2>3. /\ rl_fifo.q \in Seq(RunSet) /\ Len(rl_fifo.q) \in Nat /\ rl_fifo.freed \in Nat
        /\ rl_fifo.vis \in Nat /\ rl_fifo.vis <= Len(rl_fifo.q) /\ Len(rl_fifo.q) <= LENGTH_RL
        /\ LENGTH_RL \in Nat
    BY <1>1, EncoderAssumption DEF DcTypeOK
  <2>4. ~full => Len(rl_fifo.q) + 1 <= LENGTH_RL
    BY <2>3 DEF wrfull, wrusedw
  <2>5. full \in BOOLEAN
    BY DEF wrfull
  <2> HIDE DEF full
  <2>6. DcTypeOK(rl_fifo', RunSet, LENGTH_RL)
    <3>1. CASE wrreq /\ ~full
      <4>1. /\ rl_fifo'.q = Append(rl_fifo.q, j) /\ rl_fifo'.vis = rl_fifo.vis /\ n \in Nat
            /\ rl_fifo' = [q |-> Append(rl_fifo.q, j), vis |-> rl_fifo.vis, freed |-> n]
        BY <2>2, <2>3, <3>1
      <4>2. Append(rl_fifo.q, j) \in Seq(RunSet) /\ Len(Append(rl_fifo.q, j)) = Len(rl_fifo.q) + 1
        BY <1>1, <2>3, <3>1
      <4> QED
        BY <2>3, <2>4, <3>1, <4>1, <4>2 DEF DcTypeOK
    <3>2. CASE ~(wrreq /\ ~full)
      <4>1. rl_fifo' = [q |-> rl_fifo.q, vis |-> rl_fifo.vis, freed |-> n] /\ n \in Nat
        BY <2>2, <2>3, <3>2
      <4> QED
        BY <2>3, <4>1 DEF DcTypeOK
    <3> QED
      BY <3>1, <3>2
  <2>7. overflow' \in BOOLEAN /\ (reset_iclk => ~overflow')
        /\ (~reset_iclk => overflow' = (overflow \/ (full /\ wrreq)))
    BY <1>1, <2>1, <2>5 DEF overflow_next
  <2>8. CASE wrreq /\ full
    <3>1. rl_fifo'.q = rl_fifo.q
      BY <2>2, <2>8
    <3> QED
      BY <1>1, <1>3, <2>6, <2>7, <2>8, <3>1 DEF Refused, Stored
  <2>9. CASE wrreq /\ ~full
    <3>1. rl_fifo'.q = Append(rl_fifo.q, j)
      BY <2>2, <2>9
    <3>2. delivered \o Append(rl_fifo.q, j) = Append(delivered \o rl_fifo.q, j)
      BY <1>1, <2>3, <2>9, AppendSecond, SMTT(60)
    <3>3. Closed = Append(Stored, j)
      BY <2>9, AllRunsAre DEF AllRunsSplit
    <3>4. Stored' = Closed
      BY <1>1, <3>1, <3>2, <3>3 DEF Stored
    <3> QED
      BY <1>1, <1>3, <2>6, <2>7, <2>9, <3>4 DEF Accepted
  <2>10. CASE ~wrreq
    <3>1. rl_fifo'.q = rl_fifo.q
      BY <2>2, <2>10
    <3>2. Closed = Stored
      BY <2>10, AllRunsAre DEF AllRunsSplit
    <3>3. Stored' = Closed
      BY <1>1, <3>1, <3>2 DEF Stored
    <3> QED
      BY <1>1, <1>3, <2>6, <2>7, <2>10, <3>3 DEF Accepted
  <2> QED
    BY <2>5, <2>8, <2>9, <2>10
<1> QED
  BY <1>1, <1>2, <1>3

\* An edge of input_clk keeps the types.
LEMMA InputTypes ==
  ASSUME EncoderTypes, NEW valid \in BOOLEAN, NEW data \in Values, InputTick(valid, data)
  PROVE  EncoderTypes'
<1>1. /\ have_run' \in BOOLEAN /\ wrreq' \in BOOLEAN
      /\ have_run' => OpenRun' \in RunSet
      /\ wrreq' => j' \in RunSet
  BY EncoderStep
<1>2. DcTypeOK(rl_fifo', RunSet, LENGTH_RL) /\ overflow' \in BOOLEAN /\ delivered' = delivered
  BY FifoStep
<1>3. reset_counter' = reset_counter /\ reset_sync' = <<reset_counter, reset_sync[1], reset_sync[2]>>
  BY DEF InputTick
<1>4. reset_sync' \in Three
  BY <1>3 DEF EncoderTypes, Three
<1>5. sampled' = <<>> \/ sampled' = Append(sampled, data) \/ sampled' = sampled
  BY DEF InputTick
<1>6. sampled' \in Seq(Values)
  <2>1. sampled \in Seq(Values) /\ <<>> \in Seq(Values)
    BY DEF EncoderTypes
  <2>2. Append(sampled, data) \in Seq(Values)
    BY <2>1
  <2> QED
    BY <1>5, <2>1, <2>2
<1> QED
  BY <1>1, <1>2, <1>3, <1>4, <1>6 DEF EncoderTypes

\* An edge around a reset leaves both sides empty where it is to.
LEMMA InputClears ==
  ASSUME EncoderInv, NEW valid \in BOOLEAN, NEW data \in Values, InputTick(valid, data)
  PROVE  /\ ResetClears'
         /\ ~Running /\ Running' => /\ EncoderEmpty' /\ Stored' = <<>> /\ ~overflow' /\ counter' = 0
         /\ Running => Running' /\ ~EncoderCleared
<1> DEFINE s1 == reset_sync[1]
           s2 == reset_sync[2]
           s3 == reset_sync[3]
<1>1. /\ reset_counter' = reset_counter /\ reset_sync' = <<reset_counter, s1, s2>>
      /\ reset_counter \in BOOLEAN /\ s1 \in BOOLEAN /\ s2 \in BOOLEAN /\ s3 \in BOOLEAN
  BY DEF InputTick, EncoderInv, EncoderTypes, Three
<1>2. /\ reset_iclk = s3 /\ reset_iclk' = s2 /\ EncoderCleared = (s2 \/ s3)
      /\ reset_sync'[1] = reset_counter /\ reset_sync'[2] = s1 /\ reset_sync'[3] = s2
  BY <1>1 DEF reset_iclk, EncoderCleared
<1>3. /\ reset_counter \/ s3 => Stored = <<>>
      /\ s3 => EncoderEmpty
      /\ ~reset_counter => (s1 => s2) /\ (s2 => s3)
  BY <1>2 DEF EncoderInv, ResetClears
<1>4. s2 \/ s3 => EncoderEmpty'
  <2>1. s2 \/ s3 => ~have_run' /\ ~wrreq'
    BY <1>2, EncoderStep DEF EncoderInv
  <2>2. s2 \/ s3 => sampled' = <<>> /\ gaps' = {}
    BY <1>2 DEF InputTick
  <2> QED
    BY <2>1, <2>2 DEF EncoderEmpty
<1>5. /\ reset_counter => Stored' = Stored
      /\ ~reset_counter => Refused \/ Accepted
      /\ ~reset_counter /\ s3 => ~overflow'
  BY <1>2, FifoStep DEF EncoderInv
<1>6. s3 /\ ~reset_counter => Stored' = Stored
  <2>1. EncoderEmpty => Closed = Stored
    BY AllRunsAre DEF EncoderInv, EncoderEmpty, AllRunsSplit
  <2> QED
    BY <1>3, <1>5, <2>1 DEF Refused, Accepted
<1>7. s3 => counter' = 0
  BY <1>2 DEF InputTick
<1>8. Running = (~reset_counter /\ ~s3) /\ Running' = (~reset_counter /\ ~s2)
  BY <1>1, <1>2 DEF Running
<1>9. ResetClears'
  <2>1. reset_counter' \/ reset_iclk' => Stored' = <<>>
    BY <1>1, <1>2, <1>3, <1>5, <1>6
  <2>2. reset_iclk' => EncoderEmpty'
    BY <1>2, <1>4
  <2>3. ~reset_counter' => /\ reset_sync'[1] => reset_sync'[2]
                           /\ reset_sync'[2] => reset_sync'[3]
    BY <1>1, <1>2, <1>3
  <2> QED
    BY <2>1, <2>2, <2>3 DEF ResetClears
<1> QED
  BY <1>1, <1>2, <1>3, <1>4, <1>5, <1>6, <1>7, <1>8, <1>9
-----------------------------------------------------------------------------
(***************************************************************************)
(* Runs that are as long as they can be.                                   *)
(***************************************************************************)
MaximalIn(runs, g) ==
  \A i \in 1 .. (Len(runs) - 1) :
    runs[i].value = runs[i + 1].value =>
      runs[i].count = MAX_COUNT \/ Len(Decode(SubSeq(runs, 1, i))) \in g

\* Runs stay maximal when one that could not have grown is closed.
LEMMA MaximalAppend ==
  ASSUME NEW runs \in Seq(RunSet), NEW r \in RunSet, NEW g, MaximalIn(runs, g),
         runs # <<>> /\ runs[Len(runs)].value = r.value =>
           runs[Len(runs)].count = MAX_COUNT \/ Len(Decode(runs)) \in g
  PROVE  MaximalIn(Append(runs, r), g)
<1> DEFINE more == Append(runs, r)
<1>1. /\ more \in Seq(RunSet) /\ Len(more) = Len(runs) + 1 /\ more[Len(runs) + 1] = r
      /\ \A i \in 1 .. Len(runs) : more[i] = runs[i]
      /\ Len(runs) \in Nat
  OBVIOUS
<1>2. \A i \in 1 .. Len(runs) : SubSeq(more, 1, i) = SubSeq(runs, 1, i)
  OBVIOUS
<1>3. SubSeq(runs, 1, Len(runs)) = runs
  OBVIOUS
<1> HIDE DEF more
<1> SUFFICES ASSUME NEW i \in 1 .. (Len(more) - 1), more[i].value = more[i + 1].value
             PROVE  more[i].count = MAX_COUNT \/ Len(Decode(SubSeq(more, 1, i))) \in g
  BY DEF MaximalIn, more
<1>4. i \in 1 .. Len(runs)
  BY <1>1
<1>5. CASE i = Len(runs)
  <2>1. more[i] = runs[i] /\ more[i + 1] = r /\ runs # <<>>
    BY <1>1, <1>4, <1>5
  <2>2. SubSeq(more, 1, i) = runs
    BY <1>2, <1>3, <1>4, <1>5
  <2> QED
    BY <1>5, <2>1, <2>2
<1>6. CASE i # Len(runs)
  <2>1. i \in 1 .. (Len(runs) - 1) /\ i + 1 \in 1 .. Len(runs)
    BY <1>1, <1>4, <1>6
  <2>2. more[i] = runs[i] /\ more[i + 1] = runs[i + 1] /\ SubSeq(more, 1, i) = SubSeq(runs, 1, i)
    BY <1>1, <1>2, <1>4, <2>1
  <2> QED
    BY <2>1, <2>2 DEF MaximalIn
<1> QED
  BY <1>5, <1>6

\* All but the last run stand as they are.
LEMMA MaximalButLast ==
  ASSUME NEW runs \in Seq(RunSet), NEW r \in RunSet, NEW u \in RunSet, NEW g,
         MaximalIn(Append(runs, r), g), u.value = r.value
  PROVE  MaximalIn(Append(runs, u), g)
<1> DEFINE old == Append(runs, r)
           new == Append(runs, u)
<1>1. /\ Len(old) = Len(runs) + 1 /\ old[Len(runs) + 1] = r
      /\ Len(new) = Len(runs) + 1 /\ new[Len(runs) + 1] = u
      /\ \A i \in 1 .. Len(runs) : old[i] = runs[i] /\ new[i] = runs[i]
      /\ Len(runs) \in Nat
  OBVIOUS
<1>2. \A i \in 1 .. Len(runs) : SubSeq(old, 1, i) = SubSeq(new, 1, i)
  OBVIOUS
<1> HIDE DEF old, new
<1> SUFFICES ASSUME NEW i \in 1 .. (Len(new) - 1), new[i].value = new[i + 1].value
             PROVE  new[i].count = MAX_COUNT \/ Len(Decode(SubSeq(new, 1, i))) \in g
  BY DEF MaximalIn, new
<1>3. i \in 1 .. Len(runs) /\ i \in 1 .. (Len(old) - 1)
  BY <1>1
<1>4. new[i] = old[i] /\ new[i + 1].value = old[i + 1].value
  <2>1. CASE i = Len(runs)
    BY <1>1, <1>3, <2>1
  <2>2. CASE i # Len(runs)
    <3>1. i + 1 \in 1 .. Len(runs)
      BY <1>1, <1>3, <2>2
    <3> QED
      BY <1>1, <1>3, <3>1
  <2> QED
    BY <2>1, <2>2
<1>5. old[i].count = MAX_COUNT \/ Len(Decode(SubSeq(old, 1, i))) \in g
  BY <1>3, <1>4 DEF MaximalIn, old
<1> QED
  BY <1>2, <1>3, <1>4, <1>5

\* More pauses excuse more.
LEMMA MaximalMoreGaps ==
  ASSUME NEW runs, NEW g, NEW h, MaximalIn(runs, g)
  PROVE  MaximalIn(runs, g \cup h)
BY DEF MaximalIn
-----------------------------------------------------------------------------
(***************************************************************************)
(* What an edge of input_clk makes of the runs.                            *)
(***************************************************************************)
\* A write that is taken: no run is lost.
LEMMA RunsAccepted ==
  ASSUME EncoderTypes, EncoderTypes', Accepted
  PROVE  /\ \A data : Grows(data) => /\ AllRuns = Append(Closed, OpenRun)
                                     /\ AllRuns' = Append(Closed, OpenRun')
         /\ \A data : Opens(data) => AllRuns' = Append(AllRuns, OpenRun')
         /\ Flushes => AllRuns' = AllRuns
<1>1. /\ Closed' = IF wrreq' THEN Append(Stored', j') ELSE Stored'
      /\ AllRuns' = IF have_run' THEN Append(Closed', OpenRun') ELSE Closed'
  BY AllRunsAfter DEF AllRunsSplit
<1>2. AllRuns = IF have_run THEN Append(Closed, OpenRun) ELSE Closed
  BY AllRunsAre DEF AllRunsSplit
<1>3. Stored' = Closed
  BY DEF Accepted
<1>4. have_run \in BOOLEAN
  BY DEF EncoderTypes
<1>5. Closes => Closed' = AllRuns
  BY <1>1, <1>2, <1>3, <1>4 DEF Closes
<1> QED
  BY <1>1, <1>2, <1>3, <1>5 DEF Grows, Opens, Flushes

\* A write that is refused: at least one sample is lost.
LEMMA RunsRefused ==
  ASSUME EncoderTypes, EncoderTypes', Refused, NEW data \in Values,
         NEW more \in Nat, \/ more = 1 /\ (Grows(data) \/ Opens(data))
                           \/ more = 0 /\ Flushes
  PROVE  /\ Len(Decode(AllRuns)) \in Nat /\ Len(Decode(AllRuns')) \in Nat
         /\ Len(Decode(AllRuns')) < Len(Decode(AllRuns)) + more
<1>1. /\ Closed' = IF wrreq' THEN Append(Stored, j') ELSE Stored
      /\ AllRuns' = IF have_run' THEN Append(Closed', OpenRun') ELSE Closed'
      /\ Closed' \in Seq(RunSet)
  BY AllRunsAfter DEF AllRunsSplit, Refused
<1>2. /\ Closed = Append(Stored, j)
      /\ AllRuns = IF have_run THEN Append(Closed, OpenRun) ELSE Closed
      /\ Stored \in Seq(RunSet) /\ Closed \in Seq(RunSet)
  BY AllRunsAre DEF AllRunsSplit, Refused
<1>3. /\ j \in RunSet /\ (have_run => OpenRun \in RunSet) /\ (have_run' => OpenRun' \in RunSet)
      /\ (wrreq' => j' \in RunSet) /\ have_run \in BOOLEAN
  BY DEF EncoderTypes, Refused
<1> DEFINE base == Len(Decode(Stored))
<1>4. /\ Len(Decode(Closed)) = base + j.count /\ base \in Nat /\ j.count \in Nat /\ j.count >= 1
  BY <1>2, <1>3, DecodeAppend
<1>5. have_run => /\ Len(Decode(AllRuns)) = base + j.count + OpenRun.count
                  /\ OpenRun.count \in Nat
                  /\ Len(Decode(Append(Stored, OpenRun))) = base + OpenRun.count
  <2> SUFFICES ASSUME have_run
               PROVE  /\ Len(Decode(AllRuns)) = base + j.count + OpenRun.count
                      /\ OpenRun.count \in Nat
                      /\ Len(Decode(Append(Stored, OpenRun))) = base + OpenRun.count
    OBVIOUS
  <2>1. AllRuns = Append(Closed, OpenRun) /\ OpenRun \in RunSet
    BY <1>2, <1>3
  <2>2. /\ Len(Decode(Append(Closed, OpenRun))) = Len(Decode(Closed)) + OpenRun.count
        /\ OpenRun.count \in Nat
    BY <1>2, <2>1, DecodeAppend
  <2>3. Len(Decode(Append(Stored, OpenRun))) = Len(Decode(Stored)) + OpenRun.count
    BY <1>2, <2>1, DecodeAppend
  <2> QED
    BY <1>4, <2>1, <2>2, <2>3
<1>6. ~have_run => Len(Decode(AllRuns)) = base + j.count
  BY <1>2, <1>4
<1>7. CASE Grows(data)
  <2>1. /\ have_run /\ have_run' /\ ~wrreq' /\ run_count \in Nat /\ OpenRun' = Run(run_count + 1, run_value)
    BY <1>7 DEF Grows
  <2>2. OpenRun'.count = OpenRun.count + 1 /\ OpenRun' \in RunSet
    BY <1>3, <2>1 DEF OpenRun, Run
  <2>3. AllRuns' = Append(Stored, OpenRun')
    BY <1>1, <2>1
  <2>4. Len(Decode(Append(Stored, OpenRun'))) = base + OpenRun'.count
    BY <1>2, <2>2, DecodeAppend
  <2>5. more = 1
    BY <1>7 DEF Grows, Flushes
  <2>6. /\ Len(Decode(AllRuns)) = base + j.count + OpenRun.count /\ OpenRun.count \in Nat
        /\ Len(Decode(AllRuns')) = base + (OpenRun.count + 1)
    BY <1>5, <2>1, <2>2, <2>3, <2>4
  <2> HIDE DEF base
  <2> QED
    BY <1>4, <2>5, <2>6, SMTT(60)
<1>8. ASSUME Closes
      PROVE  /\ Len(Decode(Closed')) \in Nat
             /\ Len(Decode(Closed')) < Len(Decode(AllRuns)) /\ Len(Decode(AllRuns)) \in Nat
  <2>1. CASE have_run
    <3>1. Closed' = Append(Stored, OpenRun)
      BY <1>1, <1>8, <2>1 DEF Closes
    <3> QED
      BY <1>4, <1>5, <2>1, <3>1, SMTT(60)
  <2>2. CASE ~have_run
    <3>1. Closed' = Stored
      BY <1>1, <1>8, <2>2 DEF Closes
    <3> QED
      BY <1>4, <1>6, <2>2, <3>1
  <2> QED
    BY <1>3, <2>1, <2>2
<1>9. CASE Opens(data)
  <2>1. Closes /\ have_run' /\ OpenRun' = Run(1, data) /\ more = 1
    BY <1>9 DEF Opens, Flushes
  <2>2. AllRuns' = Append(Closed', OpenRun') /\ OpenRun' \in RunSet /\ OpenRun'.count = 1
    BY <1>1, <1>3, <2>1 DEF Run
  <2>3. Len(Decode(Append(Closed', OpenRun'))) = Len(Decode(Closed')) + OpenRun'.count
    BY <1>1, <2>2, DecodeAppend
  <2> QED
    BY <1>8, <2>1, <2>2, <2>3
<1>10. CASE Flushes
  <2>1. Closes /\ ~have_run' /\ more = 0
    BY <1>10 DEF Flushes, Grows, Opens
  <2>2. AllRuns' = Closed'
    BY <1>1, <2>1
  <2> QED
    BY <1>8, <2>1, <2>2
<1> QED
  BY <1>7, <1>9, <1>10

\* The history takes every valid sample and notes every pause.
LEMMA SampledIs ==
  ASSUME EncoderTypes, NEW valid \in BOOLEAN, NEW data \in Values, InputTick(valid, data),
         ~EncoderCleared
  PROVE  /\ valid => sampled' = Append(sampled, data) /\ gaps' = gaps
         /\ ~valid => sampled' = sampled /\ gaps' = gaps \cup {Len(sampled)}
         /\ Len(sampled) \in Nat
         /\ Len(sampled') = Len(sampled) + (IF valid THEN 1 ELSE 0)
<1>1. sampled \in Seq(Values)
  BY DEF EncoderTypes
<1>2. /\ valid => sampled' = Append(sampled, data) /\ gaps' = gaps
      /\ ~valid => sampled' = sampled /\ gaps' = gaps \cup {Len(sampled)}
  BY DEF InputTick
<1> QED
  BY <1>1, <1>2

\* While the encoder runs, an edge keeps what the runs stand for.
LEMMA RunningStep ==
  ASSUME EncoderInv, EncoderTypes', NEW valid \in BOOLEAN, NEW data \in Values,
         InputTick(valid, data), Running, Running'
  PROVE  NothingMissing' /\ EndsInGap' /\ RunsMaximal' /\ CounterCounts'
<1>1. ~EncoderCleared /\ ~reset_counter /\ ~reset_iclk
  BY InputClears DEF Running
<1>2. IF valid THEN Grows(data) \/ Opens(data) ELSE Flushes
  BY <1>1, EncoderStep DEF EncoderInv
<1>3. /\ valid => sampled' = Append(sampled, data) /\ gaps' = gaps
      /\ ~valid => sampled' = sampled /\ gaps' = gaps \cup {Len(sampled)}
      /\ Len(sampled) \in Nat
      /\ Len(sampled') = Len(sampled) + (IF valid THEN 1 ELSE 0)
  BY <1>1, SampledIs DEF EncoderInv
<1>4. /\ Refused \/ Accepted
      /\ Refused => overflow'
      /\ Accepted => overflow' = overflow
  <2>1. Refused \/ Accepted
    BY <1>1, FifoStep DEF EncoderInv
  <2> QED
    BY <1>1, <2>1 DEF Refused, Accepted
<1>5. /\ Len(Decode(AllRuns)) <= Len(sampled)
      /\ overflow => Len(Decode(AllRuns)) < Len(sampled)
      /\ ~overflow => Decode(AllRuns) = sampled
      /\ ~overflow => MaximalIn(AllRuns, gaps)
      /\ ~overflow /\ ~have_run /\ AllRuns # <<>> => Len(sampled) \in gaps
  BY DEF EncoderInv, NothingMissing, EndsInGap, RunsMaximal, MaximalIn
<1>6. CounterCounts'
  <2> DEFINE M == 2^WIDTH_COUNTER
             k == Len(sampled)
  <2>1. /\ counter = k % M
        /\ counter' = IF valid THEN (counter + 1) % M ELSE counter
    BY <1>1 DEF EncoderInv, CounterCounts, InputTick
  <2>2. M \in Nat \ {0} /\ k \in Nat
    BY <1>3, EncoderAssumption
  <2> HIDE DEF M, k
  <2>3. ((k % M) + 1) % M = (k + 1) % M
    BY <2>2, ModAgain DEF Rewraps
  <2>4. counter' = IF valid THEN (k + 1) % M ELSE k % M
    BY <2>1, <2>3
  <2>5. Len(sampled') = IF valid THEN k + 1 ELSE k
    BY <1>3 DEF k
  <2>6. counter' = Len(sampled') % M
    BY <2>4, <2>5
  <2> QED
    BY <2>6 DEF CounterCounts, M
<1>7. CASE Refused
  <2>1. overflow'
    BY <1>4, <1>7
  <2>2. \/ 1 = 1 /\ valid /\ (Grows(data) \/ Opens(data))
        \/ 0 = 0 /\ ~valid /\ Flushes
    BY <1>2
  <2>3. Len(Decode(AllRuns')) \in Nat /\ Len(Decode(AllRuns)) \in Nat
        /\ Len(Decode(AllRuns')) < Len(Decode(AllRuns)) + (IF valid THEN 1 ELSE 0)
    <3>1. CASE valid
      BY <1>7, <2>2, <3>1, RunsRefused DEF EncoderInv
    <3>2. CASE ~valid
      BY <1>7, <2>2, <3>2, RunsRefused DEF EncoderInv
    <3> QED
      BY <3>1, <3>2
  <2>4. Len(Decode(AllRuns')) < Len(sampled')
    BY <1>3, <1>5, <2>3
  <2> QED
    BY <1>3, <1>6, <2>1, <2>3, <2>4 DEF NothingMissing, EndsInGap, RunsMaximal
<1>8. CASE Accepted
  <2>1. /\ AllRuns \in Seq(RunSet) /\ Closed \in Seq(RunSet)
        /\ AllRuns = IF have_run THEN Append(Closed, OpenRun) ELSE Closed
    BY AllRunsAre DEF EncoderInv, AllRunsSplit
  <2>2. /\ have_run => OpenRun \in RunSet
        /\ have_run' => OpenRun' \in RunSet
        /\ overflow' = overflow /\ overflow \in BOOLEAN /\ have_run \in BOOLEAN
    BY <1>4, <1>8 DEF EncoderInv, EncoderTypes
  <2>3. CASE valid /\ Grows(data)
    <3>1. /\ have_run /\ have_run' /\ data = run_value /\ run_count \in Nat
          /\ OpenRun' = Run(run_count + 1, run_value) /\ OpenRun = Run(run_count, run_value)
      BY <2>3 DEF Grows, OpenRun
    <3>2. AllRuns = Append(Closed, OpenRun) /\ AllRuns' = Append(Closed, OpenRun')
      BY <1>8, <2>3, RunsAccepted DEF EncoderInv
    <3>3. Decode(AllRuns') = Append(Decode(AllRuns), data)
      BY <2>1, <2>2, <3>1, <3>2, DecodeExtended
    <3>4. OpenRun'.value = OpenRun.value
      BY <3>1 DEF Run
    <3>5. MaximalIn(AllRuns, gaps) => MaximalIn(AllRuns', gaps)
      BY <2>1, <2>2, <3>1, <3>2, <3>4, MaximalButLast
    <3>6. Decode(AllRuns) \in Seq(Values)
      BY <2>1, DecodeIs
    <3>7. Len(Decode(AllRuns')) = Len(Decode(AllRuns)) + 1 /\ Len(Decode(AllRuns)) \in Nat
      BY <3>3, <3>6
    <3>8. NothingMissing'
      BY <1>3, <1>5, <2>2, <2>3, <3>3, <3>7 DEF NothingMissing
    <3>9. RunsMaximal'
      BY <1>3, <1>5, <2>2, <2>3, <3>5 DEF RunsMaximal, MaximalIn
    <3> QED
      BY <1>6, <3>1, <3>8, <3>9 DEF EndsInGap
  <2>4. CASE valid /\ Opens(data)
    <3>1. have_run' /\ OpenRun' = Run(1, data) /\ OpenRun' \in RunSet
          /\ (have_run => data # run_value \/ run_count = MAX_COUNT)
      BY <2>2, <2>4 DEF Opens
    <3>2. AllRuns' = Append(AllRuns, OpenRun')
      BY <1>8, <2>4, RunsAccepted DEF EncoderInv
    <3>3. Samples1(OpenRun') = <<data>>
      BY <3>1 DEF Samples1, Run
    <3>4. Decode(AllRuns') = Decode(AllRuns) \o <<data>>
      BY <2>1, <3>1, <3>2, <3>3, DecodeAppend
    <3>5. Decode(AllRuns) \in Seq(Values)
      BY <2>1, DecodeIs
    <3>6. Decode(AllRuns') = Append(Decode(AllRuns), data)
      BY <3>4, <3>5, AppendIsConcat
    <3>7. Len(Decode(AllRuns')) = Len(Decode(AllRuns)) + 1 /\ Len(Decode(AllRuns)) \in Nat
      BY <3>5, <3>6
    <3>8. NothingMissing'
      BY <1>3, <1>5, <2>2, <2>4, <3>6, <3>7 DEF NothingMissing
    <3>9. ASSUME ~overflow PROVE MaximalIn(AllRuns', gaps)
      <4>1. ASSUME AllRuns # <<>>, AllRuns[Len(AllRuns)].value = OpenRun'.value
            PROVE  AllRuns[Len(AllRuns)].count = MAX_COUNT \/ Len(Decode(AllRuns)) \in gaps
        <5>1. CASE have_run
          <6>1. AllRuns = Append(Closed, OpenRun) /\ OpenRun \in RunSet
            BY <2>1, <2>2, <5>1
          <6>2. AllRuns[Len(AllRuns)] = OpenRun
            BY <2>1, <6>1
          <6>3. OpenRun.value = run_value /\ OpenRun.count = run_count /\ OpenRun'.value = data
            BY <3>1 DEF OpenRun, Run
          <6> QED
            BY <3>1, <4>1, <5>1, <6>2, <6>3
        <5>2. CASE ~have_run
          BY <1>5, <3>9, <4>1, <5>2
        <5> QED
          BY <2>2, <5>1, <5>2
      <4>2. MaximalIn(AllRuns, gaps)
        BY <1>5, <3>9
      <4> QED
        BY <2>1, <3>1, <3>2, <4>1, <4>2, MaximalAppend
    <3>10. RunsMaximal'
      BY <1>3, <2>2, <2>4, <3>9 DEF RunsMaximal, MaximalIn
    <3> QED
      BY <1>6, <3>1, <3>8, <3>10 DEF EndsInGap
  <2>5. CASE ~valid /\ Flushes
    <3>1. AllRuns' = AllRuns
      BY <1>8, <2>5, RunsAccepted, SMTT(60) DEF EncoderInv
    <3>2. NothingMissing'
      BY <1>3, <1>5, <2>2, <2>5, <3>1, ZenonT(60) DEF NothingMissing
    <3>3. EndsInGap'
      BY <1>3, <2>5, ZenonT(60) DEF EndsInGap
    <3>4. MaximalIn(AllRuns, gaps) => MaximalIn(AllRuns', gaps')
      <4>1. gaps' = gaps \cup {Len(sampled)}
        BY <1>3, <2>5, ZenonT(60)
      <4>2. MaximalIn(AllRuns, gaps) => MaximalIn(AllRuns, gaps \cup {Len(sampled)})
        BY MaximalMoreGaps
      <4>3. MaximalIn(AllRuns', gaps') = MaximalIn(AllRuns, gaps \cup {Len(sampled)})
        BY <3>1, <4>1
      <4> QED
        BY <4>2, <4>3, SMTT(60)
    <3>5. RunsMaximal'
      BY <1>5, <2>2, <3>4 DEF RunsMaximal, MaximalIn
    <3> QED
      BY <1>6, <3>2, <3>3, <3>5
  <2> QED
    BY <1>2, <2>3, <2>4, <2>5
<1> QED
  BY <1>4, <1>7, <1>8

\* An edge of input_clk: the invariant as a whole.
LEMMA InputKeeps ==
  ASSUME EncoderInv, NEW valid \in BOOLEAN, NEW data \in Values, InputTick(valid, data)
  PROVE  EncoderInv'
<1>1. EncoderTypes'
  BY InputTypes DEF EncoderInv
<1>2. /\ ResetClears'
      /\ ~Running /\ Running' => /\ EncoderEmpty' /\ Stored' = <<>> /\ ~overflow' /\ counter' = 0
  BY InputClears
<1>3. CASE Running /\ Running'
  <2>1. NothingMissing' /\ EndsInGap' /\ RunsMaximal' /\ CounterCounts'
    BY <1>1, <1>3, RunningStep
  <2> QED
    BY <1>1, <1>2, <2>1 DEF EncoderInv
<1>4. CASE ~Running /\ Running'
  <2>1. ~have_run' /\ ~wrreq' /\ sampled' = <<>> /\ Stored' = <<>> /\ ~overflow' /\ counter' = 0
    BY <1>2, <1>4 DEF EncoderEmpty
  <2>2. AllRuns' = <<>>
    <3>1. /\ Closed' = IF wrreq' THEN Append(Stored', j') ELSE Stored'
          /\ AllRuns' = IF have_run' THEN Append(Closed', OpenRun') ELSE Closed'
      BY <1>1, AllRunsAfter DEF AllRunsSplit
    <3> QED
      BY <2>1, <3>1
  <2>3. Decode(AllRuns') = <<>> /\ Len(<<>>) = 0
    BY <2>2, DecodeEmpty
  <2>4. NothingMissing'
    BY <2>1, <2>3 DEF NothingMissing
  <2>5. EndsInGap'
    BY <2>2 DEF EndsInGap
  <2>6. RunsMaximal'
    <3>1. 1 .. (Len(AllRuns') - 1) = {}
      BY <2>2
    <3> QED
      BY <3>1 DEF RunsMaximal
  <2>7. CounterCounts'
    <3> DEFINE M == 2^WIDTH_COUNTER
    <3>1. M \in Nat /\ M > 1
      BY EncoderAssumption
    <3> HIDE DEF M
    <3>2. 0 % M = 0
      BY <3>1
    <3>3. counter' = Len(sampled') % M
      BY <2>1, <2>3, <3>2
    <3> QED
      BY <3>3 DEF CounterCounts, M
  <2> QED
    BY <1>1, <1>2, <2>4, <2>5, <2>6, <2>7 DEF EncoderInv
<1>5. CASE ~Running'
  BY <1>1, <1>2, <1>5 DEF EncoderInv, NothingMissing, EndsInGap, RunsMaximal, CounterCounts
<1> QED
  BY <1>3, <1>4, <1>5
-----------------------------------------------------------------------------
(***************************************************************************)
(* The reader's clock, and the reset.                                      *)
(***************************************************************************)
\* A step that leaves the input's clock domain and the stored runs alone.
LEMMA RunsStay ==
  ASSUME EncoderInv, UNCHANGED inputVars, reset_counter' \in BOOLEAN,
         DcTypeOK(rl_fifo', RunSet, LENGTH_RL), delivered' \in Seq(RunSet), Stored' = Stored
  PROVE  EncoderTypes' /\ AllRuns' = AllRuns
<1>1. /\ have_run' = have_run /\ run_value' = run_value /\ run_count' = run_count
      /\ wrreq' = wrreq /\ j' = j /\ overflow' = overflow /\ counter' = counter
      /\ reset_sync' = reset_sync /\ sampled' = sampled /\ gaps' = gaps
  BY DEF inputVars, encoderVars
<1>2. OpenRun' = OpenRun
  BY <1>1 DEF OpenRun
<1>3. EncoderTypes'
  BY <1>1, <1>2 DEF EncoderInv, EncoderTypes
<1>4. /\ Closed' = IF wrreq' THEN Append(Stored', j') ELSE Stored'
      /\ AllRuns' = IF have_run' THEN Append(Closed', OpenRun') ELSE Closed'
  BY <1>3, AllRunsAfter DEF AllRunsSplit
<1>5. /\ Closed = IF wrreq THEN Append(Stored, j) ELSE Stored
      /\ AllRuns = IF have_run THEN Append(Closed, OpenRun) ELSE Closed
  BY AllRunsAre DEF EncoderInv, AllRunsSplit
<1> QED
  BY <1>1, <1>2, <1>3, <1>4, <1>5

\* Such a step keeps the invariant, unless it ends a reset.
LEMMA ReaderKeeps ==
  ASSUME EncoderInv, UNCHANGED <<inputVars, reset_counter>>,
         DcTypeOK(rl_fifo', RunSet, LENGTH_RL), delivered' \in Seq(RunSet), Stored' = Stored
  PROVE  EncoderInv'
<1>1. /\ have_run' = have_run /\ wrreq' = wrreq /\ overflow' = overflow /\ counter' = counter
      /\ reset_sync' = reset_sync /\ sampled' = sampled /\ gaps' = gaps
      /\ reset_counter' = reset_counter
  BY DEF inputVars, encoderVars
<1>2. EncoderTypes' /\ AllRuns' = AllRuns
  <2>1. reset_counter' \in BOOLEAN /\ UNCHANGED inputVars
    BY <1>1 DEF EncoderInv, EncoderTypes
  <2> QED
    BY <2>1, RunsStay
<1>3. reset_iclk' = reset_iclk /\ Running' = Running
  BY <1>1 DEF reset_iclk, Running
<1>4. ResetClears'
  <2>1. ResetClears
    BY DEF EncoderInv
  <2>2. EncoderEmpty' = EncoderEmpty
    BY <1>1 DEF EncoderEmpty
  <2> QED
    BY <1>1, <1>3, <2>1, <2>2 DEF ResetClears
<1>5. NothingMissing' /\ CounterCounts' /\ EndsInGap'
  BY <1>1, <1>2, <1>3 DEF EncoderInv, NothingMissing, CounterCounts, EndsInGap
<1>6. RunsMaximal'
  BY <1>1, <1>2, <1>3 DEF EncoderInv, RunsMaximal
<1> QED
  BY <1>2, <1>4, <1>5, <1>6 DEF EncoderInv

\* An edge of clk hands a run to the reader and loses none.
LEMMA ReadKeeps ==
  ASSUME EncoderInv, NEW aso_ready \in BOOLEAN, ReadTick(aso_ready)
  PROVE  EncoderInv'
<1> DEFINE rdreq == ~rdempty(rl_fifo) /\ aso_ready
<1>1. /\ rl_fifo' \in DcRead(rl_fifo, rdreq)
      /\ delivered' = IF rdreq THEN Append(delivered, Head(rl_fifo.q)) ELSE delivered
      /\ UNCHANGED <<inputVars, reset_counter>>
  BY DEF ReadTick
<1>2. /\ rl_fifo \in [q : Seq(RunSet), vis : Nat, freed : Nat]
      /\ rl_fifo.q \in Seq(RunSet) /\ Len(rl_fifo.q) \in Nat /\ rl_fifo.freed \in Nat
      /\ rl_fifo.vis \in Nat /\ rl_fifo.vis <= Len(rl_fifo.q) /\ Len(rl_fifo.q) <= LENGTH_RL
      /\ LENGTH_RL \in Nat /\ delivered \in Seq(RunSet)
  BY EncoderAssumption DEF EncoderInv, EncoderTypes, DcTypeOK
<1>3. /\ DcTypeOK(rl_fifo', RunSet, LENGTH_RL) /\ delivered' \in Seq(RunSet)
      /\ Stored' = Stored
  <2>1. CASE rdreq
    <3>1. rl_fifo.vis # 0 /\ rl_fifo.q # <<>>
      BY <1>2, <2>1 DEF rdempty
    <3>2. PICK n \in (rl_fifo.vis - 1) .. (Len(rl_fifo.q) - 1) :
            rl_fifo' = [q |-> Tail(rl_fifo.q), vis |-> n, freed |-> rl_fifo.freed + 1]
      BY <1>1, <2>1 DEF DcRead
    <3>3. Len(Tail(rl_fifo.q)) = Len(rl_fifo.q) - 1
      BY <1>2, <3>1
    <3>4. /\ Append(delivered, Head(rl_fifo.q)) \o Tail(rl_fifo.q) = delivered \o rl_fifo.q
          /\ Append(delivered, Head(rl_fifo.q)) \in Seq(RunSet) /\ Tail(rl_fifo.q) \in Seq(RunSet)
      BY <1>2, <3>1, MoveElementOver
    <3>5. delivered' = Append(delivered, Head(rl_fifo.q))
      BY <1>1, <2>1
    <3>6. DcTypeOK(rl_fifo', RunSet, LENGTH_RL)
      <4>1. n \in Nat /\ n <= Len(rl_fifo.q) - 1
        BY <1>2, <3>1, <3>2
      <4> QED
        BY <1>2, <3>2, <3>3, <3>4, <4>1 DEF DcTypeOK
    <3>7. rl_fifo'.q = Tail(rl_fifo.q)
      BY <3>2
    <3> QED
      BY <3>4, <3>5, <3>6, <3>7 DEF Stored
  <2>2. CASE ~rdreq
    <3>1. PICK n \in rl_fifo.vis .. Len(rl_fifo.q) : rl_fifo' = [rl_fifo EXCEPT !.vis = n]
      BY <1>1, <2>2 DEF DcRead
    <3>2. delivered' = delivered
      BY <1>1, <2>2
    <3>3. /\ rl_fifo'.q = rl_fifo.q /\ rl_fifo'.vis = n /\ n \in Nat /\ n <= Len(rl_fifo.q)
          /\ rl_fifo' \in [q : Seq(RunSet), vis : Nat, freed : Nat]
      BY <1>2, <3>1
    <3> QED
      BY <1>2, <3>2, <3>3 DEF DcTypeOK, Stored
  <2> QED
    BY <2>1, <2>2
<1> QED
  BY <1>1, <1>3, ReaderKeeps

\* A reset empties what the reader has and what waits for it.
LEMMA ResetKeeps ==
  ASSUME EncoderInv, AssertReset
  PROVE  EncoderInv'
<1>1. /\ reset_counter' = TRUE /\ rl_fifo' = DcCleared /\ delivered' = <<>>
      /\ have_run' = have_run /\ run_value' = run_value /\ run_count' = run_count
      /\ wrreq' = wrreq /\ j' = j /\ overflow' = overflow
      /\ reset_sync' = reset_sync /\ sampled' = sampled /\ gaps' = gaps
  BY DEF AssertReset, inputVars, encoderVars
<1>2. ~Running'
  BY <1>1 DEF Running
<1>3. <<>> \in Seq(RunSet) /\ Len(<<>>) = 0 /\ LENGTH_RL \in Nat
  BY EncoderAssumption
<1>4. DcTypeOK(rl_fifo', RunSet, LENGTH_RL)
  BY <1>1, <1>3 DEF DcTypeOK, DcCleared
<1>5. OpenRun' = OpenRun
  BY <1>1 DEF OpenRun
<1>6. EncoderTypes'
  BY <1>1, <1>3, <1>4, <1>5 DEF EncoderInv, EncoderTypes
<1>7. Stored' = <<>>
  BY <1>1 DEF Stored, DcCleared
<1>8. EncoderEmpty' = EncoderEmpty /\ reset_iclk' = reset_iclk
  BY <1>1 DEF EncoderEmpty, reset_iclk
<1>9. ResetClears'
  BY <1>1, <1>7, <1>8 DEF EncoderInv, ResetClears
<1> QED
  BY <1>2, <1>6, <1>9 DEF EncoderInv, NothingMissing, CounterCounts, EndsInGap, RunsMaximal

\* It ends while the synchronizer still shows it.
LEMMA ReleaseKeeps ==
  ASSUME EncoderInv, ReleaseReset
  PROVE  EncoderInv'
<1>1. /\ reset_counter /\ reset_counter' = FALSE /\ rl_fifo' = rl_fifo /\ delivered' = delivered
      /\ have_run' = have_run /\ wrreq' = wrreq /\ sampled' = sampled /\ gaps' = gaps
      /\ reset_sync' = reset_sync /\ reset_sync = <<TRUE, TRUE, TRUE>>
      /\ UNCHANGED inputVars
  BY DEF ReleaseReset, inputVars, encoderVars
<1>2. reset_iclk' /\ reset_iclk /\ ~Running'
  BY <1>1 DEF reset_iclk, Running
<1>3. Stored' = Stored /\ EncoderEmpty' = EncoderEmpty
  BY <1>1 DEF Stored, EncoderEmpty
<1>4. EncoderTypes'
  <2>1. /\ DcTypeOK(rl_fifo', RunSet, LENGTH_RL) /\ delivered' \in Seq(RunSet)
        /\ reset_counter' \in BOOLEAN
    BY <1>1 DEF EncoderInv, EncoderTypes
  <2> QED
    BY <1>1, <1>3, <2>1, RunsStay
<1>5. ResetClears'
  <2>1. reset_sync'[1] /\ reset_sync'[2] /\ reset_sync'[3]
    BY <1>1
  <2> QED
    BY <1>1, <1>2, <1>3, <2>1 DEF EncoderInv, ResetClears
<1> QED
  BY <1>2, <1>4, <1>5 DEF EncoderInv, NothingMissing, CounterCounts, EndsInGap, RunsMaximal

\* Power-up establishes the invariant of the encoder.
LEMMA EncoderStart == EncoderInit => EncoderInv
<1> SUFFICES ASSUME EncoderInit PROVE EncoderInv
  OBVIOUS
<1>1. /\ have_run = FALSE /\ wrreq = FALSE /\ rl_fifo = DcCleared /\ overflow = FALSE /\ counter = 0
      /\ reset_counter = FALSE /\ reset_sync = <<FALSE, FALSE, FALSE>>
      /\ sampled = <<>> /\ gaps = {} /\ delivered = <<>>
  BY DEF EncoderInit
<1>2. <<>> \in Seq(RunSet) /\ <<>> \in Seq(Values) /\ Len(<<>>) = 0 /\ LENGTH_RL \in Nat
  BY EncoderAssumption
<1>3. DcTypeOK(rl_fifo, RunSet, LENGTH_RL)
  BY <1>1, <1>2 DEF DcTypeOK, DcCleared
<1>4. EncoderTypes
  BY <1>1, <1>2, <1>3 DEF EncoderTypes, Three
<1>5. Stored = <<>>
  BY <1>1 DEF Stored, DcCleared
<1>6. AllRuns = <<>>
  BY <1>1, <1>4, <1>5, AllRunsAre DEF AllRunsSplit
<1>7. Decode(AllRuns) = <<>>
  BY <1>6, DecodeEmpty
<1>8. ~reset_iclk
  BY <1>1 DEF reset_iclk
<1>9. ResetClears
  BY <1>1, <1>8 DEF ResetClears
<1>10. NothingMissing /\ EndsInGap
  BY <1>1, <1>2, <1>6, <1>7 DEF NothingMissing, EndsInGap
<1>11. RunsMaximal
  <2>1. 1 .. (Len(AllRuns) - 1) = {}
    BY <1>6
  <2> QED
    BY <2>1 DEF RunsMaximal
<1>12. CounterCounts
  <2> DEFINE M == 2^WIDTH_COUNTER
  <2>1. M \in Nat /\ M > 1
    BY EncoderAssumption
  <2> HIDE DEF M
  <2>2. 0 % M = 0
    BY <2>1
  <2>3. counter = Len(sampled) % M
    BY <1>1, <1>2, <2>2
  <2> QED
    BY <2>3 DEF CounterCounts, M
<1> QED
  BY <1>4, <1>9, <1>10, <1>11, <1>12 DEF EncoderInv

\* The inductive invariant of the read-back encoder holds in every state.
THEOREM EncoderInvariance == EncoderSpec => []EncoderInv
<1>1. EncoderInit => EncoderInv
  BY EncoderStart
<1>2. EncoderInv /\ [EncoderNext]_rlVars => EncoderInv'
  <2> SUFFICES ASSUME EncoderInv, [EncoderNext]_rlVars
               PROVE  EncoderInv'
    OBVIOUS
  <2>1. CASE \E valid \in BOOLEAN, data \in Values : InputTick(valid, data)
    BY <2>1, InputKeeps
  <2>2. CASE \E aso_ready \in BOOLEAN : ReadTick(aso_ready)
    BY <2>2, ReadKeeps
  <2>3. CASE AssertReset
    BY <2>3, ResetKeeps
  <2>4. CASE ReleaseReset
    BY <2>4, ReleaseKeeps
  <2>5. CASE UNCHANGED rlVars
    <3>1. UNCHANGED <<inputVars, reset_counter>> /\ rl_fifo' = rl_fifo /\ delivered' = delivered
      BY <2>5 DEF rlVars
    <3>2. /\ DcTypeOK(rl_fifo', RunSet, LENGTH_RL) /\ delivered' \in Seq(RunSet)
          /\ Stored' = Stored
      BY <3>1 DEF EncoderInv, EncoderTypes, Stored
    <3> QED
      BY <3>1, <3>2, ReaderKeeps
  <2> QED
    BY <2>1, <2>2, <2>3, <2>4, <2>5 DEF EncoderNext
<1> QED
  BY <1>1, <1>2, PTL DEF EncoderSpec

\* docs/docs/readback.md, "overflow latches high if software is not draining
\* the encoded FIFO fast enough": for every counter width and FIFO size, while
\* the encoder runs the flag is high exactly when the runs no longer decode to
\* the samples seen since the reset; the pulse counter counts those samples,
\* and without overflow the runs are as long as they can be.
THEOREM OverflowTellsLoss == EncoderSpec => []OverflowIffLost
<1>1. EncoderInv => OverflowIffLost
  <2> SUFFICES ASSUME EncoderInv PROVE OverflowIffLost
    OBVIOUS
  <2>1. Running => counter = Len(sampled) % 2^WIDTH_COUNTER
    BY DEF EncoderInv, CounterCounts
  <2>2. ASSUME Running PROVE overflow <=> Decode(AllRuns) # sampled
    <3>1. /\ overflow => Len(Decode(AllRuns)) < Len(sampled)
          /\ ~overflow => Decode(AllRuns) = sampled
          /\ overflow \in BOOLEAN /\ sampled \in Seq(Values)
      BY <2>2 DEF EncoderInv, NothingMissing, EncoderTypes
    <3>2. Len(sampled) \in Nat
      BY <3>1
    <3>3. Decode(AllRuns) = sampled => ~overflow
      BY <3>1, <3>2
    <3> QED
      BY <3>1, <3>3
  <2>3. RunsMaximal
    BY DEF EncoderInv
  <2> QED
    BY <2>1, <2>2, <2>3 DEF OverflowIffLost
<1> QED
  BY <1>1, EncoderInvariance, PTL
-----------------------------------------------------------------------------
(***************************************************************************)
(* cdc_bus_update.                                                         *)
(***************************************************************************)
\* A domain that was clocked during the common reset stays cleared until its
\* own reset is released.
ResetInv ==
  /\ src_reset /\ "src" \in seen => SrcCleared
  /\ dst_reset /\ "dst" \in seen => DstCleared

\* The handshake ring has at most one boundary, and the source is waiting
\* exactly while there is one in front of its own edge detector.
RingInv ==
  /\ dst_ack_tgl = dst_req_sync_d
  /\ src_req_tgl # dst_req_meta => dst_req_meta = dst_req_sync
  /\ src_req_tgl # dst_req_sync => dst_req_sync = dst_req_sync_d
  /\ src_req_tgl # dst_req_sync_d => dst_req_sync_d = src_ack_meta
  /\ src_req_tgl # src_ack_meta => src_ack_meta = src_ack_sync
  /\ src_req_tgl # src_ack_sync => src_ack_sync = src_ack_sync_d
  /\ src_inflight = (src_req_tgl # src_ack_sync_d)

\* Versions only grow along the path from the source's input to the
\* destination's output, and are equal where nothing is under way.
OrderInv ==
  /\ 0 <= dst_data /\ dst_data <= Held
  /\ 0 <= dst_pending_data
  /\ Held <= src_send_data /\ src_send_data <= newest
  /\ src_req_tgl = dst_req_sync_d => Held = src_send_data
  /\ src_pending_valid => src_pending_data = newest
  /\ ~src_pending_valid => src_send_data = newest

CdcInv == TypeOK /\ ResetInv /\ (Clean => RingInv /\ OrderInv)

-----------------------------------------------------------------------------
\* The power-up state satisfies the inductive invariant.
LEMMA CdcStart == CdcInit => CdcInv
<1> SUFFICES ASSUME CdcInit PROVE CdcInv
  OBVIOUS
<1>1. FlagsOK
  BY DEF CdcInit, FlagsOK, SrcCleared, DstCleared
<1>2. DataOK
  BY MaxVersionAssumption
     DEF CdcInit, DataOK, SrcCleared, DstCleared, RESET_VALUE, Torn
<1>3. ResetInv /\ ~Clean
  BY DEF CdcInit, ResetInv, Clean, Domains
<1> QED
  BY <1>1, <1>2, <1>3 DEF CdcInv, TypeOK

\* The source's step keeps the flags Boolean and the versions in range.
LEMMA SrcTypes ==
  ASSUME TypeOK, NEW upd \in UpdateIn, NEW v \in Versions,
         NEW ack \in BOOLEAN, SrcClk(upd, v, ack)
  PROVE  /\ src_pending_valid' \in BOOLEAN /\ src_req_tgl' \in BOOLEAN
         /\ src_inflight' \in BOOLEAN /\ src_ack_meta' \in BOOLEAN
         /\ src_ack_sync' \in BOOLEAN /\ src_ack_sync_d' \in BOOLEAN
         /\ newest' \in 0 .. MaxVersion
         /\ src_send_data' \in 0 .. MaxVersion
         /\ src_pending_data' \in 0 .. MaxVersion
<1>1. CASE src_reset
  <2>1. SrcReset
    BY <1>1 DEF SrcClk
  <2>2. /\ newest' \in 0 .. MaxVersion
        /\ src_send_data' \in 0 .. MaxVersion
        /\ src_pending_data' \in 0 .. MaxVersion
    BY <2>1, MaxVersionAssumption DEF SrcReset, RESET_VALUE
  <2> QED
    BY <2>1, <2>2 DEF SrcReset
<1>2. CASE ~src_reset
  <2>1. SrcRun(upd, v, ack)
    BY <1>2 DEF SrcClk
  <2>2. /\ src_pending_valid' \in BOOLEAN /\ src_req_tgl' \in BOOLEAN
        /\ src_inflight' \in BOOLEAN /\ src_ack_meta' \in BOOLEAN
        /\ src_ack_sync' \in BOOLEAN /\ src_ack_sync_d' \in BOOLEAN
    BY <2>1 DEF SrcRun, keeps_pending, TypeOK, FlagsOK
  <2>3. /\ newest' \in 0 .. MaxVersion
        /\ src_send_data' \in 0 .. MaxVersion
        /\ src_pending_data' \in 0 .. MaxVersion
    BY <2>1, MaxVersionAssumption DEF SrcRun, keeps_pending, TypeOK, DataOK, Versions
  <2> QED
    BY <2>2, <2>3
<1> QED
  BY <1>1, <1>2

\* The destination's step keeps the flags Boolean and the versions in range.
LEMMA DstTypes ==
  ASSUME TypeOK, NEW acc \in AcceptIn, NEW sample \in Torn .. MaxVersion,
         NEW req \in BOOLEAN, DstClk(acc, sample, req)
  PROVE  /\ dst_req_meta' \in BOOLEAN /\ dst_req_sync' \in BOOLEAN
         /\ dst_req_sync_d' \in BOOLEAN /\ dst_ack_tgl' \in BOOLEAN
         /\ dst_valid' \in BOOLEAN /\ dst_pending_valid' \in BOOLEAN
         /\ dst_data' \in Torn .. MaxVersion
         /\ dst_pending_data' \in Torn .. MaxVersion
<1>1. CASE dst_reset
  <2>1. DstReset
    BY <1>1 DEF DstClk
  <2>2. /\ dst_data' \in Torn .. MaxVersion
        /\ dst_pending_data' \in Torn .. MaxVersion
    BY <2>1, MaxVersionAssumption DEF DstReset, RESET_VALUE, Torn
  <2> QED
    BY <2>1, <2>2 DEF DstReset
<1>2. CASE ~dst_reset
  <2>1. DstRun(acc, sample, req)
    BY <1>2 DEF DstClk
  <2>2. /\ dst_req_meta' \in BOOLEAN /\ dst_req_sync' \in BOOLEAN
        /\ dst_req_sync_d' \in BOOLEAN /\ dst_ack_tgl' \in BOOLEAN
        /\ dst_valid' \in BOOLEAN /\ dst_pending_valid' \in BOOLEAN
    BY <2>1, AcceptInAssumption DEF DstRun, parks, TypeOK, FlagsOK
  <2>3. /\ dst_data' \in Torn .. MaxVersion
        /\ dst_pending_data' \in Torn .. MaxVersion
    BY <2>1 DEF DstRun, parks, TypeOK, DataOK
  <2> QED
    BY <2>2, <2>3
<1> QED
  BY <1>1, <1>2

\* The steps of the reset wires touch no other register.
LEMMA ResetTypes ==
  ASSUME TypeOK,
         \/ AssertSrcReset \/ AssertDstReset
         \/ ReleaseSrcReset \/ ReleaseDstReset \/ UNCHANGED cdcVars
  PROVE  TypeOK'
<1> USE DEF AssertSrcReset, AssertDstReset, ReleaseSrcReset,
            ReleaseDstReset, cdcVars, resetVars, srcVars, dstVars
<1>1. src_reset' \in BOOLEAN /\ dst_reset' \in BOOLEAN
  BY DEF TypeOK, FlagsOK
<1>2. seen' \in SUBSET Domains
  BY DEF TypeOK, FlagsOK
<1>3. UNCHANGED srcVars /\ UNCHANGED dstVars
  OBVIOUS
<1>4. FlagsOK' /\ DataOK'
  BY <1>1, <1>2, <1>3 DEF TypeOK, FlagsOK, DataOK
<1> QED
  BY <1>4 DEF TypeOK

\* Every step keeps the registers in their types.
LEMMA TypeStep == TypeOK /\ [CdcNext]_cdcVars => TypeOK'
<1> SUFFICES ASSUME TypeOK, [CdcNext]_cdcVars PROVE TypeOK'
  OBVIOUS
<1> USE DEF TypeOK
<1>0. src_send_data \in Torn .. MaxVersion /\ Torn \in Torn .. MaxVersion
  BY MaxVersionAssumption DEF DataOK, Torn
<1>1. ASSUME NEW upd \in UpdateIn, NEW v \in Versions, SrcEdge(upd, v)
      PROVE TypeOK'
  <2>1. seen' \in SUBSET Domains
    BY <1>1 DEF SrcEdge, Clocked, FlagsOK, Domains
  <2> QED
    BY <1>1, <2>1, SrcTypes DEF SrcEdge, FlagsOK, DataOK, resetVars, dstVars
<1>2. ASSUME NEW acc \in AcceptIn, DstEdge(acc)
      PROVE TypeOK'
  <2>1. seen' \in SUBSET Domains
    BY <1>2 DEF DstEdge, Clocked, FlagsOK, Domains
  <2> QED
    BY <1>0, <1>2, <2>1, DstTypes
       DEF DstEdge, FlagsOK, DataOK, resetVars, srcVars
<1>3. ASSUME NEW upd \in UpdateIn, NEW v \in Versions, NEW acc \in AcceptIn,
             BothEdges(upd, v, acc)
      PROVE TypeOK'
  <2>1. seen' \in SUBSET Domains
    BY <1>3 DEF BothEdges, Clocked, FlagsOK
  <2> QED
    BY <1>0, <1>3, <2>1, SrcTypes, DstTypes
       DEF BothEdges, FlagsOK, DataOK, resetVars
<1>4. CASE AssertSrcReset
  BY <1>4, ResetTypes
<1>5. CASE AssertDstReset
  BY <1>5, ResetTypes
<1>6. CASE ReleaseSrcReset
  BY <1>6, ResetTypes
<1>7. CASE ReleaseDstReset
  BY <1>7, ResetTypes
<1>8. CASE UNCHANGED cdcVars
  BY <1>8, ResetTypes
<1> QED
  BY <1>1, <1>2, <1>3, <1>4, <1>5, <1>6, <1>7, <1>8 DEF CdcNext

-----------------------------------------------------------------------------
\* A domain that the common reset has cleared stays cleared in its reset.
LEMMA ResetStep == TypeOK /\ ResetInv /\ [CdcNext]_cdcVars => ResetInv'
<1> SUFFICES ASSUME TypeOK, ResetInv, [CdcNext]_cdcVars PROVE ResetInv'
  OBVIOUS
<1>1. ASSUME src_reset', "src" \in seen' PROVE SrcCleared'
  <2> USE <1>1
  <2>1. ASSUME NEW upd \in UpdateIn, NEW v \in Versions, NEW ack \in BOOLEAN,
               SrcClk(upd, v, ack), UNCHANGED resetVars
        PROVE SrcCleared'
    BY <2>1 DEF SrcClk, SrcReset, SrcCleared, resetVars
  <2>2. ASSUME UNCHANGED srcVars, UNCHANGED src_reset,
               "src" \in seen' => "src" \in seen
        PROVE SrcCleared'
    BY <2>2 DEF ResetInv, SrcCleared, srcVars
  <2>3. ASSUME NEW acc \in AcceptIn, DstEdge(acc) PROVE SrcCleared'
    BY <2>3, <2>2 DEF DstEdge, Clocked, resetVars
  <2>4. ASSUME NEW upd \in UpdateIn, NEW v \in Versions, SrcEdge(upd, v)
        PROVE SrcCleared'
    BY <2>4, <2>1 DEF SrcEdge, TypeOK, FlagsOK
  <2>5. ASSUME NEW upd \in UpdateIn, NEW v \in Versions,
               NEW acc \in AcceptIn, BothEdges(upd, v, acc)
        PROVE SrcCleared'
    BY <2>5, <2>1 DEF BothEdges
  <2>6. CASE AssertSrcReset \/ AssertDstReset \/ ReleaseSrcReset
    BY <2>6 DEF AssertSrcReset, AssertDstReset, ReleaseSrcReset
  <2>7. CASE ReleaseDstReset \/ UNCHANGED cdcVars
    BY <2>7, <2>2 DEF ReleaseDstReset, cdcVars, resetVars
  <2> QED
    BY <2>3, <2>4, <2>5, <2>6, <2>7 DEF CdcNext
<1>2. ASSUME dst_reset', "dst" \in seen' PROVE DstCleared'
  <2> USE <1>2
  <2>1. ASSUME NEW acc \in AcceptIn, NEW sample, NEW req \in BOOLEAN,
               DstClk(acc, sample, req), UNCHANGED resetVars
        PROVE DstCleared'
    BY <2>1 DEF DstClk, DstReset, DstCleared, resetVars
  <2>2. ASSUME UNCHANGED dstVars, UNCHANGED dst_reset,
               "dst" \in seen' => "dst" \in seen
        PROVE DstCleared'
    BY <2>2 DEF ResetInv, DstCleared, dstVars
  <2>3. ASSUME NEW acc \in AcceptIn, DstEdge(acc) PROVE DstCleared'
    BY <2>3, <2>1 DEF DstEdge, TypeOK, FlagsOK
  <2>4. ASSUME NEW upd \in UpdateIn, NEW v \in Versions, SrcEdge(upd, v)
        PROVE DstCleared'
    BY <2>4, <2>2 DEF SrcEdge, Clocked, resetVars
  <2>5. ASSUME NEW upd \in UpdateIn, NEW v \in Versions,
               NEW acc \in AcceptIn, BothEdges(upd, v, acc)
        PROVE DstCleared'
    BY <2>5, <2>1 DEF BothEdges
  <2>6. CASE AssertSrcReset \/ AssertDstReset \/ ReleaseDstReset
    BY <2>6 DEF AssertSrcReset, AssertDstReset, ReleaseDstReset
  <2>7. CASE ReleaseSrcReset \/ UNCHANGED cdcVars
    BY <2>7, <2>2 DEF ReleaseSrcReset, cdcVars, resetVars
  <2> QED
    BY <2>3, <2>4, <2>5, <2>6, <2>7 DEF CdcNext
<1> QED
  BY <1>1, <1>2 DEF ResetInv

\* A common reset ends with both sides cleared.
LEMMA Restarted ==
  ASSUME TypeOK, ResetInv, [CdcNext]_cdcVars, ~Clean, Clean'
  PROVE  SrcCleared' /\ DstCleared'
<1>1. src_reset /\ dst_reset /\ UNCHANGED resetVars
  <2>1. \/ \E upd \in UpdateIn, v \in Versions : SrcEdge(upd, v)
        \/ \E acc \in AcceptIn : DstEdge(acc)
        \/ \E upd \in UpdateIn, v \in Versions, acc \in AcceptIn :
             BothEdges(upd, v, acc)
    BY DEF CdcNext, AssertSrcReset, AssertDstReset, ReleaseSrcReset,
           ReleaseDstReset, Clean, Domains, cdcVars
  <2> QED
    BY <2>1 DEF SrcEdge, DstEdge, BothEdges, Clocked, Clean
<1>2. ResetInv'
  BY ResetStep
<1> QED
  BY <1>1, <1>2 DEF ResetInv, Clean, Domains, resetVars, TypeOK, FlagsOK

\* A cleared pair of domains satisfies the handshake invariants.
LEMMA ClearedInv ==
  ASSUME SrcCleared, DstCleared PROVE RingInv /\ OrderInv
<1>1. RingInv
  BY DEF SrcCleared, DstCleared, RingInv
<1>2. OrderInv
  BY DEF SrcCleared, DstCleared, OrderInv, Held, RESET_VALUE
<1> QED
  BY <1>1, <1>2

\* What a clock edge does to one side outside the transition of a reset: it
\* runs, or it is held cleared.
LEMMA SrcMoves ==
  ASSUME CdcInv, Clean, NEW upd, NEW v, NEW ack, SrcClk(upd, v, ack)
  PROVE  SrcRun(upd, v, ack) \/ UNCHANGED srcVars
BY DEF CdcInv, ResetInv, Clean, Domains, SrcClk, SrcReset, SrcCleared, srcVars

\* The same for the destination.
LEMMA DstMoves ==
  ASSUME CdcInv, Clean, NEW acc, NEW sample, NEW req, DstClk(acc, sample, req)
  PROVE  DstRun(acc, sample, req) \/ UNCHANGED dstVars
BY DEF CdcInv, ResetInv, Clean, Domains, DstClk, DstReset, DstCleared, dstVars

\* The key fact: while the destination is sampling the payload, the source
\* cannot replace it.
LEMMA SampleIsStable ==
  ASSUME FlagsOK, RingInv, dst_req_event PROVE ~src_can_send
BY DEF FlagsOK, RingInv, dst_req_event, src_can_send, src_ack_event

\* A source edge alone preserves the handshake invariants.
LEMMA SrcRunStep ==
  ASSUME TypeOK, RingInv, OrderInv, NEW upd \in BOOLEAN, NEW v \in Versions,
         SrcRun(upd, v, dst_ack_tgl), UNCHANGED dstVars
  PROVE  RingInv' /\ OrderInv'
<1>1. RingInv'
  BY DEF TypeOK, FlagsOK, RingInv, SrcRun, keeps_pending, dstVars, src_can_send,
         src_ack_event
<1>2. OrderInv'
  BY DEF TypeOK, FlagsOK, DataOK, RingInv, OrderInv, Held, SrcRun, keeps_pending, dstVars,
         src_can_send, src_ack_event, Versions
<1> QED
  BY <1>1, <1>2

\* A destination edge alone preserves the handshake invariants.
LEMMA DstRunStep ==
  ASSUME TypeOK, RingInv, OrderInv, NEW acc \in BOOLEAN,
         DstRun(acc, src_send_data, src_req_tgl), UNCHANGED srcVars
  PROVE  RingInv' /\ OrderInv'
<1>1. RingInv'
  BY DEF TypeOK, FlagsOK, RingInv, DstRun, parks, srcVars, dst_req_event
<1>2. OrderInv'
  BY DEF TypeOK, FlagsOK, DataOK, RingInv, OrderInv, Held, DstRun, parks, srcVars,
         dst_req_event
<1> QED
  BY <1>1, <1>2

\* Simultaneous edges preserve the handshake invariants, whichever way the
\* first synchronizer flops settle.
LEMMA BothRunStep ==
  ASSUME TypeOK, RingInv, OrderInv, NEW upd \in BOOLEAN, NEW v \in Versions,
         NEW acc \in BOOLEAN, NEW sample, NEW ack \in BOOLEAN,
         NEW req \in BOOLEAN,
         src_send_data' = src_send_data => sample = src_send_data,
         SrcRun(upd, v, ack), DstRun(acc, sample, req),
         ack \in {dst_ack_tgl, dst_ack_tgl'},
         req \in {src_req_tgl, src_req_tgl'}
  PROVE  RingInv' /\ OrderInv'
<1>1. RingInv'
  BY ZenonT(60) DEF TypeOK, FlagsOK, RingInv, SrcRun, keeps_pending, DstRun, parks, src_can_send,
         src_ack_event, dst_req_event
<1>2. dst_req_event => sample = src_send_data
  BY SampleIsStable DEF TypeOK, SrcRun
<1>3. OrderInv'
  BY <1>2 DEF TypeOK, FlagsOK, DataOK, RingInv, OrderInv, Held, SrcRun, keeps_pending,
         DstRun, parks, src_can_send, src_ack_event, dst_req_event, Versions
<1> QED
  BY <1>1, <1>3

\* Outside a reset every step preserves the handshake invariants.
LEMMA HandshakeStep ==
  ASSUME CdcInv, [CdcNext]_cdcVars, Clean PROVE RingInv' /\ OrderInv'
<1> USE UpdateInAssumption, AcceptInAssumption
<1>0. TypeOK /\ RingInv /\ OrderInv
  BY DEF CdcInv
<1>1. ASSUME UNCHANGED srcVars, UNCHANGED dstVars
      PROVE  RingInv' /\ OrderInv'
  BY <1>0, <1>1 DEF RingInv, OrderInv, Held, srcVars, dstVars
<1>2. ASSUME NEW upd \in UpdateIn, NEW v \in Versions, SrcEdge(upd, v)
      PROVE  RingInv' /\ OrderInv'
  <2>1. SrcClk(upd, v, dst_ack_tgl) /\ UNCHANGED dstVars
    BY <1>2 DEF SrcEdge
  <2>2. SrcRun(upd, v, dst_ack_tgl) \/ UNCHANGED srcVars
    BY <2>1, SrcMoves
  <2> QED
    BY <1>0, <1>1, <2>1, <2>2, SrcRunStep
<1>3. ASSUME NEW acc \in AcceptIn, DstEdge(acc)
      PROVE  RingInv' /\ OrderInv'
  <2>1. DstClk(acc, src_send_data, src_req_tgl) /\ UNCHANGED srcVars
    BY <1>3 DEF DstEdge
  <2>2. DstRun(acc, src_send_data, src_req_tgl) \/ UNCHANGED dstVars
    BY <2>1, DstMoves
  <2> QED
    BY <1>0, <1>1, <2>1, <2>2, DstRunStep
<1>4. ASSUME NEW upd \in UpdateIn, NEW v \in Versions, NEW acc \in AcceptIn,
             BothEdges(upd, v, acc)
      PROVE  RingInv' /\ OrderInv'
  <2> DEFINE sample == IF src_send_data' = src_send_data THEN src_send_data
                                                         ELSE Torn
  <2>1. PICK ack, req \in BOOLEAN :
          /\ SrcClk(upd, v, ack) /\ DstClk(acc, sample, req)
          /\ ack \in {dst_ack_tgl, dst_ack_tgl'}
          /\ req \in {src_req_tgl, src_req_tgl'}
    BY <1>4 DEF BothEdges
  <2>2. SrcRun(upd, v, ack) \/ UNCHANGED srcVars
    BY <2>1, SrcMoves
  <2>3. DstRun(acc, sample, req) \/ UNCHANGED dstVars
    BY <2>1, DstMoves
  <2>4. CASE SrcRun(upd, v, ack) /\ DstRun(acc, sample, req)
    <3>1. src_send_data' = src_send_data => sample = src_send_data
      OBVIOUS
    <3> HIDE DEF sample
    <3> QED
      BY <1>0, <2>1, <2>4, <3>1, BothRunStep
  <2>5. CASE SrcRun(upd, v, ack) /\ UNCHANGED dstVars
    <3>1. ack = dst_ack_tgl
      BY <2>1, <2>5 DEF dstVars
    <3> QED
      BY <1>0, <2>5, <3>1, SrcRunStep
  <2>6. CASE UNCHANGED srcVars /\ DstRun(acc, sample, req)
    <3>1. req = src_req_tgl /\ sample = src_send_data
      BY <2>1, <2>6 DEF srcVars
    <3> HIDE DEF sample
    <3> QED
      BY <1>0, <2>6, <3>1, DstRunStep
  <2> QED
    BY <2>2, <2>3, <2>4, <2>5, <2>6, <1>1
<1>5. CASE \/ AssertSrcReset \/ AssertDstReset
           \/ ReleaseSrcReset \/ ReleaseDstReset \/ UNCHANGED cdcVars
  BY <1>1, <1>5 DEF AssertSrcReset, AssertDstReset, ReleaseSrcReset,
                    ReleaseDstReset, cdcVars
<1> QED
  BY <1>2, <1>3, <1>4, <1>5 DEF CdcNext

\* The inductive invariant holds in every reachable state.
THEOREM CdcInvariance == CdcSpec => []CdcInv
<1>1. (SrcCleared /\ DstCleared => RingInv /\ OrderInv)'
  BY ClearedInv, PTL
<1>2. CdcInv /\ [CdcNext]_cdcVars => CdcInv'
  <2> SUFFICES ASSUME CdcInv, [CdcNext]_cdcVars PROVE CdcInv'
    OBVIOUS
  <2>1. TypeOK' /\ ResetInv'
    BY TypeStep, ResetStep DEF CdcInv
  <2>2. ASSUME Clean' PROVE RingInv' /\ OrderInv'
    <3>1. CASE Clean
      BY <3>1, HandshakeStep
    <3>2. CASE ~Clean
      <4>1. SrcCleared' /\ DstCleared'
        BY <2>2, <3>2, Restarted DEF CdcInv
      <4> QED
        BY <4>1, <1>1
    <3> QED
      BY <3>1, <3>2
  <2> QED
    BY <2>1, <2>2 DEF CdcInv
<1> QED
  BY <1>2, CdcStart, PTL DEF CdcSpec

\* cdc_bus_update, whatever the clock phases, the updates, the back-pressure
\* and the resets: every register keeps its type.
THEOREM CdcTypeCorrect == CdcSpec => []TypeOK
BY CdcInvariance, PTL DEF CdcInv

\* cdc_bus_update: the destination never holds a payload that was changing
\* while it was sampled.
THEOREM NeverTorn == CdcSpec => []Coherent
<1>1. CdcInv => Coherent
  BY DEF CdcInv, Coherent, OrderInv, Torn
<1> QED
  BY <1>1, CdcInvariance, PTL

\* cdc_bus_update: when src_busy is low, the destination holds the newest
\* value the source was asked to send.
THEOREM CdcNothingLost == CdcSpec => []QuiescentIsLatest
<1>1. CdcInv => QuiescentIsLatest
  BY DEF CdcInv, QuiescentIsLatest, TypeOK, FlagsOK, RingInv, OrderInv, Held,
         src_busy
<1> QED
  BY <1>1, CdcInvariance, PTL

\* Outside a reset the source's input advances by at most one version and the
\* destination's output never passes what was offered before the step.
LEMMA TransferStep ==
  ASSUME CdcInv, [CdcNext]_cdcVars, Clean
  PROVE  /\ newest' \in newest .. (newest + 1)
         /\ dst_data' \in dst_data .. newest
<1> USE UpdateInAssumption, AcceptInAssumption DEF DataOK
<1>0. TypeOK /\ RingInv /\ OrderInv /\ DataOK
  BY DEF CdcInv, TypeOK
<1>1. ASSUME NEW upd \in UpdateIn, NEW v \in Versions, NEW ack,
             SrcClk(upd, v, ack)
      PROVE  newest' \in newest .. (newest + 1)
  <2>1. SrcRun(upd, v, ack) \/ UNCHANGED srcVars
    BY <1>1, SrcMoves
  <2> QED
    BY <1>0, <2>1 DEF SrcRun, keeps_pending, Versions, srcVars
<1>2. ASSUME NEW acc \in AcceptIn, NEW sample, NEW req,
             dst_req_event => sample = src_send_data,
             DstClk(acc, sample, req)
      PROVE  dst_data' \in dst_data .. newest
  <2>1. DstRun(acc, sample, req) \/ UNCHANGED dstVars
    BY <1>2, DstMoves
  <2> QED
    BY <1>0, <1>2, <2>1 DEF DstRun, parks, OrderInv, Held, dstVars, Torn
<1>3. ASSUME UNCHANGED newest PROVE newest' \in newest .. (newest + 1)
  BY <1>0, <1>3
<1>4. ASSUME UNCHANGED dst_data PROVE dst_data' \in dst_data .. newest
  BY <1>0, <1>4 DEF OrderInv, Held, Torn
<1>5. ASSUME NEW upd \in UpdateIn, NEW v \in Versions, SrcEdge(upd, v)
      PROVE  /\ newest' \in newest .. (newest + 1)
             /\ dst_data' \in dst_data .. newest
  BY <1>5, <1>1, <1>4 DEF SrcEdge, dstVars
<1>6. ASSUME NEW acc \in AcceptIn, DstEdge(acc)
      PROVE  /\ newest' \in newest .. (newest + 1)
             /\ dst_data' \in dst_data .. newest
  BY <1>6, <1>2, <1>3 DEF DstEdge, srcVars
<1>7. ASSUME NEW upd \in UpdateIn, NEW v \in Versions, NEW acc \in AcceptIn,
             BothEdges(upd, v, acc)
      PROVE  /\ newest' \in newest .. (newest + 1)
             /\ dst_data' \in dst_data .. newest
  <2> DEFINE sample == IF src_send_data' = src_send_data THEN src_send_data
                                                         ELSE Torn
  <2>1. PICK ack, req \in BOOLEAN :
          SrcClk(upd, v, ack) /\ DstClk(acc, sample, req)
    BY <1>7 DEF BothEdges
  <2>2. dst_req_event => src_send_data' = src_send_data
    <3>1. SrcRun(upd, v, ack) \/ UNCHANGED srcVars
      BY <2>1, SrcMoves
    <3> QED
      BY <1>0, <3>1, SampleIsStable DEF TypeOK, SrcRun, keeps_pending, srcVars
  <2>3. dst_req_event => sample = src_send_data
    BY <2>2
  <2> HIDE DEF sample
  <2> QED
    BY <1>1, <1>2, <2>1, <2>3
<1>8. CASE \/ AssertSrcReset \/ AssertDstReset
           \/ ReleaseSrcReset \/ ReleaseDstReset \/ UNCHANGED cdcVars
  BY <1>3, <1>4, <1>8 DEF AssertSrcReset, AssertDstReset, ReleaseSrcReset,
                          ReleaseDstReset, cdcVars, srcVars, dstVars
<1> QED
  BY <1>5, <1>6, <1>7, <1>8 DEF CdcNext

\* cdc_bus_update implements the latest-value crossing: outside a reset the
\* destination register only moves forward through offered versions.
THEOREM CdcRefinement == CdcSpec => ImplementsLatestValue
<1>1. CdcInit => Abstract!Init
  BY DEF CdcInit, Abstract!Init, Clean, Domains, SrcCleared, DstCleared,
         RESET_VALUE
<1>2. CdcInv /\ CdcInv' /\ [CdcNext]_cdcVars => [Abstract!Next]_(Abstract!vars)
  <2> SUFFICES ASSUME CdcInv, CdcInv', [CdcNext]_cdcVars PROVE Abstract!Next
    OBVIOUS
  <2>1. CASE ~Clean'
    BY <2>1 DEF Abstract!Next, Abstract!Down
  <2>2. CASE ~Clean /\ Clean'
    <3>1. newest' = 0 /\ dst_data' = 0
      BY <2>2, Restarted DEF CdcInv, SrcCleared, DstCleared, RESET_VALUE
    <3> QED
      BY <2>2, <3>1 DEF Abstract!Next, Abstract!Restart
  <2>3. CASE Clean /\ Clean'
    <3>1. newest' \in newest .. (newest + 1)
      BY <2>3, TransferStep
    <3>2. dst_data' \in dst_data .. newest
      BY <2>3, TransferStep
    <3> QED
      BY <2>3, <3>1, <3>2 DEF Abstract!Next, Abstract!Transfer
  <2> QED
    BY <2>1, <2>2, <2>3
<1> QED
  BY <1>1, <1>2, CdcInvariance, PTL DEF CdcSpec, ImplementsLatestValue, Abstract!Spec
=============================================================================
