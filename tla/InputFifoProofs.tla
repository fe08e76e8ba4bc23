-------------------------- MODULE InputFifoProofs --------------------------
(***************************************************************************)
(* Facts about one posedge of clk in input_fifo.sv, for every FIFO size,   *)
(* memory size and element: the types are kept, and the almost_full gates  *)
(* keep every write out of a full FIFO.  The modules that drive the input  *)
(* FIFO cite the lemmas at the end.                                        *)
(***************************************************************************)
EXTENDS InputFifo, DataInduction

\* While a replay runs, its index stays inside the replayed length.
ReplayInRange == active => length >= 1 /\ replay_i < length

\* A FIFO is never filled past its almost_full level.
BelowAlmostFull ==
  /\ Len(fifo1) <= LENGTH1 - almost_shift
  /\ Len(fifo2) <= LENGTH2 - almost_shift

\* What one posedge of clk preserves.
InputFifoInv ==
  InputFifoTypeOK /\ ReplayInRange /\ BelowAlmostFull /\ InputNeverOverflows
-----------------------------------------------------------------------------
\* The all-zero element is an element.
LEMMA BlankIsElement == Blank \in Element
<1>1. 0 \in Positions
  BY MemoryAssumption DEF Positions
<1>2. {} \in Word /\ {} \in SUBSET ControlBits
  BY DEF Word
<1>3. "LOAD" \in BitOps
  BY DEF BitOps
<1> QED
  BY <1>1, <1>2, <1>3 DEF Blank, Regular, Element

\* A statistics counter stays within its width.
LEMMA BumpType ==
  ASSUME NEW ctr \in Stat, NEW cond \in BOOLEAN
  PROVE  Bump(ctr, cond) \in Stat
<1> DEFINE M == 2^WIDTH_STAT
<1>1. M \in Nat /\ M > 0
  BY StatAssumption
<1>2. ctr \in Nat /\ ctr < M
  BY <1>1 DEF Stat
<1> HIDE DEF M
<1>3. (ctr + 1) % M \in 0 .. (M - 1)
  BY <1>1, <1>2, Z3
<1> QED
  BY <1>3 DEF Bump, Stat, M
-----------------------------------------------------------------------------
\* The next word of an scfifo whose write is gated below its size.
LEMMA ScNextBound ==
  ASSUME NEW fifo \in Seq(Element), NEW size \in Nat, NEW wr \in BOOLEAN,
         NEW w \in Element, NEW rd \in BOOLEAN, NEW level \in Nat,
         level <= size, Len(fifo) <= level, wr => Len(fifo) < level
  PROVE  /\ ScNext(fifo, size, wr, w, rd) \in Seq(Element)
         /\ Len(ScNext(fifo, size, wr, w, rd)) <= level
<1> DEFINE rest == IF rd /\ fifo # <<>> THEN Tail(fifo) ELSE fifo
<1>1. rest \in Seq(Element) /\ Len(rest) <= Len(fifo)
  OBVIOUS
<1>2. Len(Append(rest, w)) = Len(rest) + 1 /\ Append(rest, w) \in Seq(Element)
  BY <1>1
<1> HIDE DEF rest
<1>3. CASE wr
  BY <1>1, <1>2, <1>3 DEF ScNext, rest
<1>4. CASE ~wr
  BY <1>1, <1>4 DEF ScNext, rest
<1> QED
  BY <1>3, <1>4
-----------------------------------------------------------------------------
\* The preprocessor's registers keep their types, and a running replay stays
\* inside its length.
LEMMA PreprocStep ==
  ASSUME PreprocTypeOK, ReplayInRange, NEW rst \in BOOLEAN,
         NEW din \in Element, NEW din_valid \in BOOLEAN,
         NEW dout_ready \in BOOLEAN,
         PreprocTick(rst, din, din_valid, dout_ready)
  PROVE  PreprocTypeOK' /\ ReplayInRange'
<1> DEFINE fire == in_fire(din, din_valid, dout_ready)
<1>1. MEMORY_POSITIONS \in Nat \ {0} /\ 0 \in Positions
  BY MemoryAssumption DEF Positions
<1>2. CASE PreprocReset
  <2>1. /\ memory' \in [Positions -> Element]
        /\ memory_valid' \in SUBSET Positions
        /\ dout_replay_reg' \in Element
    BY <1>2, BlankIsElement DEF PreprocReset, PreprocTypeOK
  <2>2. /\ length' \in 0 .. MEMORY_POSITIONS /\ repetitions' \in Nat
        /\ replay_i' \in Positions /\ replay_j' \in Nat
    BY <1>1, <1>2 DEF PreprocReset
  <2>3. active' = FALSE /\ infinite' = FALSE
    BY <1>2 DEF PreprocReset
  <2> QED
    BY <2>1, <2>2, <2>3 DEF PreprocTypeOK, ReplayInRange
<1>3. CASE AdvanceReplay /\ active
  <2> USE <1>3 DEF AdvanceReplay, PreprocTypeOK, ReplayInRange
  <2>1. length \in 1 .. MEMORY_POSITIONS /\ replay_i \in 0 .. (length - 1)
    BY <1>1 DEF Positions
  <2>2. CASE last_elem
    BY <1>1, <2>1, <2>2
  <2>3. CASE ~last_elem
    <3>1. replay_i + 1 < length /\ replay_i + 1 \in Positions
      BY <1>1, <2>1, <2>3 DEF last_elem, Positions
    <3> QED
      BY <1>1, <2>3, <3>1
  <2> QED
    BY <2>2, <2>3
<1>4. CASE Store(din)
  <2>1. din.pos \in Positions
    BY DEF Element
  <2> QED
    BY <1>4, <2>1 DEF Store, PreprocTypeOK, ReplayInRange
<1>5. CASE StartReplay(din)
  <2>1. ReqLenValid(din) => ReqLen(din) \in 1 .. MEMORY_POSITIONS
    BY DEF ReqLenValid
  <2>2. din.cnt \in Nat /\ memory[0] \in Element /\ ReqLenValid(din) \in BOOLEAN
    BY <1>1 DEF Element, PreprocTypeOK, ReqLenValid
  <2>3. PreprocTypeOK'
    BY <1>1, <1>5, <2>1, <2>2 DEF StartReplay, PreprocTypeOK
  <2>4. ReplayInRange'
    BY <1>1, <1>5, <2>1, <2>2 DEF StartReplay, ReplayInRange
  <2> QED
    BY <2>3, <2>4
<1>6. CASE UNCHANGED preprocVars
  BY <1>6 DEF preprocVars, PreprocTypeOK, ReplayInRange
<1>7. \/ PreprocReset
      \/ AdvanceReplay /\ active
      \/ Store(din)
      \/ StartReplay(din)
      \/ UNCHANGED preprocVars
  BY DEF PreprocTick, replay_fire
<1> QED
  BY <1>2, <1>3, <1>4, <1>5, <1>6, <1>7
-----------------------------------------------------------------------------
\* The words and handshakes between the FIFOs are well typed, and a write is
\* requested only below the almost_full level.
LEMMA InputSignals ==
  ASSUME InputFifoInv, NEW wrreq \in BOOLEAN
  PROVE  /\ q1 \in Element /\ q_i \in Element /\ dout(q1) \in Element
         /\ rdempty1 \in BOOLEAN /\ almost_full2 \in BOOLEAN
         /\ rdreq1 \in BOOLEAN
         /\ wrreq1(wrreq) \in BOOLEAN /\ wrreq2 \in BOOLEAN
         /\ wrreq1(wrreq) => Len(fifo1) < LENGTH1 - almost_shift
         /\ wrreq2 => Len(fifo2) < LENGTH2 - almost_shift
<1>1. q1 \in Element /\ q_i \in Element
  BY BlankIsElement DEF InputFifoInv, InputFifoTypeOK, q1, q_i, rdempty1,
     empty_i
<1>2. dout(q1) \in Element
  BY <1>1 DEF InputFifoInv, InputFifoTypeOK, PreprocTypeOK, dout
<1>3. /\ rdempty1 \in BOOLEAN /\ almost_full2 \in BOOLEAN /\ rdreq1 \in BOOLEAN
      /\ wrreq1(wrreq) \in BOOLEAN /\ wrreq2 \in BOOLEAN
  BY DEF rdempty1, almost_full2, rdreq1, din_ready, wrreq1, wrreq2
<1>4. wrreq1(wrreq) => Len(fifo1) < LENGTH1 - almost_shift
  BY InputFifoAssumption
     DEF InputFifoInv, InputFifoTypeOK, wrreq1, almost_full1
<1>5. wrreq2 => Len(fifo2) < LENGTH2 - almost_shift
  BY InputFifoAssumption
     DEF InputFifoInv, InputFifoTypeOK, wrreq2, almost_full2
<1> QED
  BY <1>1, <1>2, <1>3, <1>4, <1>5

\* Power-up establishes the invariant.
LEMMA InputFifoStart ==
  ASSUME InputFifoInit
  PROVE  InputFifoInv
<1>1. fifo1 \in Seq(Element) /\ fifo2 \in Seq(Element)
  BY DEF InputFifoInit
<1>2. Len(fifo1) = 0 /\ Len(fifo2) = 0
  BY DEF InputFifoInit
<1>3. BelowAlmostFull /\ Len(fifo1) <= LENGTH1 /\ Len(fifo2) <= LENGTH2
  BY <1>2, InputFifoAssumption DEF BelowAlmostFull
<1>4. /\ ctr1_in \in Stat /\ ctr1_out \in Stat
      /\ ctr2_in \in Stat /\ ctr2_out \in Stat
  BY StatAssumption DEF InputFifoInit, Stat
<1>5. overflow_in = FALSE /\ overflow_out = FALSE
  BY DEF InputFifoInit
<1>6. active = FALSE /\ infinite = FALSE /\ memory_valid = {}
  BY DEF InputFifoInit, PreprocInit
<1>7. /\ length \in 0 .. MEMORY_POSITIONS /\ repetitions \in Nat
      /\ replay_i \in Positions /\ replay_j \in Nat
  BY MemoryAssumption DEF InputFifoInit, PreprocInit, Positions
<1>8. memory \in [Positions -> Element] /\ dout_replay_reg \in Element
  BY BlankIsElement DEF InputFifoInit, PreprocInit
<1>9. PreprocTypeOK
  BY <1>6, <1>7, <1>8 DEF PreprocTypeOK
<1>10. InputFifoTypeOK
  BY <1>1, <1>3, <1>4, <1>5, <1>9 DEF InputFifoTypeOK
<1> QED
  BY <1>3, <1>5, <1>6, <1>10
     DEF InputFifoInv, ReplayInRange, InputNeverOverflows

\* One posedge of clk preserves the invariant, whatever the source and the
\* streamer do.
LEMMA InputFifoStep ==
  ASSUME InputFifoInv, NEW rst \in BOOLEAN, NEW data \in Element,
         NEW wrreq \in BOOLEAN, NEW rdreq \in BOOLEAN,
         InputFifoTick(rst, data, wrreq, rdreq)
  PROVE  InputFifoInv'
<1>1. PreprocTypeOK' /\ ReplayInRange'
  <2>1. PreprocTick(rst, q1, ~rdempty1, ~almost_full2)
    BY DEF InputFifoTick
  <2>2. PreprocTypeOK /\ ReplayInRange
    BY DEF InputFifoInv, InputFifoTypeOK
  <2> QED
    BY <2>1, <2>2, InputSignals, PreprocStep
<1>2. CASE rst
  <2>1. /\ fifo1' = <<>> /\ fifo2' = <<>>
        /\ ctr1_in' = 0 /\ ctr1_out' = 0 /\ ctr2_in' = 0 /\ ctr2_out' = 0
        /\ overflow_in' = FALSE /\ overflow_out' = FALSE
    BY <1>2 DEF InputFifoTick
  <2>2. /\ fifo1' \in Seq(Element) /\ fifo2' \in Seq(Element)
        /\ Len(fifo1') = 0 /\ Len(fifo2') = 0
    BY <2>1
  <2>3. /\ Len(fifo1') <= LENGTH1 - almost_shift /\ Len(fifo1') <= LENGTH1
        /\ Len(fifo2') <= LENGTH2 - almost_shift /\ Len(fifo2') <= LENGTH2
    BY <2>2, InputFifoAssumption
  <2>4. 0 \in Stat
    BY StatAssumption DEF Stat
  <2> QED
    BY <1>1, <2>1, <2>2, <2>3, <2>4
       DEF InputFifoInv, InputFifoTypeOK, BelowAlmostFull,
           InputNeverOverflows
<1>3. CASE ~rst
  <2>0. /\ fifo1' = ScNext(fifo1, LENGTH1, wrreq1(wrreq), data, rdreq1)
        /\ fifo2' = ScNext(fifo2, LENGTH2, wrreq2, dout(q1), rdreq)
        /\ ctr1_in' = Bump(ctr1_in, wrreq1(wrreq))
        /\ ctr1_out' = Bump(ctr1_out, rdreq1 /\ ~rdempty1)
        /\ ctr2_in' = Bump(ctr2_in, wrreq2)
        /\ ctr2_out' = Bump(ctr2_out, rdreq /\ ~empty_i)
        /\ overflow_in' = (overflow_in \/ (wrreq1(wrreq) /\ full1))
        /\ overflow_out' = (overflow_out \/ (wrreq2 /\ full2))
    BY <1>3 DEF InputFifoTick
  <2>1. /\ fifo1 \in Seq(Element) /\ fifo2 \in Seq(Element)
        /\ Len(fifo1) <= LENGTH1 - almost_shift
        /\ Len(fifo2) <= LENGTH2 - almost_shift
        /\ ctr1_in \in Stat /\ ctr1_out \in Stat
        /\ ctr2_in \in Stat /\ ctr2_out \in Stat
    BY DEF InputFifoInv, InputFifoTypeOK, BelowAlmostFull
  <2>2. /\ LENGTH1 \in Nat /\ LENGTH2 \in Nat
        /\ LENGTH1 - almost_shift \in Nat /\ LENGTH2 - almost_shift \in Nat
        /\ LENGTH1 - almost_shift <= LENGTH1
        /\ LENGTH2 - almost_shift <= LENGTH2
    BY InputFifoAssumption
  <2>3. fifo1' \in Seq(Element) /\ Len(fifo1') <= LENGTH1 - almost_shift
    BY <2>0, <2>1, <2>2, InputSignals, ScNextBound
  <2>4. fifo2' \in Seq(Element) /\ Len(fifo2') <= LENGTH2 - almost_shift
    BY <2>0, <2>1, <2>2, InputSignals, ScNextBound
  <2>5. /\ ctr1_in' \in Stat /\ ctr1_out' \in Stat
        /\ ctr2_in' \in Stat /\ ctr2_out' \in Stat
    <3>1. (rdreq1 /\ ~rdempty1) \in BOOLEAN /\ (rdreq /\ ~empty_i) \in BOOLEAN
      OBVIOUS
    <3> QED
      BY <2>0, <2>1, <3>1, InputSignals, BumpType
  <2>6. ~(wrreq1(wrreq) /\ full1) /\ ~(wrreq2 /\ full2)
    BY <2>1, <2>2, InputSignals DEF full1, full2
  <2>7. overflow_in' = FALSE /\ overflow_out' = FALSE
    BY <2>0, <2>6 DEF InputFifoInv, InputNeverOverflows
  <2>8. Len(fifo1') <= LENGTH1 /\ Len(fifo2') <= LENGTH2
    BY <2>2, <2>3, <2>4
  <2> QED
    BY <1>1, <2>3, <2>4, <2>5, <2>7, <2>8
       DEF InputFifoInv, InputFifoTypeOK, BelowAlmostFull,
           InputNeverOverflows
<1> QED
  BY <1>2, <1>3
-----------------------------------------------------------------------------
\* How many words an scfifo holds next.
LEMMA ScNextLen ==
  ASSUME NEW fifo \in Seq(Element), NEW w \in Element,
         NEW up \in {0, 1}, NEW down \in {0, 1}, down = 1 => fifo # <<>>,
         NEW rest, rest = IF down = 1 THEN Tail(fifo) ELSE fifo,
         NEW next, next = IF up = 1 THEN Append(rest, w) ELSE rest
  PROVE  Len(next) = Len(fifo) + up - down
<1>2. /\ rest \in Seq(Element) /\ Len(rest) = Len(fifo) - down
  <2>1. CASE down = 1
    <3>1. rest = Tail(fifo) /\ fifo # <<>>
      BY <2>1
    <3> QED
      BY <2>1, <3>1, HeadTailProperties
  <2>2. CASE down = 0
    <3>1. rest = fifo
      BY <2>2
    <3> QED
      BY <2>2, <3>1
  <2> QED
    BY <2>1, <2>2
<1>3. CASE up = 1
  <2>1. next = Append(rest, w)
    BY <1>3
  <2>2. Len(Append(rest, w)) = Len(rest) + 1
    BY <1>2
  <2>3. Len(rest) \in Nat /\ Len(fifo) \in Nat
    BY <1>2
  <2> QED
    BY <1>2, <1>3, <2>1, <2>2, <2>3
<1>4. CASE up = 0
  <2>1. next = rest
    BY <1>4
  <2>2. Len(rest) \in Nat /\ Len(fifo) \in Nat
    BY <1>2
  <2> QED
    BY <1>2, <1>4, <2>1, <2>2
<1> QED
  BY <1>3, <1>4

\* The statistics counters keep accounting for every element.
LEMMA CountersStep ==
  ASSUME InputFifoInv, CountersConserve, NEW rst \in BOOLEAN, NEW data \in Element,
         NEW wrreq \in BOOLEAN, NEW rdreq \in BOOLEAN,
         InputFifoTick(rst, data, wrreq, rdreq)
  PROVE  CountersConserve'
<1>1. CASE rst
  <2>1. /\ fifo1' = <<>> /\ fifo2' = <<>>
        /\ ctr1_in' = 0 /\ ctr1_out' = 0 /\ ctr2_in' = 0 /\ ctr2_out' = 0
    BY <1>1 DEF InputFifoTick
  <2>2. Len(<<>>) = 0 /\ 0 - 0 = 0
    OBVIOUS
  <2> QED
    BY <2>1, <2>2 DEF CountersConserve
<1>2. CASE ~rst
  <2>0. /\ fifo1' = ScNext(fifo1, LENGTH1, wrreq1(wrreq), data, rdreq1)
        /\ fifo2' = ScNext(fifo2, LENGTH2, wrreq2, dout(q1), rdreq)
        /\ ctr1_in' = Bump(ctr1_in, wrreq1(wrreq))
        /\ ctr1_out' = Bump(ctr1_out, rdreq1 /\ ~rdempty1)
        /\ ctr2_in' = Bump(ctr2_in, wrreq2)
        /\ ctr2_out' = Bump(ctr2_out, rdreq /\ ~empty_i)
    BY <1>2 DEF InputFifoTick
  <2>1. /\ fifo1 \in Seq(Element) /\ fifo2 \in Seq(Element)
        /\ ctr1_in \in Stat /\ ctr1_out \in Stat
        /\ ctr2_in \in Stat /\ ctr2_out \in Stat
        /\ LENGTH1 \in Nat /\ LENGTH2 \in Nat
    BY InputFifoAssumption DEF InputFifoInv, InputFifoTypeOK
  <2>2. /\ wrreq1(wrreq) => Len(fifo1) < LENGTH1
        /\ wrreq2 => Len(fifo2) < LENGTH2
    <3>1. /\ wrreq1(wrreq) => Len(fifo1) < LENGTH1 - almost_shift
          /\ wrreq2 => Len(fifo2) < LENGTH2 - almost_shift
      BY InputSignals
    <3>2. /\ LENGTH1 \in Nat /\ LENGTH2 \in Nat /\ almost_shift \in Nat
          /\ Len(fifo1) \in Nat /\ Len(fifo2) \in Nat
      BY <2>1, InputFifoAssumption
    <3> QED
      BY <3>1, <3>2
  <2>3. PICK down1 \in {0, 1}, down2 \in {0, 1}, up1 \in {0, 1}, up2 \in {0, 1} :
          /\ (rdreq1 /\ ~rdempty1) <=> down1 = 1
          /\ (rdreq /\ ~empty_i) <=> down2 = 1
          /\ wrreq1(wrreq) <=> up1 = 1
          /\ wrreq2 <=> up2 = 1
    OBVIOUS
  <2>4. dout(q1) \in Element
    BY InputSignals
  <2>5. PICK M \in Nat \ {0} :
          /\ M = 2^WIDTH_STAT
          /\ ctr1_in \in 0 .. (M - 1) /\ ctr1_out \in 0 .. (M - 1)
          /\ ctr2_in \in 0 .. (M - 1) /\ ctr2_out \in 0 .. (M - 1)
          /\ ctr1_in' = Wrapped(M, ctr1_in, up1) /\ ctr1_out' = Wrapped(M, ctr1_out, down1)
          /\ ctr2_in' = Wrapped(M, ctr2_in, up2) /\ ctr2_out' = Wrapped(M, ctr2_out, down2)
    BY <2>0, <2>1, <2>3, StatAssumption DEF Bump, Wrapped, Stat
  <2>6. (ctr1_in' - ctr1_out') % 2^WIDTH_STAT = Len(fifo1') % 2^WIDTH_STAT
    <3>1. Len(fifo1') = Len(fifo1) + up1 - down1
      <4>1. PICK rest : rest = IF down1 = 1 THEN Tail(fifo1) ELSE fifo1
        OBVIOUS
      <4>2. fifo1' = IF up1 = 1 THEN Append(rest, data) ELSE rest
        BY <2>0, <2>2, <2>3, <4>1 DEF ScNext, rdempty1
      <4>3. down1 = 1 => fifo1 # <<>>
        BY <2>3 DEF rdempty1
      <4> QED
        BY <2>1, <2>4, <4>1, <4>2, <4>3, ScNextLen
    <3>2. Tells(M, ctr1_in, ctr1_out, Len(fifo1)) /\ Len(fifo1) \in Int
      BY <2>1, <2>5 DEF CountersConserve, Tells
    <3>3. Tells(M, Wrapped(M, ctr1_in, up1), Wrapped(M, ctr1_out, down1), Len(fifo1'))
      BY <2>5, <3>1, <3>2, CountersTell
    <3> QED
      BY <2>5, <3>3 DEF Tells
  <2>7. (ctr2_in' - ctr2_out') % 2^WIDTH_STAT = Len(fifo2') % 2^WIDTH_STAT
    <3>1. Len(fifo2') = Len(fifo2) + up2 - down2
      <4>1. PICK rest : rest = IF down2 = 1 THEN Tail(fifo2) ELSE fifo2
        OBVIOUS
      <4>2. fifo2' = IF up2 = 1 THEN Append(rest, dout(q1)) ELSE rest
        BY <2>0, <2>2, <2>3, <4>1 DEF ScNext, empty_i
      <4>3. down2 = 1 => fifo2 # <<>>
        BY <2>3 DEF empty_i
      <4> QED
        BY <2>1, <2>4, <4>1, <4>2, <4>3, ScNextLen
    <3>2. Tells(M, ctr2_in, ctr2_out, Len(fifo2)) /\ Len(fifo2) \in Int
      BY <2>1, <2>5 DEF CountersConserve, Tells
    <3>3. Tells(M, Wrapped(M, ctr2_in, up2), Wrapped(M, ctr2_out, down2), Len(fifo2'))
      BY <2>5, <3>1, <3>2, CountersTell
    <3> QED
      BY <2>5, <3>3 DEF Tells
  <2> QED
    BY <2>6, <2>7 DEF CountersConserve
<1> QED
  BY <1>1, <1>2
-----------------------------------------------------------------------------
(***************************************************************************)
(* The meaning of a program, as the preprocessor computes it.              *)
(***************************************************************************)
\* What the meaning of a program is computed from.
Unrollings ==
  [mem : [Positions -> Element], out : Seq(Element), endless : BOOLEAN]

\* Copies of a list of elements.
LEMMA RepeatedIs ==
  ASSUME NEW s \in Seq(Element), NEW n \in Nat
  PROVE  /\ Repeated(s, n) \in Seq(Element) /\ Repeated(s, 0) = <<>>
         /\ Repeated(s, n + 1) = Repeated(s, n) \o s
BY FlattenRepeated DEF Repeated

\* A replay goes round the first slots of the memory.
LEMMA RoundIs ==
  ASSUME NEW m \in [Positions -> Element], NEW e, ReqLenValid(e)
  PROVE  /\ ReplayRound(m, e) \in Seq(Element)
         /\ Len(ReplayRound(m, e)) = ReqLen(e) /\ ReqLen(e) \in Nat \ {0}
         /\ ReplayRound(m, e) # <<>>
         /\ \A i \in 1 .. ReqLen(e) : ReplayRound(m, e)[i] = m[i - 1]
<1> DEFINE n == ReqLen(e)
<1>1. n \in 1 .. MEMORY_POSITIONS /\ MEMORY_POSITIONS \in Nat
  BY MemoryAssumption DEF ReqLenValid
<1> HIDE DEF n
<1>2. n \in Nat \ {0} /\ \A i \in 1 .. n : i - 1 \in Positions
  BY <1>1 DEF Positions
<1>3. \A i \in 1 .. n : m[i - 1] \in Element
  BY <1>2
<1> DEFINE r == [k \in 1 .. n |-> m[k - 1]]
<1>4. r \in Seq(Element) /\ Len(r) = n /\ \A i \in 1 .. n : r[i] = m[i - 1]
  BY <1>2, <1>3
<1>5. ReplayRound(m, e) = r
  BY DEF ReplayRound, n
<1> HIDE DEF r
<1>6. r # <<>>
  BY <1>2, <1>4
<1> QED
  BY <1>2, <1>4, <1>5, <1>6 DEF n

\* One element's part in the meaning of a program.
LEMMA UnrollStepIs ==
  ASSUME NEW st \in Unrollings, NEW e \in Element, NEW h \in Nat
  PROVE  LET u == UnrollStep(st, e, h)
             r == Repeated(ReplayRound(st.mem, e), IF e.cnt = 0 THEN h ELSE e.cnt)
         IN  /\ u \in Unrollings
             /\ ~st.endless /\ ~Is(e, "NOPASS") =>
                  u.mem = st.mem /\ u.out = Append(st.out, e) /\ ~u.endless
             /\ ~st.endless /\ Stores(e) =>
                  u.mem = [st.mem EXCEPT ![e.pos] = e] /\ u.out = st.out /\ ~u.endless
             /\ ~st.endless /\ Replays(e) /\ ReqLenValid(e) =>
                  u.mem = st.mem /\ u.out = st.out \o r /\ u.endless = (e.cnt = 0)
             /\ ~st.endless /\ Is(e, "NOPASS") /\ ~Stores(e)
                  /\ ~(Replays(e) /\ ReqLenValid(e)) => u = st
             /\ st.endless => u = st
<1> DEFINE u == UnrollStep(st, e, h)
           r == Repeated(ReplayRound(st.mem, e), IF e.cnt = 0 THEN h ELSE e.cnt)
<1>0. /\ st.mem \in [Positions -> Element] /\ st.out \in Seq(Element)
      /\ st.endless \in BOOLEAN /\ e.pos \in Positions /\ e.cnt \in Nat
  BY DEF Unrollings, Element
<1>1. CASE st.endless
  BY <1>1 DEF UnrollStep
<1>2. CASE ~st.endless /\ ~Is(e, "NOPASS")
  <2>1. ~Stores(e) /\ ~Replays(e)
    BY <1>2 DEF Stores, Replays
  <2>2. u = [st EXCEPT !.out = Append(@, e)]
    BY <1>2, <2>1 DEF UnrollStep
  <2>3. Append(st.out, e) \in Seq(Element)
    BY <1>0
  <2>4. u \in Unrollings /\ u.mem = st.mem /\ u.out = Append(st.out, e) /\ u.endless = st.endless
    BY <1>0, <2>2, <2>3 DEF Unrollings
  <2> QED
    BY <1>2, <2>1, <2>4
<1>3. CASE ~st.endless /\ Stores(e)
  <2>1. Is(e, "NOPASS") /\ ~Replays(e)
    BY <1>3 DEF Stores, Replays
  <2>2. u = [st EXCEPT !.mem[e.pos] = e]
    BY <1>3, <2>1 DEF UnrollStep
  <2>3. [st.mem EXCEPT ![e.pos] = e] \in [Positions -> Element]
    BY <1>0
  <2>4. u.mem = [st.mem EXCEPT ![e.pos] = e] /\ u.out = st.out /\ u.endless = st.endless
        /\ u \in Unrollings
    BY <1>0, <2>2, <2>3 DEF Unrollings
  <2> QED
    BY <1>3, <2>1, <2>4
<1>4. CASE ~st.endless /\ Replays(e) /\ ReqLenValid(e)
  <2>1. Is(e, "NOPASS") /\ ~Stores(e)
    BY <1>4 DEF Stores, Replays
  <2>2. u = [st EXCEPT !.out = @ \o r, !.endless = (e.cnt = 0)]
    BY <1>4, <2>1 DEF UnrollStep
  <2>3. r \in Seq(Element)
    <3>1. ReplayRound(st.mem, e) \in Seq(Element)
      BY <1>0, <1>4, RoundIs
    <3>2. (IF e.cnt = 0 THEN h ELSE e.cnt) \in Nat
      BY <1>0
    <3> QED
      BY <3>1, <3>2, RepeatedIs
  <2> HIDE DEF r
  <2>4. st.out \o r \in Seq(Element)
    BY <1>0, <2>3
  <2> DEFINE o2 == st.out \o r
  <2>5. o2 \in Seq(Element) /\ u = [st EXCEPT !.out = o2, !.endless = (e.cnt = 0)]
    BY <2>2, <2>4
  <2> HIDE DEF o2, u
  <2>6. u.mem = st.mem /\ u.out = o2 /\ u.endless = (e.cnt = 0) /\ u \in Unrollings
    BY <1>0, <2>5 DEF Unrollings
  <2> QED
    BY <1>4, <2>1, <2>6 DEF o2, u, r
<1>5. CASE ~st.endless /\ Is(e, "NOPASS") /\ ~Stores(e) /\ ~(Replays(e) /\ ReqLenValid(e))
  <2>1. u = st
    BY <1>5 DEF UnrollStep
  <2> QED
    BY <1>5, <2>1
<1> QED
  BY <1>1, <1>2, <1>3, <1>4, <1>5

\* The meaning of a program exists and is computed element by element.
LEMMA UnrollTable ==
  ASSUME NEW p \in Seq(Element), NEW m \in [Positions -> Element], NEW h \in Nat
  PROVE  /\ Unrolling(p, m, h) \in [0 .. Len(p) -> Unrollings]
         /\ Unrolling(p, m, h)[0] = UnrollStart(m)
         /\ \A i \in 1 .. Len(p) :
              Unrolling(p, m, h)[i] = UnrollStep(Unrolling(p, m, h)[i - 1], p[i], h)
<1> DEFINE n == Len(p)
           step == [q \in Unrollings \X (1 .. n) |-> UnrollStep(q[1], p[q[2]], h)]
           Body(f) == [i \in 0 .. n |-> IF i = 0 THEN UnrollStart(m)
                                                 ELSE UnrollStep(f[i - 1], p[i], h)]
           st == CHOOSE f : f = Body(f)
<1>0. n \in Nat /\ \A i \in 1 .. n : p[i] \in Element
  OBVIOUS
<1>1. UnrollStart(m) \in Unrollings
  BY DEF UnrollStart, Unrollings
<1> HIDE DEF n
<1>2. step \in [Unrollings \X (1 .. n) -> Unrollings]
  <2>1. ASSUME NEW q \in Unrollings \X (1 .. n) PROVE UnrollStep(q[1], p[q[2]], h) \in Unrollings
    BY <1>0, UnrollStepIs
  <2> QED
    BY <2>1
<1>3. \A l \in Unrollings, i \in 1 .. n : step[<<l, i>>] = UnrollStep(l, p[i], h)
  OBVIOUS
<1> HIDE DEF step
<1>4. PICK f \in [0 .. n -> Unrollings] : Table(f, UnrollStart(m), step, n)
  BY <1>0, <1>1, <1>2, TableExists
<1>5. f = Body(f)
  <2>1. ASSUME NEW i \in 0 .. n PROVE f[i] = Body(f)[i]
    <3>1. CASE i = 0
      BY <1>4, <3>1 DEF Table
    <3>2. CASE i # 0
      <4>1. i \in 1 .. n /\ i - 1 \in 0 .. n
        BY <1>0, <3>2
      <4> QED
        BY <1>3, <1>4, <3>2, <4>1 DEF Table
    <3> QED
      BY <3>1, <3>2
  <2> QED
    BY <1>4, <2>1
<1>6. st = Body(st)
  BY <1>5
<1>7. Unrolling(p, m, h) = st
  BY DEF Unrolling, n
<1> DEFINE S == {k \in Nat : k <= n => st[k] \in Unrollings}
<1> HIDE DEF st
<1>8. 0 \in S
  BY <1>0, <1>1, <1>6
<1>9. ASSUME NEW k \in Nat, k \in S PROVE k + 1 \in S
  <2> SUFFICES ASSUME k + 1 <= n PROVE st[k + 1] \in Unrollings
    OBVIOUS
  <2>1. k + 1 \in 1 .. n /\ k + 1 \in 0 .. n /\ k + 1 # 0 /\ (k + 1) - 1 = k /\ k <= n
    BY <1>0
  <2>2. st[k + 1] = UnrollStep(st[k], p[k + 1], h)
    BY <1>6, <2>1
  <2> QED
    BY <1>0, <1>9, <2>1, <2>2, UnrollStepIs
<1> HIDE DEF S
<1>10. Nat \subseteq S
  BY <1>8, <1>9, NatInductive
<1>11. \A k \in 0 .. n : st[k] \in Unrollings
  BY <1>0, <1>10 DEF S
<1>12. DOMAIN st = 0 .. n /\ st = [i \in 0 .. n |-> st[i]]
  BY <1>6
<1>13. st \in [0 .. n -> Unrollings]
  BY <1>11, <1>12
<1>14. st[0] = UnrollStart(m) /\ \A i \in 1 .. n : st[i] = UnrollStep(st[i - 1], p[i], h)
  <2>1. 0 \in 0 .. n /\ \A i \in 1 .. n : i \in 0 .. n /\ i # 0
    BY <1>0
  <2> QED
    BY <1>6, <2>1
<1> QED
  BY <1>7, <1>13, <1>14 DEF n
-----------------------------------------------------------------------------
(***************************************************************************)
(* What the path delivers, for a program p of which the first "sent"       *)
(* elements were sent and the first k have reached the preprocessor.       *)
(***************************************************************************)
\* The meaning of the first k elements, with replays cut after h rounds.
Meant(p, h, k) == Unrolling(p, [q \in Positions |-> Blank], h)[k]

\* FIFO 1 holds the elements in between, in order.
QueueHolds(p, sent, k) ==
  /\ sent \in 0 .. Len(p) /\ k \in 0 .. Len(p) /\ sent = k + Len(fifo1)
  /\ \A i \in 1 .. Len(fifo1) : fifo1[i] = p[k + i]

\* A slot is valid when the program stored to it, and then it holds what the
\* program means it to hold.  The others may hold anything.
MemoryHolds(p, h, k) ==
  /\ memory_valid = StoredBy(p, k)
  /\ \A q \in memory_valid : memory[q] = Meant(p, h, k).mem[q]

\* The elements a replay goes round.
Round == [i \in 1 .. length |-> memory[i - 1]]

\* The k-th element is being replayed: r rounds are delivered, and of the next
\* one the elements before replay_i.
ReplayPoint(p, h, k, given) ==
  /\ k \in 1 .. Len(p) /\ Replays(p[k]) /\ ReqLenValid(p[k])
  /\ ~Meant(p, h, k - 1).endless
  /\ length = ReqLen(p[k]) /\ repetitions = p[k].cnt
  /\ infinite = (p[k].cnt = 0)
  /\ dout_replay_reg = memory[replay_i]
  /\ Round = ReplayRound(Meant(p, h, k - 1).mem, p[k])
  /\ \E r \in Nat :
       /\ ~infinite => r = replay_j /\ r < repetitions
       /\ given = (Meant(p, h, k - 1).out \o Repeated(Round, r))
                    \o SubSeq(Round, 1, replay_i)

\* What the preprocessor has given away is what the program means so far.
GivenMeans(p, h, k, given) ==
  /\ active => ReplayPoint(p, h, k, given)
  /\ ~active => given = Meant(p, h, k).out /\ ~Meant(p, h, k).endless
-----------------------------------------------------------------------------

\* The meaning of a program, one element at a time.
LEMMA MeantIs ==
  ASSUME NEW p \in Seq(Element), NEW h \in Nat
  PROVE  /\ \A k \in 0 .. Len(p) : Meant(p, h, k) \in Unrollings
         /\ Meant(p, h, 0) = UnrollStart([q \in Positions |-> Blank])
         /\ \A k \in 0 .. (Len(p) - 1) :
              Meant(p, h, k + 1) = UnrollStep(Meant(p, h, k), p[k + 1], h)
<1> DEFINE m == [q \in Positions |-> Blank]
<1>1. m \in [Positions -> Element]
  BY BlankIsElement
<1> HIDE DEF m
<1>2. /\ Unrolling(p, m, h) \in [0 .. Len(p) -> Unrollings]
      /\ Unrolling(p, m, h)[0] = UnrollStart(m)
      /\ \A i \in 1 .. Len(p) :
           Unrolling(p, m, h)[i] = UnrollStep(Unrolling(p, m, h)[i - 1], p[i], h)
  BY <1>1, UnrollTable
<1>3. \A k : Meant(p, h, k) = Unrolling(p, m, h)[k]
  BY DEF Meant, m
<1>4. Len(p) \in Nat
  OBVIOUS
<1>5. ASSUME NEW k \in 0 .. (Len(p) - 1)
      PROVE  Meant(p, h, k + 1) = UnrollStep(Meant(p, h, k), p[k + 1], h)
  <2>1. k + 1 \in 1 .. Len(p) /\ (k + 1) - 1 = k
    BY <1>4
  <2> QED
    BY <1>2, <1>3, <2>1
<1> QED
  BY <1>2, <1>3, <1>4, <1>5 DEF m

\* The slots stored to, one element at a time.
LEMMA StoredOneMore ==
  ASSUME NEW p \in Seq(Element), NEW k \in 0 .. (Len(p) - 1)
  PROVE  /\ StoredBy(p, 0) = {}
         /\ Stores(p[k + 1]) => StoredBy(p, k + 1) = StoredBy(p, k) \cup {p[k + 1].pos}
         /\ ~Stores(p[k + 1]) => StoredBy(p, k + 1) = StoredBy(p, k)
<1>1. k \in Nat /\ 1 .. (k + 1) = (1 .. k) \cup {k + 1}
  OBVIOUS
<1>2. 1 .. 0 = {}
  OBVIOUS
<1> QED
  BY <1>1, <1>2 DEF StoredBy

\* FIFO 1 keeps the order, and shows the preprocessor the next element.
LEMMA QueueStep ==
  ASSUME fifo1 \in Seq(Element), NEW p \in Seq(Element), NEW sent, NEW k,
         QueueHolds(p, sent, k), NEW wr \in BOOLEAN, NEW data \in Element, NEW rd \in BOOLEAN,
         wr => Len(fifo1) < LENGTH1 /\ sent < Len(p) /\ data = p[sent + 1],
         fifo1' = ScNext(fifo1, LENGTH1, wr, data, rd),
         NEW out \in BOOLEAN, out <=> rd /\ fifo1 # <<>>
  PROVE  /\ fifo1 # <<>> => k + 1 \in 1 .. Len(p) /\ Head(fifo1) = p[k + 1]
         /\ QueueHolds(p, IF wr THEN sent + 1 ELSE sent, IF out THEN k + 1 ELSE k)'
<1> DEFINE rest == IF out THEN Tail(fifo1) ELSE fifo1
           k2 == IF out THEN k + 1 ELSE k
<1>0. /\ Len(fifo1) \in Nat /\ Len(p) \in Nat /\ sent \in Nat /\ k \in Nat
      /\ sent <= Len(p) /\ k <= Len(p) /\ sent = k + Len(fifo1)
      /\ \A i \in 1 .. Len(fifo1) : fifo1[i] = p[k + i]
  BY DEF QueueHolds
<1>1. fifo1 # <<>> => k + 1 \in 1 .. Len(p) /\ Head(fifo1) = p[k + 1]
  <2>1. fifo1 # <<>> => Len(fifo1) >= 1 /\ Head(fifo1) = fifo1[1]
    OBVIOUS
  <2> QED
    BY <1>0, <2>1
<1>2. /\ rest \in Seq(Element) /\ Len(rest) \in Nat /\ k2 \in 0 .. Len(p) /\ sent = k2 + Len(rest)
      /\ \A i \in 1 .. Len(rest) : rest[i] = p[k2 + i]
  <2>1. CASE out
    <3>1. /\ Tail(fifo1) \in Seq(Element) /\ Len(Tail(fifo1)) = Len(fifo1) - 1
          /\ \A i \in 1 .. Len(Tail(fifo1)) : Tail(fifo1)[i] = fifo1[i + 1]
      BY <2>1, HeadTailProperties
    <3>2. rest = Tail(fifo1) /\ k2 = k + 1
      BY <2>1
    <3> HIDE DEF rest, k2
    <3>3. Len(fifo1) >= 1
      BY <2>1
    <3>4. ASSUME NEW i \in 1 .. Len(rest) PROVE rest[i] = p[k2 + i]
      <4>1. i + 1 \in 1 .. Len(fifo1) /\ k2 + i = k + (i + 1)
        BY <1>0, <3>1, <3>2, <3>3
      <4> QED
        BY <1>0, <3>1, <3>2, <4>1
    <3> QED
      BY <1>0, <3>1, <3>2, <3>3, <3>4
  <2>2. CASE ~out
    BY <1>0, <2>2
  <2> QED
    BY <2>1, <2>2
<1>3. /\ wr => fifo1' = Append(rest, data)
      /\ ~wr => fifo1' = rest
  BY DEF ScNext
<1> HIDE DEF rest, k2
<1>4. CASE wr
  <2>1. /\ Len(fifo1') = Len(rest) + 1 /\ fifo1'[Len(rest) + 1] = data
        /\ \A i \in 1 .. Len(rest) : fifo1'[i] = rest[i]
    <3> DEFINE x == rest
    <3>1. x \in Seq(Element) /\ data \in Element /\ fifo1' = Append(x, data)
      BY <1>2, <1>3, <1>4
    <3> HIDE DEF x
    <3>2. /\ Len(Append(x, data)) = Len(x) + 1 /\ Append(x, data)[Len(x) + 1] = data
          /\ \A i \in 1 .. Len(x) : Append(x, data)[i] = x[i]
      BY <3>1
    <3> QED
      BY <3>1, <3>2 DEF x
  <2>2. data = p[k2 + (Len(rest) + 1)] /\ sent + 1 \in 0 .. Len(p)
    BY <1>0, <1>2, <1>4
  <2>3. ASSUME NEW i \in 1 .. Len(fifo1') PROVE fifo1'[i] = p[k2 + i]
    <3>1. i \in 1 .. Len(rest) \/ i = Len(rest) + 1
      BY <1>2, <2>1
    <3> QED
      BY <1>2, <2>1, <2>2, <3>1
  <2>4. QueueHolds(p, sent + 1, k2)'
    <3>0. sent = k2 + Len(rest) /\ Len(fifo1') = Len(rest) + 1
      BY <1>2, <2>1
    <3>1. sent + 1 = k2 + Len(fifo1')
      <4>1. k2 \in Nat /\ Len(rest) \in Nat
        BY <1>0, <1>2
      <4> QED
        BY <3>0, <4>1
    <3> QED
      BY <1>2, <2>2, <2>3, <3>1 DEF QueueHolds
  <2> QED
    BY <1>1, <1>4, <2>4 DEF k2
<1>5. CASE ~wr
  <2>1. QueueHolds(p, sent, k2)'
    BY <1>0, <1>2, <1>3, <1>5 DEF QueueHolds
  <2> QED
    BY <1>1, <1>5, <2>1 DEF k2
<1> QED
  BY <1>4, <1>5

\* The slots of a running replay, as its element means them.
LEMMA ReplayFacts ==
  ASSUME PreprocTypeOK, ReplayInRange, active, NEW p \in Seq(Element), NEW h \in Nat,
         NEW k, NEW given, ReplayPoint(p, h, k, given)
  PROVE  /\ length \in Nat \ {0} /\ replay_i \in 0 .. (length - 1)
         /\ Round \in Seq(Element) /\ Len(Round) = length
         /\ dout_replay_reg = Round[replay_i + 1]
         /\ \A i \in 1 .. length : Round[i] = memory[i - 1]
         /\ k - 1 \in 0 .. Len(p) /\ (k - 1) + 1 = k /\ k \in 0 .. Len(p) /\ p[k] \in Element
<1>1. length \in 1 .. MEMORY_POSITIONS /\ replay_i \in 0 .. (length - 1)
  BY MemoryAssumption DEF PreprocTypeOK, ReplayInRange, Positions
<1>2. \A i \in 1 .. length : i - 1 \in Positions /\ memory[i - 1] \in Element
  BY <1>1, MemoryAssumption DEF PreprocTypeOK, Positions
<1>3. length \in Nat \ {0}
  BY <1>1, MemoryAssumption
<1>4. Round \in Seq(Element) /\ Len(Round) = length /\ \A i \in 1 .. length : Round[i] = memory[i - 1]
  BY <1>2, <1>3 DEF Round
<1>5. replay_i + 1 \in 1 .. length /\ (replay_i + 1) - 1 = replay_i
  BY <1>1, <1>3
<1>6. dout_replay_reg = Round[replay_i + 1]
  BY <1>4, <1>5 DEF ReplayPoint
<1>7. k \in 1 .. Len(p) /\ Len(p) \in Nat
  BY DEF ReplayPoint
<1> QED
  BY <1>1, <1>3, <1>4, <1>6, <1>7

\* FIFO 2 takes an element of a replay: it is the next one the program means.
LEMMA AdvanceMeans ==
  ASSUME PreprocTypeOK, ReplayInRange, active, NEW p \in Seq(Element), NEW h \in Nat,
         NEW k, NEW given \in Seq(Element), MemoryHolds(p, h, k), ReplayPoint(p, h, k, given),
         AdvanceReplay
  PROVE  /\ MemoryHolds(p, h, k)'
         /\ \A g : g = Append(given, dout_replay_reg) => GivenMeans(p, h, k, g)'
<1>1. MemoryHolds(p, h, k)'
  BY DEF AdvanceReplay, MemoryHolds
<1>2. /\ length \in Nat \ {0} /\ replay_i \in 0 .. (length - 1)
      /\ Round \in Seq(Element) /\ Len(Round) = length
      /\ dout_replay_reg = Round[replay_i + 1]
      /\ \A i \in 1 .. length : Round[i] = memory[i - 1]
      /\ k - 1 \in 0 .. Len(p) /\ (k - 1) + 1 = k /\ k \in 0 .. Len(p) /\ p[k] \in Element
  BY ReplayFacts
<1>3. /\ k \in 1 .. Len(p) /\ Replays(p[k]) /\ ReqLenValid(p[k])
      /\ ~Meant(p, h, k - 1).endless
      /\ length = ReqLen(p[k]) /\ repetitions = p[k].cnt
      /\ infinite = (p[k].cnt = 0)
      /\ Round = ReplayRound(Meant(p, h, k - 1).mem, p[k])
  BY DEF ReplayPoint
<1>4. PICK r \in Nat :
       /\ ~infinite => r = replay_j /\ r < repetitions
       /\ given = (Meant(p, h, k - 1).out \o Repeated(Round, r)) \o SubSeq(Round, 1, replay_i)
  BY DEF ReplayPoint
<1>5. PICK R : R = Round
  OBVIOUS
<1>6. PICK A : A = Meant(p, h, k - 1).out
  OBVIOUS
<1>7. R \in Seq(Element) /\ A \in Seq(Element) /\ Meant(p, h, k - 1) \in Unrollings
  BY <1>2, <1>5, <1>6, MeantIs DEF Unrollings
<1>8. Round' = R
  BY <1>5 DEF Round, AdvanceReplay
<1>9. PICK g : g = Append(given, dout_replay_reg)
  OBVIOUS
<1>10. Repeated(R, r) \in Seq(Element) /\ Repeated(R, r + 1) = Repeated(R, r) \o R
       /\ Repeated(R, r + 1) \in Seq(Element)
  <2>1. Repeated(R, r) \in Seq(Element) /\ Repeated(R, r + 1) = Repeated(R, r) \o R
    BY <1>7, RepeatedIs
  <2>2. Repeated(R, r) \o R \in Seq(Element)
    BY <1>7, <2>1, ConcatProperties
  <2> QED
    BY <2>1, <2>2
<1>11. PICK B : B = A \o Repeated(R, r)
  OBVIOUS
<1>12. /\ B \in Seq(Element) /\ given = B \o SubSeq(R, 1, replay_i)
       /\ B \o R = A \o Repeated(R, r + 1)
  <2>1. B \in Seq(Element)
    BY <1>7, <1>10, <1>11
  <2>2. given = B \o SubSeq(R, 1, replay_i)
    BY <1>4, <1>5, <1>6, <1>11
  <2>3. B \o R = A \o Repeated(R, r + 1)
    <3>1. PICK q \in Seq(Element) : q = Repeated(R, r)
      BY <1>10
    <3>0. A \in Seq(Element) /\ R \in Seq(Element)
      BY <1>7
    <3>2. (A \o q) \o R = A \o (q \o R)
      BY <3>0, SMTT(60)
    <3> QED
      BY <1>10, <1>11, <3>1, <3>2
  <2> QED
    BY <2>1, <2>2, <2>3
<1>13. /\ g = B \o SubSeq(R, 1, replay_i + 1)
       /\ B \o SubSeq(R, 1, 0) = B /\ B \o SubSeq(R, 1, length) = B \o R
  <2>1. replay_i \in Nat /\ replay_i < Len(R) /\ Len(R) = length
    BY <1>2, <1>5
  <2>2. /\ Append(B \o SubSeq(R, 1, replay_i), R[replay_i + 1]) = B \o SubSeq(R, 1, replay_i + 1)
        /\ B \o SubSeq(R, 1, 0) = B /\ B \o SubSeq(R, 1, Len(R)) = B \o R
    BY <1>7, <1>12, <2>1, CutOneMore, ZenonT(60)
  <2>3. g = Append(B \o SubSeq(R, 1, replay_i), R[replay_i + 1])
    BY <1>2, <1>5, <1>9, <1>12
  <2> QED
    BY <2>1, <2>2, <2>3
<1>14. CASE ~last_elem
  <2>1. /\ replay_i' = replay_i + 1 /\ dout_replay_reg' = memory[replay_i + 1]
        /\ active' = active /\ replay_j' = replay_j /\ infinite' = infinite
        /\ memory' = memory /\ length' = length /\ repetitions' = repetitions
    BY <1>14 DEF AdvanceReplay
  <2>2. g = (Meant(p, h, k - 1).out \o Repeated(R, r)) \o SubSeq(R, 1, replay_i')
    BY <1>6, <1>11, <1>13, <2>1
  <2>3. ReplayPoint(p, h, k, g)'
    BY <1>3, <1>4, <1>5, <1>8, <2>1, <2>2 DEF ReplayPoint
  <2> QED
    BY <1>1, <1>9, <2>1, <2>3 DEF GivenMeans
<1>15. CASE last_elem /\ (infinite \/ ~last_cycle)
  <2>1. /\ replay_i' = 0 /\ dout_replay_reg' = memory[0]
        /\ active' /\ infinite' = infinite
        /\ memory' = memory /\ length' = length /\ repetitions' = repetitions
        /\ ~infinite => replay_j' = replay_j + 1
    BY <1>15 DEF AdvanceReplay
  <2>2. g = B \o R
    <3>1. replay_i + 1 = length
      BY <1>2, <1>15 DEF last_elem
    <3> QED
      BY <1>13, <3>1
  <2>3. (A \o Repeated(R, r + 1)) \o SubSeq(R, 1, 0) = A \o Repeated(R, r + 1)
    <3>1. A \o Repeated(R, r + 1) \in Seq(Element)
      BY <1>7, <1>10
    <3>2. SubSeq(R, 1, 0) = <<>>
      BY <1>7
    <3> QED
      BY <3>1, <3>2, ConcatEmptySeq
  <2>4. g = (Meant(p, h, k - 1).out \o Repeated(R, r + 1)) \o SubSeq(R, 1, replay_i')
    BY <1>6, <1>12, <2>1, <2>2, <2>3
  <2>5. r + 1 \in Nat /\ (~infinite' => r + 1 = replay_j' /\ r + 1 < repetitions')
    <3>1. repetitions \in Nat /\ (~infinite => r = replay_j /\ r < repetitions)
      BY <1>4 DEF PreprocTypeOK
    <3>2. ~infinite => replay_j # repetitions - 1
      BY <1>15 DEF last_cycle
    <3>3. ~infinite => r + 1 < repetitions
      BY <3>1, <3>2
    <3> QED
      BY <2>1, <3>1, <3>3
  <2>6. ReplayPoint(p, h, k, g)'
    BY <1>3, <1>5, <1>8, <2>1, <2>4, <2>5 DEF ReplayPoint
  <2> QED
    BY <1>1, <1>9, <2>1, <2>6 DEF GivenMeans
<1>16. CASE last_elem /\ ~infinite /\ last_cycle
  <2>1. active' = FALSE
    BY <1>16 DEF AdvanceReplay
  <2>2. g = B \o R
    <3>1. replay_i + 1 = length
      BY <1>2, <1>16 DEF last_elem
    <3> QED
      BY <1>13, <3>1
  <2>3. r + 1 = repetitions /\ repetitions = p[k].cnt /\ p[k].cnt # 0
    <3>1. repetitions \in Nat
      BY DEF PreprocTypeOK
    <3> QED
      BY <1>3, <1>4, <1>16, <3>1 DEF last_cycle
  <2>4. Meant(p, h, k) = UnrollStep(Meant(p, h, k - 1), p[k], h)
    <3>1. k - 1 \in 0 .. (Len(p) - 1)
      BY <1>2, <1>3
    <3> QED
      BY <1>2, <3>1, MeantIs
  <2>5. /\ Meant(p, h, k).out = A \o Repeated(R, p[k].cnt)
        /\ Meant(p, h, k).endless = (p[k].cnt = 0)
    <3>1. PICK st \in Unrollings : st = Meant(p, h, k - 1)
      BY <1>7
    <3>2. PICK e \in Element : e = p[k]
      BY <1>2
    <3>3. ~st.endless /\ Replays(e) /\ ReqLenValid(e) /\ R = ReplayRound(st.mem, e) /\ e.cnt # 0
      BY <1>3, <1>5, <2>3, <3>1, <3>2
    <3>4. /\ UnrollStep(st, e, h).out = st.out \o Repeated(ReplayRound(st.mem, e), e.cnt)
          /\ UnrollStep(st, e, h).endless = (e.cnt = 0)
      BY <3>3, UnrollStepIs
    <3> QED
      BY <1>6, <2>4, <3>1, <3>2, <3>3, <3>4
  <2> QED
    BY <1>1, <1>9, <1>12, <2>1, <2>2, <2>3, <2>5 DEF GivenMeans
<1> QED
  BY <1>14, <1>15, <1>16

\* Outside a replay the preprocessor takes an element: a passed one is given
\* away, a stored one is kept, a replay begins, anything else is dropped.
LEMMA TakeMeans ==
  ASSUME PreprocTypeOK, ~active, NEW p \in Seq(Element), StoresBeforeReplays(p), NEW h \in Nat,
         NEW k \in 0 .. (Len(p) - 1), NEW given, MemoryHolds(p, h, k), GivenMeans(p, h, k, given),
         NEW e \in Element, e = p[k + 1],
         \/ Stores(e) /\ Store(e)
         \/ Replays(e) /\ StartReplay(e)
         \/ ~Stores(e) /\ ~Replays(e) /\ UNCHANGED preprocVars
  PROVE  /\ MemoryHolds(p, h, k + 1)'
         /\ Is(e, "NOPASS") => GivenMeans(p, h, k + 1, given)'
         /\ ~Is(e, "NOPASS") => \A g : g = Append(given, e) => GivenMeans(p, h, k + 1, g)'
<1>0. /\ k + 1 \in 1 .. Len(p) /\ (k + 1) - 1 = k /\ k \in 0 .. Len(p) /\ k + 1 \in 0 .. Len(p)
      /\ Len(p) \in Nat /\ k \in Nat /\ k + 1 \in Nat
  OBVIOUS
<1>1. PICK st \in Unrollings : st = Meant(p, h, k)
  BY <1>0, MeantIs
<1>2. Meant(p, h, k + 1) = UnrollStep(st, e, h)
  BY <1>1, MeantIs
<1>3. given = st.out /\ ~st.endless
  BY <1>1 DEF GivenMeans
<1>4. /\ memory_valid = StoredBy(p, k) /\ \A q \in memory_valid : memory[q] = st.mem[q]
      /\ memory_valid \subseteq Positions /\ st.mem \in [Positions -> Element]
      /\ memory \in [Positions -> Element] /\ e.pos \in Positions
  BY <1>1 DEF MemoryHolds, PreprocTypeOK, Unrollings, Element
<1>5. CASE ~Is(e, "NOPASS")
  <2>1. ~Stores(e) /\ ~Replays(e) /\ UNCHANGED preprocVars
    BY <1>5 DEF Stores, Replays
  <2>2. /\ UnrollStep(st, e, h).mem = st.mem /\ UnrollStep(st, e, h).out = Append(st.out, e)
        /\ ~UnrollStep(st, e, h).endless
    <3>1. ~st.endless /\ ~Is(e, "NOPASS")
      BY <1>3, <1>5
    <3>2. UnrollStep(st, e, h).mem = st.mem
      BY <3>1, UnrollStepIs, ZenonT(60)
    <3>3. UnrollStep(st, e, h).out = Append(st.out, e)
      <4>1. UnrollStep(st, e, h) = [st EXCEPT !.out = Append(@, e)]
        BY <2>1, <3>1 DEF UnrollStep
      <4> QED
        BY <4>1 DEF Unrollings
    <3>4. ~UnrollStep(st, e, h).endless
      BY <3>1, UnrollStepIs
    <3> QED
      BY <3>2, <3>3, <3>4
  <2>3. StoredBy(p, k + 1) = StoredBy(p, k)
    BY <2>1, StoredOneMore
  <2>4. active' = FALSE /\ memory' = memory /\ memory_valid' = memory_valid
    BY <2>1 DEF preprocVars, PreprocTypeOK
  <2>5. MemoryHolds(p, h, k + 1)'
    BY <1>2, <1>4, <2>2, <2>3, <2>4 DEF MemoryHolds
  <2> QED
    BY <1>2, <1>3, <1>5, <2>2, <2>4, <2>5 DEF GivenMeans
<1>6. CASE Stores(e)
  <2>1. Is(e, "NOPASS") /\ Store(e)
    BY <1>6 DEF Stores, Replays
  <2>2. /\ UnrollStep(st, e, h).mem = [st.mem EXCEPT ![e.pos] = e]
        /\ UnrollStep(st, e, h).out = st.out /\ ~UnrollStep(st, e, h).endless
    BY <1>3, <1>6, UnrollStepIs, ZenonT(60)
  <2>3. StoredBy(p, k + 1) = StoredBy(p, k) \cup {e.pos}
    BY <1>6, StoredOneMore
  <2>4. /\ active' = FALSE /\ memory' = [memory EXCEPT ![e.pos] = e]
        /\ memory_valid' = memory_valid \cup {e.pos}
    BY <2>1 DEF Store, PreprocTypeOK
  <2>5. MemoryHolds(p, h, k + 1)'
    <3>1. \A q \in memory_valid' : memory'[q] = Meant(p, h, k + 1).mem[q]
      BY <1>2, <1>4, <2>2, <2>4
    <3> QED
      BY <1>4, <2>3, <2>4, <3>1 DEF MemoryHolds
  <2> QED
    BY <1>2, <1>3, <2>1, <2>2, <2>4, <2>5 DEF GivenMeans
<1>7. CASE Is(e, "NOPASS") /\ ~Stores(e) /\ ~(Replays(e) /\ ReqLenValid(e))
  <2>1. UnrollStep(st, e, h) = st
    BY <1>3, <1>7, UnrollStepIs, ZenonT(60)
  <2>2. StoredBy(p, k + 1) = StoredBy(p, k)
    BY <1>7, StoredOneMore
  <2>3. active' = FALSE /\ memory' = memory /\ memory_valid' = memory_valid
    BY <1>7 DEF preprocVars, PreprocTypeOK, StartReplay
  <2>4. MemoryHolds(p, h, k + 1)'
    BY <1>2, <1>4, <2>1, <2>2, <2>3 DEF MemoryHolds
  <2> QED
    BY <1>2, <1>3, <1>7, <2>1, <2>3, <2>4 DEF GivenMeans
<1>8. CASE Replays(e) /\ ReqLenValid(e)
  <2>1. Is(e, "NOPASS") /\ ~Stores(e) /\ StartReplay(e)
    BY <1>8 DEF Stores, Replays
  <2>2. UnrollStep(st, e, h).mem = st.mem
    BY <1>3, <1>8, UnrollStepIs
  <2>3. StoredBy(p, k + 1) = StoredBy(p, k)
    BY <2>1, StoredOneMore
  <2>4. /\ active' /\ memory' = memory /\ memory_valid' = memory_valid
        /\ length' = ReqLen(e) /\ repetitions' = e.cnt /\ infinite' = (e.cnt = 0)
        /\ replay_i' = 0 /\ replay_j' = 0 /\ dout_replay_reg' = memory[0]
    BY <1>8, <2>1 DEF StartReplay
  <2>5. MemoryHolds(p, h, k + 1)'
    BY <1>2, <1>4, <2>2, <2>3, <2>4 DEF MemoryHolds
  <2>6. PICK R : R = ReplayRound(st.mem, e)
    OBVIOUS
  <2>7. R \in Seq(Element) /\ Repeated(R, 0) = <<>> /\ st.out \in Seq(Element)
    BY <1>4, <1>8, <2>6, RoundIs, RepeatedIs DEF Unrollings
  <2>8. Round' = R
    <3>1. 0 .. (ReqLen(e) - 1) \subseteq StoredBy(p, k)
      <4>1. k + 1 \in DOMAIN p
        BY <1>0
      <4> QED
        BY <1>0, <1>8, <4>1 DEF StoresBeforeReplays
    <3>2. ReqLen(e) \in Nat
      BY <1>4, <1>8, RoundIs
    <3>3. \A i \in 1 .. ReqLen(e) : memory[i - 1] = st.mem[i - 1]
      BY <1>4, <3>1, <3>2
    <3> QED
      BY <2>4, <2>6, <3>3 DEF Round, ReplayRound
  <2>9. given = (st.out \o Repeated(R, 0)) \o SubSeq(R, 1, 0)
    <3>1. SubSeq(R, 1, 0) = <<>>
      BY <2>7
    <3>2. (st.out \o <<>>) \o <<>> = st.out
      BY <2>7, SMTT(60)
    <3> QED
      BY <1>3, <2>7, <3>1, <3>2
  <2>10. ReplayPoint(p, h, k + 1, given)'
    <3>1. e.cnt \in Nat
      BY DEF Element
    <3>2. ~infinite' => 0 = replay_j' /\ 0 < repetitions'
      <4>1. ~infinite' => e.cnt # 0
        BY <2>4
      <4>2. e.cnt # 0 => 0 < e.cnt
        BY <3>1
      <4> QED
        BY <2>4, <4>1, <4>2
    <3>3. \E r \in Nat :
            /\ ~infinite' => r = replay_j' /\ r < repetitions'
            /\ given = (Meant(p, h, (k + 1) - 1).out \o Repeated(Round', r))
                         \o SubSeq(Round', 1, replay_i')
      BY <1>0, <1>1, <2>4, <2>8, <2>9, <3>2
    <3>4. /\ k + 1 \in 1 .. Len(p) /\ Replays(p[k + 1]) /\ ReqLenValid(p[k + 1])
          /\ ~Meant(p, h, (k + 1) - 1).endless
          /\ length' = ReqLen(p[k + 1]) /\ repetitions' = p[k + 1].cnt
          /\ infinite' = (p[k + 1].cnt = 0)
          /\ dout_replay_reg' = memory'[replay_i']
          /\ Round' = ReplayRound(Meant(p, h, (k + 1) - 1).mem, p[k + 1])
      BY <1>0, <1>1, <1>3, <1>8, <2>4, <2>6, <2>8
    <3> QED
      BY <3>3, <3>4 DEF ReplayPoint
  <2> QED
    BY <2>1, <2>4, <2>5, <2>10 DEF GivenMeans
<1> QED
  BY <1>5, <1>6, <1>7, <1>8

\* The input path delivers the program p, of which "sent" elements were sent
\* and the elements "given" have left the preprocessor.
Delivers(p, h, sent, given) ==
  \E k \in 0 .. Len(p) :
    QueueHolds(p, sent, k) /\ MemoryHolds(p, h, k) /\ GivenMeans(p, h, k, given)

\* After a reset, and at power-up, nothing is delivered yet.
LEMMA DeliverStart ==
  ASSUME NEW p \in Seq(Element), NEW h \in Nat, fifo1 = <<>>, memory_valid = {}, ~active
  PROVE  Delivers(p, h, 0, <<>>)
<1>1. 0 \in 0 .. Len(p) /\ Len(<<>>) = 0
  OBVIOUS
<1>2. QueueHolds(p, 0, 0)
  BY <1>1 DEF QueueHolds
<1>3. StoredBy(p, 0) = {}
  BY DEF StoredBy
<1>4. MemoryHolds(p, h, 0)
  BY <1>3 DEF MemoryHolds
<1>5. Meant(p, h, 0).out = <<>> /\ ~Meant(p, h, 0).endless
  BY MeantIs DEF UnrollStart
<1>6. GivenMeans(p, h, 0, <<>>)
  BY <1>5 DEF GivenMeans
<1> QED
  BY <1>1, <1>2, <1>4, <1>6 DEF Delivers

\* The same for the state a reset leads to.
LEMMA DeliverRestart ==
  ASSUME NEW p \in Seq(Element), NEW h \in Nat,
         fifo1' = <<>>, memory_valid' = {}, active' = FALSE
  PROVE  Delivers(p, h, 0, <<>>)'
<1>1. 0 \in 0 .. Len(p) /\ Len(<<>>) = 0
  OBVIOUS
<1>2. QueueHolds(p, 0, 0)'
  BY <1>1 DEF QueueHolds
<1>3. StoredBy(p, 0) = {}
  BY DEF StoredBy
<1>4. MemoryHolds(p, h, 0)'
  BY <1>3 DEF MemoryHolds
<1>5. Meant(p, h, 0).out = <<>> /\ ~Meant(p, h, 0).endless
  BY MeantIs DEF UnrollStart
<1>6. GivenMeans(p, h, 0, <<>>)'
  BY <1>5 DEF GivenMeans
<1> QED
  BY <1>1, <1>2, <1>4, <1>6 DEF Delivers

\* An edge of clk moves a word from FIFO 2 to the streamer and adds what the
\* preprocessor gives away.
LEMMA PopKeepsOrder ==
  ASSUME InputFifoInv, NEW c \in Seq(Element), NEW rdreq \in BOOLEAN,
         fifo2' = ScNext(fifo2, LENGTH2, wrreq2, dout(q1), rdreq),
         NEW d, d = IF rdreq /\ ~empty_i THEN Append(c, q_i) ELSE c
  PROVE  /\ d \in Seq(Element)
         /\ d \o fifo2' = IF wrreq2 THEN Append(c \o fifo2, dout(q1)) ELSE c \o fifo2
<1>1. fifo2 \in Seq(Element) /\ dout(q1) \in Element /\ (wrreq2 => Len(fifo2) < LENGTH2)
  <2>1. fifo2 \in Seq(Element) /\ dout(q1) \in Element
    BY InputSignals DEF InputFifoInv, InputFifoTypeOK
  <2>2. wrreq2 => Len(fifo2) < LENGTH2 - almost_shift
    BY InputSignals
  <2>3. LENGTH2 \in Nat /\ almost_shift \in Nat /\ Len(fifo2) \in Nat
    BY <2>1, InputFifoAssumption
  <2> QED
    BY <2>1, <2>2, <2>3
<1>2. PICK rest : rest = IF rdreq /\ fifo2 # <<>> THEN Tail(fifo2) ELSE fifo2
  OBVIOUS
<1>3. PICK w \in Element : w = dout(q1)
  BY <1>1
<1>5. d \in Seq(Element) /\ rest \in Seq(Element) /\ d \o rest = c \o fifo2
  <2>1. CASE rdreq /\ fifo2 # <<>>
    <3>1. d = Append(c, Head(fifo2)) /\ rest = Tail(fifo2)
      BY <1>2, <2>1 DEF empty_i, q_i
    <3>2. /\ Append(c, Head(fifo2)) \o Tail(fifo2) = c \o fifo2
          /\ Append(c, Head(fifo2)) \in Seq(Element) /\ Tail(fifo2) \in Seq(Element)
      BY <1>1, <2>1, MoveElementOver
    <3> QED
      BY <3>1, <3>2
  <2>2. CASE ~ (rdreq /\ fifo2 # <<>>)
    BY <1>1, <1>2, <2>2 DEF empty_i
  <2> QED
    BY <2>1, <2>2
<1>6. CASE wrreq2
  <2>1. fifo2' = Append(rest, w)
    BY <1>1, <1>2, <1>3, <1>6 DEF ScNext
  <2>2. d \o Append(rest, w) = Append(d \o rest, w)
    <3>1. d \in Seq(Element) /\ rest \in Seq(Element) /\ w \in Element
      BY <1>3, <1>5
    <3>2. \A a \in Seq(Element), b \in Seq(Element), x \in Element :
            a \o Append(b, x) = Append(a \o b, x)
      BY AppendSecond
    <3> QED
      BY <3>1, <3>2, Zenon
  <2> QED
    BY <1>3, <1>5, <1>6, <2>1, <2>2
<1>7. CASE ~wrreq2
  <2>1. fifo2' = rest
    BY <1>2, <1>7 DEF ScNext
  <2> QED
    BY <1>5, <1>7, <2>1
<1> QED
  BY <1>5, <1>6, <1>7

\* One posedge of clk: what FIFO 2 takes is what the program means next.
LEMMA DeliverStep ==
  ASSUME InputFifoInv, NEW p \in Seq(Element), StoresBeforeReplays(p), NEW h \in Nat,
         NEW sent, NEW given \in Seq(Element), Delivers(p, h, sent, given),
         NEW data \in Element, NEW wrreq \in BOOLEAN, NEW rdreq \in BOOLEAN,
         wrreq1(wrreq) => sent < Len(p) /\ data = p[sent + 1],
         InputFifoTick(FALSE, data, wrreq, rdreq),
         NEW sent2, sent2 = IF wrreq1(wrreq) THEN sent + 1 ELSE sent,
         NEW given2, given2 = IF wrreq2 THEN Append(given, dout(q1)) ELSE given
  PROVE  Delivers(p, h, sent2, given2)'
<1>1. PICK k \in 0 .. Len(p) :
        QueueHolds(p, sent, k) /\ MemoryHolds(p, h, k) /\ GivenMeans(p, h, k, given)
  BY DEF Delivers
<1>2. PICK fire \in BOOLEAN : fire <=> rdreq1 /\ fifo1 # <<>>
  BY InputSignals
<1>3. PICK k2 : k2 = IF fire THEN k + 1 ELSE k
  OBVIOUS
<1>4. PICK wr \in BOOLEAN : wr <=> wrreq1(wrreq)
  BY InputSignals
<1>5. /\ fifo1 # <<>> => k + 1 \in 1 .. Len(p) /\ Head(fifo1) = p[k + 1]
      /\ QueueHolds(p, sent2, k2)'
  <2>1. /\ fifo1 \in Seq(Element) /\ rdreq1 \in BOOLEAN
        /\ wr => Len(fifo1) < LENGTH1 /\ sent < Len(p) /\ data = p[sent + 1]
    <3>1. fifo1 \in Seq(Element) /\ rdreq1 \in BOOLEAN
      BY InputSignals DEF InputFifoInv, InputFifoTypeOK
    <3>2. wr => Len(fifo1) < LENGTH1 - almost_shift
      BY <1>4, InputSignals
    <3>3. LENGTH1 - almost_shift <= LENGTH1 /\ LENGTH1 - almost_shift \in Nat /\ LENGTH1 \in Nat
      BY InputFifoAssumption
    <3> QED
      BY <1>4, <3>1, <3>2, <3>3
  <2>2. fifo1' = ScNext(fifo1, LENGTH1, wr, data, rdreq1)
    <3>1. fifo1' = ScNext(fifo1, LENGTH1, wrreq1(wrreq), data, rdreq1)
      BY DEF InputFifoTick
    <3>2. wr = wrreq1(wrreq)
      BY <1>4, InputSignals
    <3> QED
      BY <3>1, <3>2
  <2>3. PICK rd \in BOOLEAN : rd = rdreq1
    BY <2>1
  <2>4. fire <=> rd /\ fifo1 # <<>>
    BY <1>2, <2>3
  <2>5. fifo1' = ScNext(fifo1, LENGTH1, wr, data, rd)
    BY <2>2, <2>3
  <2>6. /\ fifo1 # <<>> => k + 1 \in 1 .. Len(p) /\ Head(fifo1) = p[k + 1]
        /\ QueueHolds(p, IF wr THEN sent + 1 ELSE sent, IF fire THEN k + 1 ELSE k)'
    BY <1>1, <2>1, <2>4, <2>5, QueueStep
  <2>7. sent2 = IF wr THEN sent + 1 ELSE sent
    BY <1>4
  <2> QED
    BY <1>3, <2>6, <2>7
<1>6. PreprocTick(FALSE, q1, ~rdempty1, ~almost_full2)
  BY DEF InputFifoTick
<1>7. PreprocTypeOK /\ ReplayInRange /\ active \in BOOLEAN
  BY DEF InputFifoInv, InputFifoTypeOK, PreprocTypeOK
<1>8. fire <=> in_fire(q1, ~rdempty1, ~almost_full2)
  BY <1>2 DEF in_fire, rdreq1, rdempty1
<1>9. CASE active /\ ~almost_full2
  <2>1. AdvanceReplay
    BY <1>6, <1>9 DEF PreprocTick, replay_fire, in_fire, din_ready
  <2>2. k2 = k
    BY <1>3, <1>8, <1>9 DEF in_fire, din_ready
  <2>3. given2 = Append(given, dout_replay_reg)
    BY <1>9 DEF wrreq2, dout_valid, replay_fire, dout
  <2>4. ReplayPoint(p, h, k, given)
    BY <1>1, <1>9 DEF GivenMeans
  <2>5. MemoryHolds(p, h, k)' /\ GivenMeans(p, h, k, given2)'
    BY <1>1, <1>7, <1>9, <2>1, <2>3, <2>4, AdvanceMeans
  <2> QED
    BY <1>5, <2>2, <2>5 DEF Delivers
<1>10. CASE ~fire /\ ~(active /\ ~almost_full2)
  <2>1. UNCHANGED preprocVars
    BY <1>6, <1>8, <1>10 DEF PreprocTick, replay_fire
  <2>2. given2 = given
    BY <1>8, <1>10 DEF wrreq2, dout_valid, replay_fire
  <2>3. k2 = k
    BY <1>3, <1>10
  <2>4. MemoryHolds(p, h, k)' /\ GivenMeans(p, h, k, given)'
    BY <1>1, <2>1 DEF MemoryHolds, GivenMeans, ReplayPoint, Round, preprocVars
  <2> QED
    BY <1>5, <2>2, <2>3, <2>4 DEF Delivers
<1>11. CASE fire
  <2>1. ~active /\ fifo1 # <<>> /\ (Is(q1, "NOPASS") \/ ~almost_full2)
    BY <1>2, <1>8, <1>11 DEF in_fire, din_ready
  <2>2. PICK e \in Element : e = q1
    BY InputSignals
  <2>3. e = p[k + 1] /\ k \in 0 .. (Len(p) - 1) /\ k + 1 \in 0 .. Len(p)
    <3>1. e = p[k + 1] /\ k + 1 \in 1 .. Len(p)
      BY <1>5, <2>1, <2>2 DEF q1, rdempty1
    <3>2. k \in Nat /\ Len(p) \in Nat
      OBVIOUS
    <3> QED
      BY <3>1, <3>2
  <2>4. \/ Stores(e) /\ Store(e)
        \/ Replays(e) /\ StartReplay(e)
        \/ ~Stores(e) /\ ~Replays(e) /\ UNCHANGED preprocVars
    <3>1. Stores(e) => ~Replays(e)
      BY DEF Stores, Replays
    <3> QED
      BY <1>6, <1>8, <1>11, <2>1, <2>2, <3>1 DEF PreprocTick, replay_fire
  <2>5. /\ MemoryHolds(p, h, k + 1)'
        /\ Is(e, "NOPASS") => GivenMeans(p, h, k + 1, given)'
        /\ ~Is(e, "NOPASS") => \A g : g = Append(given, e) => GivenMeans(p, h, k + 1, g)'
    BY <1>1, <1>7, <2>1, <2>3, <2>4, TakeMeans
  <2>6. given2 = IF Is(e, "NOPASS") THEN given ELSE Append(given, e)
    BY <1>8, <1>11, <2>1, <2>2 DEF wrreq2, dout_valid, replay_fire, dout
  <2>7. GivenMeans(p, h, k + 1, given2)'
    <3>1. CASE Is(e, "NOPASS")
      BY <2>5, <2>6, <3>1
    <3>2. CASE ~Is(e, "NOPASS")
      BY <2>5, <2>6, <3>2
    <3> QED
      BY <3>1, <3>2
  <2>8. k2 = k + 1
    BY <1>3, <1>11
  <2> QED
    BY <1>5, <2>3, <2>5, <2>7, <2>8 DEF Delivers
<1>12. fire \/ (active /\ ~almost_full2) \/ (~fire /\ ~(active /\ ~almost_full2))
  OBVIOUS
<1> QED
  BY <1>9, <1>10, <1>11, <1>12
-----------------------------------------------------------------------------
\* What follows an element in a program adds to what it means.
LEMMA StepExtends ==
  ASSUME NEW st \in Unrollings, NEW e \in Element, NEW h \in Nat
  PROVE  IsPrefix(st.out, UnrollStep(st, e, h).out)
<1>0. st.out \in Seq(Element) /\ st.mem \in [Positions -> Element] /\ e.cnt \in Nat
  BY DEF Unrollings, Element
<1>1. IsPrefix(st.out, st.out)
  BY <1>0, PrefixIs
<1>2. CASE ~st.endless /\ ~Is(e, "NOPASS")
  <2>1. UnrollStep(st, e, h).out = Append(st.out, e)
    <3>1. ~Stores(e) /\ ~Replays(e)
      BY <1>2 DEF Stores, Replays
    <3>2. UnrollStep(st, e, h) = [st EXCEPT !.out = Append(@, e)]
      BY <1>2, <3>1 DEF UnrollStep
    <3> QED
      BY <3>2 DEF Unrollings
  <2>2. Append(st.out, e) = st.out \o <<e>> /\ <<e>> \in Seq(Element)
    BY <1>0
  <2> QED
    BY <1>0, <2>1, <2>2, PartIsPrefix
<1>3. CASE ~st.endless /\ Replays(e) /\ ReqLenValid(e)
  <2> DEFINE r == Repeated(ReplayRound(st.mem, e), IF e.cnt = 0 THEN h ELSE e.cnt)
  <2>1. r \in Seq(Element)
    <3>1. (IF e.cnt = 0 THEN h ELSE e.cnt) \in Nat /\ ReplayRound(st.mem, e) \in Seq(Element)
      BY <1>0, <1>3, RoundIs
    <3> QED
      BY <3>1, RepeatedIs
  <2>2. UnrollStep(st, e, h).out = st.out \o r
    BY <1>3, UnrollStepIs
  <2> HIDE DEF r
  <2> QED
    BY <1>0, <2>1, <2>2, PartIsPrefix
<1>4. CASE st.endless \/ (Is(e, "NOPASS") /\ ~(Replays(e) /\ ReqLenValid(e)))
  <2>1. UnrollStep(st, e, h).out = st.out
    BY <1>4, UnrollStepIs
  <2> QED
    BY <1>1, <2>1
<1>5. Replays(e) => Is(e, "NOPASS")
  BY DEF Replays
<1> QED
  BY <1>2, <1>3, <1>4, <1>5

\* What the first elements mean is the beginning of what the whole program means.
LEMMA MeantExtends ==
  ASSUME NEW p \in Seq(Element), NEW h \in Nat, NEW k \in 0 .. Len(p)
  PROVE  /\ IsPrefix(Meant(p, h, k).out, Unrolled(p, [q \in Positions |-> Blank], h))
         /\ Unrolled(p, [q \in Positions |-> Blank], h) \in Seq(Element)
<1>0. Len(p) \in Nat /\ k \in Nat /\ \A i \in 0 .. Len(p) : Meant(p, h, i).out \in Seq(Element)
  <2>1. \A i \in 0 .. Len(p) : Meant(p, h, i) \in Unrollings
    BY MeantIs
  <2> QED
    BY <2>1 DEF Unrollings
<1> DEFINE S == {n \in Nat : k <= n /\ n <= Len(p) =>
                               IsPrefix(Meant(p, h, k).out, Meant(p, h, n).out)}
<1>1. IsPrefix(Meant(p, h, k).out, Meant(p, h, k).out)
  BY <1>0, PrefixIs
<1>2. 0 \in S
  <2>1. k <= 0 => k = 0
    BY <1>0
  <2> QED
    BY <1>1, <2>1
<1>3. ASSUME NEW n \in Nat, n \in S PROVE n + 1 \in S
  <2> SUFFICES ASSUME k <= n + 1, n + 1 <= Len(p)
               PROVE  IsPrefix(Meant(p, h, k).out, Meant(p, h, n + 1).out)
    OBVIOUS
  <2>1. CASE k = n + 1
    BY <1>1, <2>1
  <2>2. CASE k # n + 1
    <3>1. k <= n /\ n \in 0 .. (Len(p) - 1) /\ n \in 0 .. Len(p) /\ n + 1 \in 0 .. Len(p)
          /\ n + 1 \in 1 .. Len(p) /\ n <= Len(p)
      BY <1>0, <2>2
    <3>2. IsPrefix(Meant(p, h, k).out, Meant(p, h, n).out)
      BY <1>3, <3>1
    <3>3. Meant(p, h, n + 1) = UnrollStep(Meant(p, h, n), p[n + 1], h)
          /\ Meant(p, h, n) \in Unrollings
      BY <3>1, MeantIs
    <3>4. IsPrefix(Meant(p, h, n).out, Meant(p, h, n + 1).out)
      <4>1. p[n + 1] \in Element
        BY <3>1
      <4> QED
        BY <3>3, <4>1, StepExtends
    <3> QED
      BY <1>0, <3>1, <3>2, <3>4, PrefixThrough
  <2> QED
    BY <2>1, <2>2
<1> HIDE DEF S
<1>4. Len(p) \in S
  BY <1>0, <1>2, <1>3, NatInductive
<1>5. IsPrefix(Meant(p, h, k).out, Meant(p, h, Len(p)).out)
  BY <1>0, <1>4 DEF S
<1>6. Unrolled(p, [q \in Positions |-> Blank], h) = Meant(p, h, Len(p)).out
  BY DEF Unrolled, Meant
<1>7. Len(p) \in 0 .. Len(p)
  BY <1>0
<1> QED
  BY <1>0, <1>5, <1>6, <1>7

\* A replay under way is on its way to what its element means.  A replay
\* without end is cut in the meaning, but not within its first h elements.
LEMMA ReplayIsMeant ==
  ASSUME PreprocTypeOK, ReplayInRange, active, NEW p \in Seq(Element), NEW h \in Nat,
         NEW k, NEW given \in Seq(Element), ReplayPoint(p, h, k, given),
         NEW x \in Seq(Element), IsPrefix(x, given), p[k].cnt = 0 => Len(x) <= h
  PROVE  IsPrefix(x, Meant(p, h, k).out)
<1>1. /\ Round \in Seq(Element) /\ Len(Round) = length /\ length \in Nat \ {0}
      /\ replay_i \in 0 .. (length - 1)
      /\ k - 1 \in 0 .. Len(p) /\ (k - 1) + 1 = k /\ k \in 0 .. Len(p) /\ p[k] \in Element
  BY ReplayFacts
<1>2. /\ k \in 1 .. Len(p) /\ Replays(p[k]) /\ ReqLenValid(p[k])
      /\ ~Meant(p, h, k - 1).endless
      /\ repetitions = p[k].cnt /\ infinite = (p[k].cnt = 0)
      /\ Round = ReplayRound(Meant(p, h, k - 1).mem, p[k])
  BY DEF ReplayPoint
<1>3. PICK r \in Nat :
        /\ ~infinite => r = replay_j /\ r < repetitions
        /\ given = (Meant(p, h, k - 1).out \o Repeated(Round, r)) \o SubSeq(Round, 1, replay_i)
  BY DEF ReplayPoint
<1>4. PICK e \in Element : e = p[k]
  BY <1>1
<1>5. PICK st \in Unrollings : st = Meant(p, h, k - 1)
  BY <1>1, MeantIs
<1>6. PICK R \in Seq(Element) : R = Round
  BY <1>1
<1>7. PICK A \in Seq(Element) : A = st.out
  BY DEF Unrollings
<1>8. PICK n \in Nat : n = IF e.cnt = 0 THEN h ELSE e.cnt
  <2>1. e.cnt \in Nat
    BY DEF Element
  <2> QED
    BY <2>1
<1>9. PICK F : \A i \in Nat : F[i] = Repeated(R, i) /\ F[i] \in Seq(Element)
  <2>1. \A i \in Nat : Repeated(R, i) \in Seq(Element)
    BY <1>6, RepeatedIs
  <2>2. \A j \in Nat : [i \in Nat |-> Repeated(R, i)][j] = Repeated(R, j)
    OBVIOUS
  <2> QED
    BY <2>1, <2>2
<1>10. Meant(p, h, k).out = A \o F[n]
  <2>1. k - 1 \in 0 .. (Len(p) - 1)
    BY <1>1, <1>2
  <2>2. Meant(p, h, k) = UnrollStep(st, e, h)
    BY <1>1, <1>4, <1>5, <2>1, MeantIs
  <2>3. UnrollStep(st, e, h).out = st.out \o Repeated(ReplayRound(st.mem, e),
                                                IF e.cnt = 0 THEN h ELSE e.cnt)
    <3>1. ~st.endless /\ Replays(e) /\ ReqLenValid(e)
      BY <1>2, <1>4, <1>5
    <3>2. Is(e, "NOPASS") /\ ~Stores(e)
      BY <3>1 DEF Stores, Replays
    <3>3. PICK o2 : o2 = st.out \o Repeated(ReplayRound(st.mem, e),
                                            IF e.cnt = 0 THEN h ELSE e.cnt)
      OBVIOUS
    <3>4. UnrollStep(st, e, h) = [st EXCEPT !.out = o2, !.endless = (e.cnt = 0)]
      BY <3>1, <3>2, <3>3 DEF UnrollStep
    <3> QED
      BY <3>3, <3>4 DEF Unrollings
  <2>4. R = ReplayRound(st.mem, e)
    BY <1>2, <1>4, <1>5, <1>6
  <2> QED
    BY <1>7, <1>8, <1>9, <2>2, <2>3, <2>4
<1>11. /\ R # <<>> /\ replay_i \in Nat /\ replay_i <= Len(R)
       /\ given = (A \o F[r]) \o SubSeq(R, 1, replay_i)
  <2>1. R # <<>>
    BY <1>1, <1>6
  <2>2. replay_i \in Nat /\ replay_i <= Len(R)
    BY <1>1, <1>6
  <2> QED
    BY <1>3, <1>5, <1>6, <1>7, <1>9, <2>1, <2>2
<1>12. \A i, j \in Nat : i <= j => IsPrefix(F[i], F[j]) /\ Len(F[i]) >= i
  <2>1. ASSUME NEW i \in Nat, NEW j \in Nat, i <= j
        PROVE  IsPrefix(F[i], F[j]) /\ Len(F[i]) >= i
    <3>1. IsPrefix(Repeated(R, i), Repeated(R, j)) /\ Len(Repeated(R, i)) >= i
      BY <1>6, <1>11, <2>1, RepeatedMore DEF Repeated
    <3> QED
      BY <1>9, <3>1
  <2> QED
    BY <2>1
<1>13. r + 1 \in Nat /\ F[r + 1] = F[r] \o R /\ F[r] \in Seq(Element) /\ F[r + 1] \in Seq(Element)
  <2>1. r + 1 \in Nat /\ F[r] \in Seq(Element) /\ F[r + 1] \in Seq(Element)
    <3>1. r + 1 \in Nat
      OBVIOUS
    <3> QED
      BY <1>9, <3>1
  <2>2. Repeated(R, r + 1) = Repeated(R, r) \o R
    BY <1>3, <1>6, RepeatedIs
  <2> QED
    BY <1>9, <2>1, <2>2
<1>14. IsPrefix(given, A \o F[r + 1]) /\ A \o F[r + 1] \in Seq(Element)
  <2>1. PICK f \in Seq(Element) : f = F[r]
    BY <1>13
  <2>2. PICK B \in Seq(Element) : B = A \o f
    BY <1>7, <2>1, ConcatProperties
  <2>3. B \o R = A \o F[r + 1]
    <3>1. (A \o f) \o R = A \o (f \o R)
      BY SMTT(60)
    <3> QED
      BY <1>13, <2>1, <2>2, <3>1
  <2>4. given = B \o SubSeq(R, 1, replay_i)
    BY <1>11, <2>1, <2>2
  <2>5. IsPrefix(B \o SubSeq(R, 1, replay_i), B \o R) /\ B \o R \in Seq(Element)
    BY <1>6, <1>11, <2>2, CutIsPrefix, ConcatProperties
  <2> QED
    BY <2>3, <2>4, <2>5
<1>15. IsPrefix(x, A \o F[r + 1])
  BY <1>14, PrefixThrough
<1>16. CASE r + 1 <= n
  <2>1. IsPrefix(F[r + 1], F[n]) /\ F[n] \in Seq(Element) /\ A \o F[n] \in Seq(Element)
    <3>1. IsPrefix(F[r + 1], F[n]) /\ F[n] \in Seq(Element)
      BY <1>8, <1>9, <1>12, <1>13, <1>16
    <3> QED
      BY <1>7, <3>1, ConcatProperties
  <2>2. IsPrefix(A \o F[r + 1], A \o F[n])
    BY <1>13, <2>1, PrefixAfter
  <2> QED
    BY <1>10, <1>14, <1>15, <2>1, <2>2, PrefixThrough
<1>17. CASE ~ (r + 1 <= n)
  <2>1. n <= r + 1 /\ e.cnt = 0 /\ n = h
    <3>1. CASE e.cnt = 0
      BY <1>8, <1>17, <3>1
    <3>2. CASE e.cnt # 0
      <4>1. n = e.cnt
        BY <1>8, <3>2
      <4>2. repetitions = e.cnt /\ ~infinite
        BY <1>2, <1>4, <3>2
      <4>3. r < n
        BY <1>3, <4>1, <4>2
      <4> QED
        BY <1>17, <4>3
    <3> QED
      BY <3>1, <3>2
  <2>2. IsPrefix(F[n], F[r + 1]) /\ F[n] \in Seq(Element) /\ Len(F[n]) >= n
    BY <1>9, <1>12, <1>13, <2>1
  <2>3. IsPrefix(A \o F[n], A \o F[r + 1])
    BY <1>13, <2>2, PrefixAfter
  <2>4. A \o F[n] \in Seq(Element) /\ Len(A \o F[n]) = Len(A) + Len(F[n])
    BY <2>2, ConcatProperties
  <2>5. Len(x) <= Len(A \o F[n])
    <3>1. Len(A) \in Nat /\ Len(F[n]) \in Nat /\ Len(x) \in Nat /\ Len(x) <= n
      <4>1. Len(x) <= n
        BY <1>4, <2>1
      <4>2. Len(A) \in Nat /\ Len(x) \in Nat
        OBVIOUS
      <4>3. Len(F[n]) \in Nat
        BY <2>2
      <4> QED
        BY <4>1, <4>2, <4>3
    <3> QED
      BY <2>2, <2>4, <3>1
  <2> QED
    BY <1>10, <1>14, <1>15, <2>3, <2>4, <2>5, PrefixesNest
<1> QED
  BY <1>16, <1>17

\* What is delivered so far is the beginning of what the program means, and a
\* replay reads slots the program stored to.
LEMMA DeliveredMeans ==
  ASSUME InputFifoInv, NEW p \in Seq(Element), StoresBeforeReplays(p), NEW h \in Nat,
         NEW sent, NEW given \in Seq(Element), Delivers(p, h, sent, given),
         NEW x \in Seq(Element), IsPrefix(x, given),
         Len(x) <= h \/ \A k \in 1 .. Len(p) : Replays(p[k]) => p[k].cnt # 0
  PROVE  /\ IsPrefix(x, Unrolled(p, [q \in Positions |-> Blank], h))
         /\ active => 0 .. (length - 1) \subseteq memory_valid
<1>1. PICK k \in 0 .. Len(p) : MemoryHolds(p, h, k) /\ GivenMeans(p, h, k, given)
  BY DEF Delivers
<1>2. PreprocTypeOK /\ ReplayInRange /\ active \in BOOLEAN
  BY DEF InputFifoInv, InputFifoTypeOK, PreprocTypeOK
<1>3. Meant(p, h, k).out \in Seq(Element)
  BY MeantIs DEF Unrollings
<1>4. IsPrefix(x, Meant(p, h, k).out)
  <2>1. CASE active
    <3>1. ReplayPoint(p, h, k, given)
      BY <1>1, <2>1 DEF GivenMeans
    <3>2. p[k].cnt = 0 => Len(x) <= h
      BY <3>1 DEF ReplayPoint
    <3> QED
      BY <1>2, <2>1, <3>1, <3>2, ReplayIsMeant
  <2>2. CASE ~active
    BY <1>1, <2>2 DEF GivenMeans
  <2> QED
    BY <2>1, <2>2
<1>5. IsPrefix(x, Unrolled(p, [q \in Positions |-> Blank], h))
  <2>1. PICK u : u = Unrolled(p, [q \in Positions |-> Blank], h)
    OBVIOUS
  <2>2. IsPrefix(Meant(p, h, k).out, u) /\ u \in Seq(Element)
    BY <2>1, MeantExtends
  <2>3. IsPrefix(x, u)
    BY <1>3, <1>4, <2>2, PrefixThrough
  <2> QED
    BY <2>1, <2>3
<1>6. ASSUME active PROVE 0 .. (length - 1) \subseteq memory_valid
  <2>1. ReplayPoint(p, h, k, given)
    BY <1>1, <1>6 DEF GivenMeans
  <2>2. /\ k \in 1 .. Len(p) /\ k \in DOMAIN p /\ Replays(p[k]) /\ ReqLenValid(p[k])
        /\ length = ReqLen(p[k])
    BY <2>1 DEF ReplayPoint
  <2>3. 0 .. (length - 1) \subseteq StoredBy(p, k - 1)
    BY <2>2 DEF StoresBeforeReplays
  <2>4. StoredBy(p, k - 1) \subseteq StoredBy(p, k)
    <3>1. 1 .. (k - 1) \subseteq 1 .. k
      BY <2>2
    <3> QED
      BY <3>1 DEF StoredBy
  <2> QED
    BY <1>1, <2>3, <2>4 DEF MemoryHolds
<1> QED
  BY <1>5, <1>6
=============================================================================
