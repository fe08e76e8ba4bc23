-------------------------- MODULE HostToolsProofs --------------------------
(***************************************************************************)
(* What is proved about the programs that work on sequences, for every     *)
(* pool of elements:                                                       *)
(*   - the final value the host infers from a sequence is the value the    *)
(*     decoder leaves on the outputs;                                      *)
(*   - pptest 20, whose two threads share a list under a lock, reports no  *)
(*     error of a streamer that works.                                     *)
(***************************************************************************)
EXTENDS HostTools, DataInduction
-----------------------------------------------------------------------------
(***************************************************************************)
(* Sequences whose end can be told: what they play, and the value they end *)
(* at.                                                                     *)
(***************************************************************************)
Constructed == {e \in Element : is_final(e) => e.cnt = 1}
Foreseen == {e \in Constructed : is_regular(e) \/ is_trigger(e) \/ is_final(e)}

Samplings == [prev : Word, k : {0}, out : Seq(OutWord)]
Heard(e) == ~is_trigger(e) /\ e.cnt # 0

\* A bit operation makes a word of two words, and the host's table of them is
\* the decoder's.
LEMMA OperationsAgree ==
  ASSUME NEW e \in Element, NEW prev \in Word
  PROVE  updated_value(e, prev) \in Word /\ updated_value(e, prev) = apply_op(prev, e.val, e.mode)
<1>1. e.mode \in BitOps /\ e.val \subseteq Pins /\ prev \subseteq Pins
  BY DEF Element, Word
<1>2. /\ prev \cap (Pins \ e.val) = prev \ e.val
      /\ e.val \cap prev = prev \cap e.val /\ e.val \cup prev = prev \cup e.val
      /\ SymDiff(e.val, prev) = SymDiff(prev, e.val)
  BY <1>1 DEF SymDiff
<1>3. updated_value(e, prev) = apply_op(prev, e.val, e.mode)
  BY <1>1, <1>2 DEF updated_value, apply_value_kind, apply_op, sll, srl, BitOps
<1>4. apply_op(prev, e.val, e.mode) \subseteq Pins
  BY <1>1 DEF apply_op, BitOps, SymDiff
<1> QED
  BY <1>3, <1>4 DEF Word

\* What one element does to the samples: nothing, or a run of one value.
LEMMA ForeseenStep ==
  ASSUME NEW s \in Samplings, NEW e \in Foreseen
  PROVE  /\ SampleStep(s, e) \in Samplings
         /\ ~Heard(e) => SampleStep(s, e) = s
         /\ Heard(e) =>
              \E v \in Word : \E r \in Seq(OutWord) :
                /\ v = updated_value(e, s.prev) /\ Len(r) = e.cnt
                /\ \A i \in 1 .. Len(r) : r[i] = [data |-> v, control |-> e.control]
                /\ SampleStep(s, e) = [prev |-> v, k |-> 0, out |-> s.out \o r]
<1>0. /\ s.prev \in Word /\ s.out \in Seq(OutWord) /\ s.k = 0
      /\ e \in Element /\ e.cnt \in Nat /\ e.control \in SUBSET ControlBits
  BY DEF Samplings, Element, Foreseen, Constructed
<1>1. is_trigger(e) <=> Is(e, "TRIGGER")
  BY DEF is_trigger, kind, type_from_control, Is
<1>2. CASE ~Heard(e)
  BY <1>1, <1>2 DEF Heard, SampleStep
<1>3. CASE Heard(e)
  <2>1. ~Is(e, "PRNG") /\ ~Is(e, "TRIGGER") /\ e.cnt # 0
    BY <1>1, <1>3 DEF Heard, Foreseen, is_trigger, is_final, is_regular, kind, type_from_control, Is
  <2>2. PICK v \in Word : v = updated_value(e, s.prev) /\ v = apply_op(s.prev, e.val, e.mode)
    BY <1>0, OperationsAgree
  <2>3. PICK w \in OutWord : w = [data |-> v, control |-> e.control]
    BY <1>0 DEF OutWord
  <2>4. PICK n \in Nat \ {0} : n = e.cnt
    BY <1>0, <2>1
  <2>5. PICK r \in Seq(OutWord) : r = [i \in 1 .. n |-> w]
    <3>1. [i \in 1 .. n |-> w] \in Seq(OutWord)
      OBVIOUS
    <3> QED
      BY <3>1
  <2>6. SampleRun(s, e) = r
    BY <2>1, <2>2, <2>3, <2>4, <2>5 DEF SampleRun
  <2>7. Len(r) = n /\ (\A i \in 1 .. Len(r) : r[i] = w) /\ r[n] = w
    BY <2>5
  <2>8. SampleStep(s, e) = [prev |-> v, k |-> 0, out |-> s.out \o r]
    BY <1>0, <2>1, <2>3, <2>4, <2>6, <2>7 DEF SampleStep
  <2>9. s.out \o r \in Seq(OutWord)
    BY <1>0, ConcatProperties, Zenon
  <2>10. SampleStep(s, e) \in Samplings
    BY <2>8, <2>9 DEF Samplings
  <2>11. /\ v = updated_value(e, s.prev) /\ Len(r) = e.cnt
         /\ \A i \in 1 .. Len(r) : r[i] = [data |-> v, control |-> e.control]
         /\ SampleStep(s, e) = [prev |-> v, k |-> 0, out |-> s.out \o r]
    BY <2>2, <2>3, <2>4, <2>7, <2>8
  <2> QED
    BY <1>3, <2>10, <2>11, Zenon
<1> QED
  BY <1>0, <1>2, <1>3

\* The table of samples of such a sequence.
LEMMA ForeseenTable ==
  ASSUME NEW p \in Seq(Foreseen), NEW q \in Word
  PROVE  /\ Sampling(p, q) \in [0 .. Len(p) -> Samplings]
         /\ Sampling(p, q)[0] = SampleStart(q)
         /\ \A i \in 1 .. Len(p) : Sampling(p, q)[i] = SampleStep(Sampling(p, q)[i - 1], p[i])
<1> DEFINE n == Len(p)
           step == [r \in Samplings \X (1 .. n) |-> SampleStep(r[1], p[r[2]])]
           Body(f) == [i \in 0 .. n |-> IF i = 0 THEN SampleStart(q)
                                                 ELSE SampleStep(f[i - 1], p[i])]
           t == CHOOSE f : f = Body(f)
<1>0. n \in Nat /\ \A i \in 1 .. n : p[i] \in Foreseen
  OBVIOUS
<1>1. SampleStart(q) \in Samplings
  <2>1. <<>> \in Seq(OutWord)
    OBVIOUS
  <2> QED
    BY <2>1 DEF SampleStart, Samplings
<1> HIDE DEF n
<1>2. step \in [Samplings \X (1 .. n) -> Samplings]
  <2>1. ASSUME NEW r \in Samplings \X (1 .. n) PROVE SampleStep(r[1], p[r[2]]) \in Samplings
    BY <1>0, ForeseenStep
  <2> QED
    BY <2>1
<1>3. \A l \in Samplings, i \in 1 .. n : step[<<l, i>>] = SampleStep(l, p[i])
  OBVIOUS
<1> HIDE DEF step
<1>4. PICK f \in [0 .. n -> Samplings] : Table(f, SampleStart(q), step, n)
  BY <1>0, <1>1, <1>2, TableExists
<1>5. f = Body(f)
  <2>1. ASSUME NEW i \in 0 .. n PROVE f[i] = Body(f)[i]
    <3>1. CASE i = 0
      BY <1>4, <3>1 DEF Table
    <3>2. CASE i # 0
      <4>1. i \in 1 .. n /\ i - 1 \in 0 .. n
        BY <1>0, <3>2
      <4> QED
        BY <1>3, <1>4, <3>2, <4>1 DEF Table
    <3> QED
      BY <3>1, <3>2
  <2> QED
    BY <1>4, <2>1
<1>6. t = Body(t)
  BY <1>5
<1>7. Sampling(p, q) = t
  BY DEF Sampling, n
<1> DEFINE S == {k \in Nat : k <= n => t[k] \in Samplings}
<1> HIDE DEF t
<1>8. 0 \in S
  BY <1>0, <1>1, <1>6
<1>9. ASSUME NEW k \in Nat, k \in S PROVE k + 1 \in S
  <2> SUFFICES ASSUME k + 1 <= n PROVE t[k + 1] \in Samplings
    OBVIOUS
  <2>1. k + 1 \in 1 .. n /\ k + 1 \in 0 .. n /\ k + 1 # 0 /\ (k + 1) - 1 = k /\ k <= n
    BY <1>0
  <2>2. t[k + 1] = SampleStep(t[k], p[k + 1])
    BY <1>6, <2>1
  <2> QED
    BY <1>0, <1>9, <2>1, <2>2, ForeseenStep
<1> HIDE DEF S
<1>10. Nat \subseteq S
  BY <1>8, <1>9, NatInductive
<1>11. \A k \in 0 .. n : t[k] \in Samplings
  BY <1>0, <1>10 DEF S
<1>12. DOMAIN t = 0 .. n /\ t = [i \in 0 .. n |-> t[i]]
  BY <1>6
<1>13. t \in [0 .. n -> Samplings]
  BY <1>11, <1>12
<1>14. t[0] = SampleStart(q) /\ \A i \in 1 .. n : t[i] = SampleStep(t[i - 1], p[i])
  <2>1. 0 \in 0 .. n /\ \A i \in 1 .. n : i \in 0 .. n /\ i # 0
    BY <1>0
  <2> QED
    BY <1>6, <2>1
<1> QED
  BY <1>7, <1>13, <1>14 DEF n

\* What holds of the samples after the first i elements of n: the value reached is
\* the last one shown, and only the last element may have brought a terminator.
Showing(st, v, ends) ==
  /\ st.out = <<>> => st.prev = v
  /\ st.out # <<>> => st.out[Len(st.out)].data = st.prev
  /\ \A m \in 1 .. Len(st.out) : Is(st.out[m], "TERMINATE") => ends /\ m = Len(st.out)

\* An element shows its last sample, and only a terminator ends.
LEMMA ShowingStep ==
  ASSUME NEW st \in Samplings, NEW e \in Foreseen, NEW v \in Word, Showing(st, v, FALSE)
  PROVE  Showing(SampleStep(st, e), v, is_final(e))
<1>1. CASE ~Heard(e)
  <2>1. SampleStep(st, e) = st
    BY <1>1, ForeseenStep
  <2> QED
    BY <2>1 DEF Showing
<1>2. CASE Heard(e)
  <2>1. \E w \in Word : \E r \in Seq(OutWord) :
          /\ w = updated_value(e, st.prev) /\ Len(r) = e.cnt
          /\ \A i \in 1 .. Len(r) : r[i] = [data |-> w, control |-> e.control]
          /\ SampleStep(st, e) = [prev |-> w, k |-> 0, out |-> st.out \o r]
    BY <1>2, ForeseenStep, Zenon
  <2>2. PICK w \in Word, r \in Seq(OutWord) :
          /\ w = updated_value(e, st.prev) /\ Len(r) = e.cnt
          /\ \A i \in 1 .. Len(r) : r[i] = [data |-> w, control |-> e.control]
          /\ SampleStep(st, e) = [prev |-> w, k |-> 0, out |-> st.out \o r]
    BY <2>1, Zenon
  <2>3. PICK o \in Seq(OutWord) : o = st.out
    BY DEF Samplings
  <2>4. PICK n \in Nat \ {0} : n = e.cnt /\ Len(r) = n
    BY <1>2, <2>2 DEF Heard, Foreseen, Constructed, Element
  <2>5. PICK a \in Seq(OutWord) : /\ a = o \o r /\ Len(a) = Len(o) + n
                                  /\ \A m \in 1 .. Len(o) : a[m] = o[m]
                                  /\ \A i \in 1 .. n : a[Len(o) + i] = r[i]
    <3>1. /\ o \o r \in Seq(OutWord) /\ Len(o \o r) = Len(o) + n
          /\ \A m \in 1 .. Len(o) : (o \o r)[m] = o[m]
          /\ \A i \in 1 .. n : (o \o r)[Len(o) + i] = r[i]
      BY <2>4
    <3> QED
      BY <3>1
  <2>6. SampleStep(st, e) = [prev |-> w, k |-> 0, out |-> a]
    BY <2>2, <2>3, <2>5
  <2>7. Len(o) \in Nat /\ n \in 1 .. n /\ a # <<>>
    BY <2>5
  <2>8. a[Len(a)].data = w
    BY <2>2, <2>4, <2>5, <2>7
  <2>9. ASSUME NEW m \in 1 .. Len(a), Is(a[m], "TERMINATE") PROVE is_final(e) /\ m = Len(a)
    <3>1. CASE m <= Len(o)
      <4>1. m \in 1 .. Len(o) /\ a[m] = st.out[m]
        BY <2>3, <2>5, <2>7, <3>1
      <4> QED
        BY <2>3, <2>9, <4>1 DEF Showing
    <3>2. CASE m > Len(o)
      <4>1. PICK i \in 1 .. n : m = Len(o) + i
        <5>1. m - Len(o) \in 1 .. n /\ m = Len(o) + (m - Len(o))
          BY <2>5, <2>7, <3>2
        <5> QED
          BY <5>1
      <4>2. a[m].control = e.control
        BY <2>2, <2>4, <2>5, <4>1
      <4>3. is_final(e)
        BY <1>2, <2>9, <4>2 DEF Is, Foreseen, is_regular, is_trigger, is_final, kind, type_from_control,
           Heard
      <4>4. n = 1
        BY <2>4, <4>3 DEF Foreseen, Constructed
      <4> QED
        BY <2>5, <4>1, <4>3, <4>4
    <3> QED
      BY <2>7, <3>1, <3>2
  <2> QED
    BY <2>6, <2>7, <2>8, <2>9 DEF Showing
<1> QED
  BY <1>1, <1>2

\* Of a sequence with its terminator at the end.
LEMMA ShowsLast ==
  ASSUME NEW s \in Seq(Foreseen), NEW v \in Word, validate_final_is_terminal(s)
  PROVE  Sampling(s, v)[Len(s)] \in Samplings /\ Showing(Sampling(s, v)[Len(s)], v, TRUE)
<1> DEFINE n == Len(s)
           S == Sampling(s, v)
           A == {k \in Nat : k <= n => Showing(S[k], v, k = n)}
<1>1. /\ n \in Nat /\ DOMAIN s = 1 .. n /\ \A i \in 1 .. n : s[i] \in Foreseen
      /\ \A i \in 1 .. n : is_final(s[i]) => i = n
  BY DEF validate_final_is_terminal
<1>2. /\ S \in [0 .. n -> Samplings] /\ S[0] = SampleStart(v)
      /\ \A i \in 1 .. n : S[i] = SampleStep(S[i - 1], s[i])
  BY ForeseenTable
<1> HIDE DEF n, S
<1>3. 0 \in A
  <2>1. S[0].out = <<>> /\ S[0].prev = v
    BY <1>2 DEF SampleStart
  <2> QED
    BY <2>1 DEF Showing
<1>4. ASSUME NEW k \in Nat, k \in A PROVE k + 1 \in A
  <2> SUFFICES ASSUME k + 1 <= n PROVE Showing(S[k + 1], v, k + 1 = n)
    OBVIOUS
  <2>1. k + 1 \in 1 .. n /\ k \in 0 .. n /\ (k + 1) - 1 = k /\ k <= n /\ k # n
    BY <1>1
  <2>2. S[k] \in Samplings /\ S[k + 1] = SampleStep(S[k], s[k + 1]) /\ s[k + 1] \in Foreseen
    BY <1>1, <1>2, <2>1
  <2>3. Showing(S[k], v, FALSE)
    BY <1>4, <2>1
  <2>4. Showing(S[k + 1], v, is_final(s[k + 1]))
    BY <2>2, <2>3, ShowingStep
  <2> QED
    BY <1>1, <2>1, <2>4 DEF Showing
<1> HIDE DEF A
<1>5. n \in A
  <2>1. Nat \subseteq A
    BY <1>3, <1>4, NatInductive
  <2> QED
    BY <1>1, <2>1
<1>6. Showing(S[n], v, n = n)
  BY <1>1, <1>5 DEF A
<1>7. Showing(S[n], v, TRUE)
  BY <1>6, Zenon DEF Showing
<1>8. S[n] \in Samplings
  <2>1. n \in 0 .. n
    BY <1>1
  <2> QED
    BY <1>2, <2>1
<1> QED
  BY <1>7, <1>8, Zenon DEF n, S

\* The samples that end with the terminator are all of them.
LEMMA AllToTerminator ==
  ASSUME NEW o \in Seq(OutWord),
         \A m \in 1 .. Len(o) : Is(o[m], "TERMINATE") => m = Len(o)
  PROVE  UpToTerminator(o) = o
<1> DEFINE ends == {m \in DOMAIN o : Is(o[m], "TERMINATE")}
<1>1. ends \subseteq {Len(o)} /\ Len(o) \in Nat
  OBVIOUS
<1>2. CASE ends = {}
  BY <1>2, SMTT(60) DEF UpToTerminator
<1>3. CASE ends # {}
  <2>1. ends = {Len(o)}
    BY <1>1, <1>3
  <2>2. Min(ends) = Len(o)
    BY <1>1, <2>1 DEF Min
  <2>3. SubSeq(o, 1, Len(o)) = o
    OBVIOUS
  <2> QED
    BY <1>3, <2>2, <2>3 DEF UpToTerminator
<1> QED
  BY <1>2, <1>3

\* infer_sequence_final_output follows the values the decoder computes.
LEMMA InferIs ==
  ASSUME NEW s \in Seq(Foreseen), NEW v \in Word, validate_final_is_terminal(s)
  PROVE  infer_sequence_final_output(s, v) \in {Sampling(s, v)[Len(s)].prev, None}
<1> DEFINE n == Len(s)
           S == Sampling(s, v)
           applied(e) == is_final(e) \/ (is_regular(e) /\ e.cnt # 0)
           Body(f) == [i \in 0 .. n |-> IF i = 0 THEN v
                                        ELSE IF applied(s[i]) THEN updated_value(s[i], f[i - 1])
                                        ELSE f[i - 1]]
           g == [i \in 0 .. n |-> S[i].prev]
           t == CHOOSE f : f = Body(f)
<1>1. n \in Nat /\ \A i \in 1 .. n : s[i] \in Foreseen
  OBVIOUS
<1>2. /\ S \in [0 .. n -> Samplings] /\ S[0] = SampleStart(v)
      /\ \A i \in 1 .. n : S[i] = SampleStep(S[i - 1], s[i])
  BY ForeseenTable
<1>4. infer_sequence_final_output(s, v) \in {t[n], None}
  BY DEF infer_sequence_final_output
<1> HIDE DEF n, S
<1>6. S[0].prev = v
  BY <1>2 DEF SampleStart
<1>7. ASSUME NEW i \in 1 .. n
      PROVE  S[i].prev = IF applied(s[i]) THEN updated_value(s[i], S[i - 1].prev) ELSE S[i - 1].prev
  <2>1. i - 1 \in 0 .. n /\ s[i] \in Foreseen
    BY <1>1
  <2>2. S[i - 1] \in Samplings /\ S[i] = SampleStep(S[i - 1], s[i])
    BY <1>2, <2>1
  <2>3. PICK e \in Foreseen : e = s[i]
    BY <2>1
  <2>4. applied(e) <=> Heard(e)
    BY DEF Heard, Foreseen, Constructed, is_regular, is_trigger, is_final
  <2>5. Heard(e) => SampleStep(S[i - 1], e).prev = updated_value(e, S[i - 1].prev)
    <3>1. ASSUME Heard(e)
          PROVE  \E w \in Word : \E r \in Seq(OutWord) :
                   /\ w = updated_value(e, S[i - 1].prev) /\ Len(r) = e.cnt
                   /\ \A m \in 1 .. Len(r) : r[m] = [data |-> w, control |-> e.control]
                   /\ SampleStep(S[i - 1], e) = [prev |-> w, k |-> 0, out |-> S[i - 1].out \o r]
      BY <2>2, <3>1, ForeseenStep, Zenon
    <3>2. ASSUME Heard(e)
          PROVE  SampleStep(S[i - 1], e).prev = updated_value(e, S[i - 1].prev)
      <4>1. PICK w \in Word, r \in Seq(OutWord) :
              /\ w = updated_value(e, S[i - 1].prev) /\ Len(r) = e.cnt
              /\ \A m \in 1 .. Len(r) : r[m] = [data |-> w, control |-> e.control]
              /\ SampleStep(S[i - 1], e) = [prev |-> w, k |-> 0, out |-> S[i - 1].out \o r]
        BY <3>1, <3>2, Zenon
      <4> QED
        BY <4>1
    <3> QED
      BY <3>2
  <2>6. ~Heard(e) => SampleStep(S[i - 1], e) = S[i - 1]
    BY <2>2, ForeseenStep
  <2> HIDE DEF applied
  <2> QED
    BY <2>2, <2>3, <2>4, <2>5, <2>6
<1> HIDE DEF applied
<1>8. g = Body(g)
  <2>1. ASSUME NEW i \in 0 .. n PROVE g[i] = Body(g)[i]
    <3>1. CASE i = 0
      BY <1>6, <3>1
    <3>2. CASE i # 0
      <4>1. i \in 1 .. n /\ i - 1 \in 0 .. n
        BY <1>1, <3>2
      <4> QED
        BY <1>7, <3>2, <4>1
    <3> QED
      BY <3>1, <3>2
  <2> QED
    BY <2>1
<1>9. t = Body(t)
  BY <1>8
<1> HIDE DEF g, t
<1> DEFINE A == {k \in Nat : k <= n => t[k] = S[k].prev}
<1>10. 0 \in A
  BY <1>1, <1>6, <1>9
<1>11. ASSUME NEW k \in Nat, k \in A PROVE k + 1 \in A
  <2> SUFFICES ASSUME k + 1 <= n PROVE t[k + 1] = S[k + 1].prev
    OBVIOUS
  <2>1. k + 1 \in 1 .. n /\ k + 1 \in 0 .. n /\ k + 1 # 0 /\ (k + 1) - 1 = k /\ k <= n
    BY <1>1
  <2>2. t[k + 1] = IF applied(s[k + 1]) THEN updated_value(s[k + 1], t[k]) ELSE t[k]
    BY <1>9, <2>1
  <2> QED
    BY <1>7, <1>11, <2>1, <2>2
<1> HIDE DEF A
<1>12. Nat \subseteq A
  BY <1>10, <1>11, NatInductive
<1>13. t[n] = S[n].prev
  BY <1>1, <1>12 DEF A
<1> QED
  BY <1>4, <1>13 DEF n, S

\* FinalKnown of any such sequence.
LEMMA FinalKnownOf ==
  ASSUME NEW s \in Seq(Constructed), NEW v \in Word
  PROVE  LET final == infer_sequence_final_output(s, v)
             played == UpToTerminator(Samples(s, v))
         IN  final \notin {Error, None} =>
               final = IF played = <<>> THEN v ELSE Last(played).data
<1> DEFINE final == infer_sequence_final_output(s, v)
           played == UpToTerminator(Samples(s, v))
<1> SUFFICES ASSUME final \notin {Error, None}
             PROVE  final = IF played = <<>> THEN v ELSE Last(played).data
  OBVIOUS
<1>1. validate_final_is_terminal(s) /\ Predictable(s)
  BY DEF infer_sequence_final_output
<1>2. s \in Seq(Foreseen)
  <2>1. \A i \in 1 .. Len(s) : s[i] \in Foreseen
    BY <1>1 DEF Predictable, Foreseen
  <2>2. Len(s) \in Nat /\ s = [i \in 1 .. Len(s) |-> s[i]]
    OBVIOUS
  <2>3. s \in [1 .. Len(s) -> Foreseen]
    BY <2>1, <2>2
  <2> QED
    BY <2>2, <2>3, SeqDef
<1>3. PICK st \in Samplings : st = Sampling(s, v)[Len(s)] /\ Showing(st, v, TRUE)
  BY <1>1, <1>2, ShowsLast
<1>4. final = st.prev
  BY <1>1, <1>2, <1>3, InferIs
<1>5. PICK o \in Seq(OutWord) : o = st.out /\ Samples(s, v) = o
  BY <1>3 DEF Samples, Samplings
<1>6. played = o
  <2>1. \A m \in 1 .. Len(o) : Is(o[m], "TERMINATE") => m = Len(o)
    BY <1>3, <1>5 DEF Showing
  <2> QED
    BY <1>5, <2>1, AllToTerminator
<1>7. o = <<>> => st.prev = v
  BY <1>3, <1>5 DEF Showing
<1>8. o # <<>> => o[Len(o)].data = st.prev
  BY <1>3, <1>5 DEF Showing
<1>9. Last(o) = o[Len(o)]
  BY DEF Last
<1> HIDE DEF final, played
<1> QED
  BY <1>4, <1>6, <1>7, <1>8, <1>9
-----------------------------------------------------------------------------
(***************************************************************************)
(* The elements a read-back makes: the fields of a run, cut from bus words *)
(* that hold enough bits.                                                  *)
(***************************************************************************)
\* Bits stand for a number.
LEMMA BitsMakeNumber ==
  ASSUME NEW b, Len(b) \in Nat
  PROVE  NumberOfBits(b) \in Nat
<1> DEFINE n == Len(b)
           bit(i) == IF b[i] THEN 1 ELSE 0
           step == [r \in Nat \X (1 .. n) |-> 2 * r[1] + bit(r[2])]
           Body(f) == [i \in 0 .. n |-> IF i = 0 THEN 0 ELSE 2 * f[i - 1] + bit(i)]
           t == CHOOSE f : f = Body(f)
<1>1. \A i \in 1 .. n : bit(i) \in Nat
  <2>1. ASSUME NEW i \in 1 .. n PROVE bit(i) \in {0, 1}
    BY Zenon
  <2> QED
    BY <2>1
<1>2. NumberOfBits(b) = t[n] /\ n \in Nat
  BY DEF NumberOfBits
<1> HIDE DEF n, bit
<1>3. step \in [Nat \X (1 .. n) -> Nat]
  <2>1. ASSUME NEW r \in Nat \X (1 .. n) PROVE 2 * r[1] + bit(r[2]) \in Nat
    BY <1>1
  <2> QED
    BY <2>1
<1>4. \A l \in Nat, i \in 1 .. n : step[<<l, i>>] = 2 * l + bit(i)
  OBVIOUS
<1> HIDE DEF step
<1>5. PICK f \in [0 .. n -> Nat] : Table(f, 0, step, n)
  BY <1>2, <1>3, TableExists
<1>6. f = Body(f)
  <2>1. ASSUME NEW i \in 0 .. n PROVE f[i] = Body(f)[i]
    <3>1. CASE i = 0
      BY <1>5, <3>1 DEF Table
    <3>2. CASE i # 0
      <4>1. i \in 1 .. n /\ i - 1 \in 0 .. n
        BY <1>2, <3>2
      <4> QED
        BY <1>4, <1>5, <3>2, <4>1 DEF Table
    <3> QED
      BY <3>1, <3>2
  <2> QED
    BY <1>5, <2>1
<1>7. t = Body(t)
  BY <1>6
<1> HIDE DEF t
<1> DEFINE A == {k \in Nat : k <= n => t[k] \in Nat}
<1>8. 0 \in A
  BY <1>2, <1>7
<1>9. ASSUME NEW k \in Nat, k \in A PROVE k + 1 \in A
  <2> SUFFICES ASSUME k + 1 <= n PROVE t[k + 1] \in Nat
    OBVIOUS
  <2>1. k + 1 \in 1 .. n /\ k + 1 \in 0 .. n /\ k + 1 # 0 /\ (k + 1) - 1 = k /\ k <= n
    BY <1>2
  <2>2. t[k + 1] = 2 * t[k] + bit(k + 1)
    BY <1>7, <2>1
  <2> QED
    BY <1>1, <1>9, <2>1, <2>2
<1> HIDE DEF A
<1>10. Nat \subseteq A
  BY <1>8, <1>9, NatInductive
<1> QED
  BY <1>2, <1>10 DEF A

\* A reader that has the bits that remain, and spare more.
Reader(spare) ==
  {g \in [words : Seq(Nat), avail : 0 .. WIDTH_AVS_BUS, field : Nat, remaining : Nat] :
     /\ g.words # <<>>
     /\ g.remaining + spare <= g.avail + (Len(g.words) - 1) * WIDTH_AVS_BUS}

LEMMA ReaderMade ==
  ASSUME NEW c \in Nat, NEW ws \in Seq(Nat), ws # <<>>, NEW a \in 0 .. WIDTH_AVS_BUS, NEW f \in Nat,
         NEW r \in Nat, NEW m \in Int, m = (Len(ws) - 1) * WIDTH_AVS_BUS, r + c <= a + m
  PROVE  [words |-> ws, avail |-> a, field |-> f, remaining |-> r] \in Reader(c)
BY DEF Reader

\* The two updates of a reader.
LEMMA ReaderRefilled ==
  ASSUME NEW c \in Nat, NEW g \in Reader(c), NEW ws \in Seq(Nat), ws # <<>>,
         NEW a \in 0 .. WIDTH_AVS_BUS,
         NEW m \in Int, m = (Len(ws) - 1) * WIDTH_AVS_BUS, g.remaining + c <= a + m
  PROVE  [g EXCEPT !.words = ws, !.avail = a] \in Reader(c)
BY DEF Reader
LEMMA ReaderTook ==
  ASSUME NEW c \in Nat, NEW g \in Reader(c), NEW f \in Nat, NEW a \in 0 .. WIDTH_AVS_BUS,
         NEW r \in Nat, NEW m \in Int, m = (Len(g.words) - 1) * WIDTH_AVS_BUS, r + c <= a + m
  PROVE  [g EXCEPT !.field = f, !.avail = a, !.remaining = r] \in Reader(c)
BY DEF Reader

LEMMA WordRead ==
  ASSUME NEW c \in Nat, NEW g \in Reader(c), g.remaining # 0
  PROVE  read_fifo_word(g) \in Reader(c)
<1>1. PICK b \in Nat \ {0} : b = WIDTH_AVS_BUS
  BY FieldsAssumption
<1>2. PICK r \in Nat \ {0} : r = g.remaining
  BY DEF Reader
<1> DEFINE w == IF g.avail > 0 THEN g ELSE [g EXCEPT !.words = Tail(@), !.avail = WIDTH_AVS_BUS]
<1>3. PICK l \in Nat : l = Len(g.words) - 1
  <2>1. g.words \in Seq(Nat) /\ g.words # <<>>
    BY DEF Reader
  <2>2. Len(g.words) \in Nat /\ Len(g.words) # 0
    BY <2>1
  <2> QED
    BY <2>2
<1>4. g.avail = 0 => l # 0
  <2>1. g.avail = 0 => l * b >= 1
    BY <1>1, <1>2, <1>3 DEF Reader
  <2>2. l = 0 => l * b = 0
    BY <1>1
  <2> QED
    BY <2>1, <2>2
<1>5. w \in Reader(c) /\ w.avail \in 1 .. b /\ w.remaining = r
  <2>1. CASE g.avail > 0
    BY <1>1, <1>2, <2>1 DEF Reader
  <2>2. CASE g.avail = 0
    <3>1. PICK ts \in Seq(Nat) : ts = Tail(g.words) /\ Len(ts) = l /\ ts # <<>>
      <4>1. g.words \in Seq(Nat) /\ g.words # <<>>
        BY DEF Reader
      <4>2. Tail(g.words) \in Seq(Nat) /\ Len(Tail(g.words)) = l
        BY <1>3, <4>1
      <4>3. Tail(g.words) # <<>>
        <5>1. Len(Tail(g.words)) # 0
          BY <1>4, <2>2, <4>2
        <5>2. Len(<<>>) = 0
          OBVIOUS
        <5> QED
          BY <5>1, <5>2, Zenon
      <4> QED
        BY <4>2, <4>3, Zenon
    <3>2. w = [g EXCEPT !.words = ts, !.avail = b]
      BY <1>1, <2>2, <3>1
    <3>3. b + (l - 1) * b = l * b
      BY <1>1
    <3>4. r + c <= l * b
      BY <1>1, <1>2, <1>3, <2>2 DEF Reader
    <3>5. PICK m \in Int : m = (l - 1) * b
      BY <1>1
    <3>6. /\ b \in 0 .. WIDTH_AVS_BUS
          /\ m = (Len(ts) - 1) * WIDTH_AVS_BUS
          /\ g.remaining + c <= b + m
      <4>1. b \in 0 .. WIDTH_AVS_BUS
        BY <1>1
      <4>2. m = (Len(ts) - 1) * WIDTH_AVS_BUS
        BY <1>1, <3>1, <3>5
      <4>3. g.remaining + c <= b + m
        BY <1>2, <3>3, <3>4, <3>5
      <4> QED
        BY <4>1, <4>2, <4>3
    <3> HIDE DEF w
    <3>7. w \in Reader(c) /\ w.avail = b /\ w.remaining = g.remaining
      <4>1. [g EXCEPT !.words = ts, !.avail = b] \in Reader(c)
        BY <3>1, <3>5, <3>6, ReaderRefilled, Zenon
      <4>2. w.avail = b /\ w.remaining = g.remaining
        BY <3>2 DEF Reader
      <4> QED
        BY <3>2, <4>1, <4>2, Zenon
    <3> QED
      BY <1>2, <3>7
  <2> QED
    BY <2>1, <2>2 DEF Reader
<1> HIDE DEF w
<1> DEFINE take == IF w.remaining < w.avail THEN w.remaining ELSE w.avail
           shift == w.avail - take
<1>6. take \in 1 .. b /\ take <= r /\ shift \in 0 .. b /\ take + shift = w.avail
  BY <1>5
<1> HIDE DEF take, shift
<1>7. PICK p \in Nat \ {0}, q \in Nat \ {0} : p = 2^take /\ q = 2^shift
  <2>1. take \in 0 .. WIDTH_AVS_BUS /\ shift \in 0 .. WIDTH_AVS_BUS
    BY <1>1, <1>6
  <2> QED
    BY <2>1, FieldsAssumption
<1>8. w.words[1] \in Nat /\ w.field \in Nat
  <2>1. w.words \in Seq(Nat) /\ w.words # <<>> /\ w.field \in Nat
    BY <1>5 DEF Reader
  <2>2. 1 \in 1 .. Len(w.words)
    BY <2>1
  <2> QED
    BY <2>1, <2>2
<1>9. PICK f \in Nat : f = w.field * p + ((w.words[1] \div q) % p)
  <2>1. (w.words[1] \div q) % p \in Nat
    BY <1>7, <1>8
  <2>2. w.field * p \in Nat
    BY <1>7, <1>8
  <2> QED
    BY <2>1, <2>2
<1>10. read_fifo_word(g) = [w EXCEPT !.field = f, !.avail = shift, !.remaining = r - take]
  <2>1. read_fifo_word(g) =
          [w EXCEPT !.field = @ * 2^take + ((w.words[1] \div 2^shift) % 2^take),
                    !.avail = shift, !.remaining = @ - take]
    BY DEF read_fifo_word, w, take, shift
  <2>2. f = w.field * 2^take + ((w.words[1] \div 2^shift) % 2^take)
    BY <1>7, <1>9
  <2> QED
    BY <1>5, <2>1, <2>2, Zenon
<1>11. PICK m \in Int : m = (Len(w.words) - 1) * b
  BY <1>1, <1>5 DEF Reader
<1>12. (r - take) + c <= shift + m
  BY <1>1, <1>5, <1>6, <1>11 DEF Reader
<1>13. /\ w.words \in Seq(Nat) /\ w.words # <<>> /\ shift \in 0 .. WIDTH_AVS_BUS /\ r - take \in Nat
       /\ m = (Len(w.words) - 1) * WIDTH_AVS_BUS
  BY <1>1, <1>5, <1>6, <1>11 DEF Reader
<1> QED
  <2>1. [w EXCEPT !.field = f, !.avail = shift, !.remaining = r - take] \in Reader(c)
    BY <1>5, <1>9, <1>11, <1>12, <1>13, ReaderTook, Zenon
  <2> QED
    BY <1>10, <2>1, Zenon

LEMMA FieldRead ==
  ASSUME NEW n \in Nat, NEW c \in Nat, NEW f \in Reader(n + c)
  PROVE  read_fifo_field(f, n) \in Reader(c)
<1> DEFINE start == [f EXCEPT !.field = 0, !.remaining = n]
           Turn(g) == IF g.remaining = 0 THEN g ELSE read_fifo_word(g)
           step == [r \in Reader(c) \X (1 .. n) |-> Turn(r[1])]
           Body(h) == [i \in 0 .. n |-> IF i = 0 THEN start ELSE Turn(h[i - 1])]
           t == CHOOSE h : h = Body(h)
<1>1. start \in Reader(c)
  <2>1. PICK m \in Int : m = (Len(f.words) - 1) * WIDTH_AVS_BUS
    BY FieldsAssumption DEF Reader
  <2>2. n + c <= f.avail + m
    BY <2>1 DEF Reader
  <2> QED
    BY <2>1, <2>2 DEF Reader
<1>2. read_fifo_field(f, n) = t[n]
  BY DEF read_fifo_field
<1> HIDE DEF start
<1>3. \A g \in Reader(c) : Turn(g) \in Reader(c)
  BY WordRead
<1> HIDE DEF Turn
<1>4. step \in [Reader(c) \X (1 .. n) -> Reader(c)]
  <2>1. ASSUME NEW r \in Reader(c) \X (1 .. n) PROVE Turn(r[1]) \in Reader(c)
    BY <1>3
  <2> QED
    BY <2>1
<1>5. \A l \in Reader(c), i \in 1 .. n : step[<<l, i>>] = Turn(l)
  OBVIOUS
<1> HIDE DEF step
<1>6. PICK h \in [0 .. n -> Reader(c)] : Table(h, start, step, n)
  BY <1>1, <1>4, TableExists
<1>7. h = Body(h)
  <2>1. ASSUME NEW i \in 0 .. n PROVE h[i] = Body(h)[i]
    <3>1. CASE i = 0
      BY <1>6, <3>1 DEF Table
    <3>2. CASE i # 0
      <4>1. i \in 1 .. n /\ i - 1 \in 0 .. n
        BY <3>2
      <4> QED
        BY <1>5, <1>6, <3>2, <4>1 DEF Table
    <3> QED
      BY <3>1, <3>2
  <2> QED
    BY <1>6, <2>1
<1>8. t = Body(t)
  BY <1>7
<1> HIDE DEF t
<1> DEFINE A == {k \in Nat : k <= n => t[k] \in Reader(c)}
<1>9. 0 \in A
  BY <1>1, <1>8
<1>10. ASSUME NEW k \in Nat, k \in A PROVE k + 1 \in A
  <2> SUFFICES ASSUME k + 1 <= n PROVE t[k + 1] \in Reader(c)
    OBVIOUS
  <2>1. k + 1 \in 0 .. n /\ k + 1 # 0 /\ (k + 1) - 1 = k /\ k <= n
    OBVIOUS
  <2>2. t[k + 1] = Turn(t[k])
    BY <1>8, <2>1
  <2> QED
    BY <1>3, <1>10, <2>1, <2>2
<1> HIDE DEF A
<1>11. Nat \subseteq A
  BY <1>9, <1>10, NatInductive
<1> QED
  BY <1>2, <1>11 DEF A

\* The words of an element hold the bits of its fields.
LEMMA EnoughWords ==
  /\ fifo_words_per_element \in Nat
  /\ (WIDTH_CONTROL + WIDTH_COUNTER) + WIDTH_DATA <= fifo_words_per_element * WIDTH_AVS_BUS
<1>1. PICK b \in Nat \ {0} : b = WIDTH_AVS_BUS
  BY FieldsAssumption
<1>2. PICK n \in Nat : n = (WIDTH_CONTROL + WIDTH_COUNTER) + WIDTH_DATA
  BY FieldsAssumption, WidthAssumption
<1>3. fifo_words_per_element = (n + b - 1) \div b
  BY <1>1, <1>2 DEF fifo_words_per_element
<1>4. PICK x \in Nat : x = n + b - 1
  BY <1>1
<1>5. x \div b \in Nat /\ x = b * (x \div b) + (x % b) /\ x % b \in 0 .. (b - 1)
  BY <1>1
<1>6. PICK y \in Nat, z \in 0 .. (b - 1) : y = x \div b /\ z = x % b /\ x = y * b + z
  BY <1>1, <1>5
<1>7. PICK m \in Nat : m = y * b
  BY <1>1
<1>8. n <= m
  BY <1>4, <1>6, <1>7
<1> QED
  BY <1>1, <1>2, <1>3, <1>4, <1>6, <1>7, <1>8

LEMMA RunsAreConstructed ==
  ASSUME NEW n \in Nat, NEW v \in Word
  PROVE  Regular(n, "LOAD", v) \in Constructed /\ is_regular(Regular(n, "LOAD", v))
<1>1. 0 \in Positions
  BY MemoryAssumption DEF Positions
<1> QED
  BY <1>1 DEF Regular, Constructed, Element, is_final, is_regular, kind, type_from_control, BitOps

\* What ppread reads of a run is an element of the sequence's.
LEMMA CaptureConstructed ==
  ASSUME NEW e
  PROVE  read(BusWords(e)) \in Constructed
<1> DEFINE ws == BusWords(e)
           start == [words |-> <<0>> \o ws, avail |-> 0, field |-> 0, remaining |-> 0]
           control == read_fifo_field(start, WIDTH_CONTROL)
           count == read_fifo_field(control, WIDTH_COUNTER)
           value == read_fifo_field(count, WIDTH_DATA)
<1>1. WIDTH_CONTROL \in Nat /\ WIDTH_COUNTER \in Nat /\ WIDTH_DATA \in Nat /\ WIDTH_AVS_BUS \in Nat \ {0}
  BY FieldsAssumption, WidthAssumption
<1>2. ws \in Seq(Nat) /\ Len(ws) = fifo_words_per_element
  <2> DEFINE bits == [k \in 1 .. WIDTH_CONTROL |-> FALSE]
                       \o BitsOf(e.cnt, WIDTH_COUNTER)
                       \o [k \in 1 .. WIDTH_DATA |-> WIDTH_DATA - k \in e.val]
             part(j) == [i \in 1 .. WIDTH_AVS_BUS |-> bits[(j - 1) * WIDTH_AVS_BUS + i]]
  <2>1. ws = [j \in 1 .. fifo_words_per_element |-> NumberOfBits(part(j))]
    BY DEF BusWords
  <2>2. ASSUME NEW j \in 1 .. fifo_words_per_element PROVE NumberOfBits(part(j)) \in Nat
    <3> HIDE DEF bits
    <3>1. Len(part(j)) \in Nat
      BY <1>1
    <3> HIDE DEF part
    <3> QED
      BY <3>1, BitsMakeNumber
  <2> HIDE DEF part, ws
  <2> QED
    BY <2>1, <2>2, EnoughWords
<1>3. read(ws) = Regular(count.field, "LOAD", WordOf(value.field))
  BY DEF read
<1> HIDE DEF ws
<1>4. start \in Reader(WIDTH_CONTROL + (WIDTH_COUNTER + WIDTH_DATA))
  <2>1. /\ <<0>> \o ws \in Seq(Nat) /\ <<0>> \o ws # <<>>
        /\ Len(<<0>> \o ws) - 1 = fifo_words_per_element
    BY <1>2, EnoughWords
  <2>2. PICK m \in Nat : /\ m = fifo_words_per_element * WIDTH_AVS_BUS
                         /\ WIDTH_CONTROL + (WIDTH_COUNTER + WIDTH_DATA) <= m
    BY <1>1, EnoughWords
  <2>3. PICK us \in Seq(Nat) : us = <<0>> \o ws
    BY <2>1
  <2>4. m \in Int /\ m = (Len(us) - 1) * WIDTH_AVS_BUS /\ us # <<>>
    <3>1. us # <<>> /\ Len(us) - 1 = fifo_words_per_element
      BY <2>1, <2>3, Zenon
    <3>2. m = (Len(us) - 1) * WIDTH_AVS_BUS
      BY <2>2, <3>1, Zenon
    <3>3. m \in Int
      BY <1>1, <2>2, EnoughWords
    <3> QED
      BY <3>1, <3>2, <3>3
  <2>5. /\ 0 \in Nat /\ 0 \in 0 .. WIDTH_AVS_BUS
        /\ 0 + (WIDTH_CONTROL + (WIDTH_COUNTER + WIDTH_DATA)) <= 0 + m
    BY <1>1, <2>2
  <2>6. WIDTH_CONTROL + (WIDTH_COUNTER + WIDTH_DATA) \in Nat
    BY <1>1
  <2> QED
    BY <2>3, <2>4, <2>5, <2>6, ReaderMade
<1> HIDE DEF start
<1>5. control \in Reader(WIDTH_COUNTER + WIDTH_DATA)
  BY <1>1, <1>4, FieldRead
<1> HIDE DEF control
<1>6. count \in Reader(WIDTH_DATA)
  BY <1>1, <1>5, FieldRead
<1>7. count.field \in Nat
  BY <1>6 DEF Reader
<1>8. WordOf(value.field) \in Word
  BY DEF WordOf, Word
<1> HIDE DEF count, value
<1> QED
  BY <1>3, <1>7, <1>8, RunsAreConstructed DEF ws
-----------------------------------------------------------------------------
(***************************************************************************)
(* The sequence of a script or a capture is always made of such elements.  *)
(***************************************************************************)
\* The test sequences of pptest and ppdelay.
LEMMA PulsesConstructed ==
  ASSUME NEW n \in Nat, NEW waits \in [1 .. n -> Nat]
  PROVE  FlattenSeq([i \in 1 .. n |-> <<Regular(waits[i], "LOAD", {}), Regular(1, "LOAD", {0})>>])
           \in Seq(Constructed)
<1>1. {} \in Word /\ {0} \in Word
  BY ScriptAssumption DEF Word
<1>2. ASSUME NEW i \in 1 .. n
      PROVE  <<Regular(waits[i], "LOAD", {}), Regular(1, "LOAD", {0})>> \in Seq(Constructed)
  <2>1. Regular(waits[i], "LOAD", {}) \in Constructed /\ Regular(1, "LOAD", {0}) \in Constructed
    BY <1>1, RunsAreConstructed
  <2> QED
    BY <2>1
<1> DEFINE ss == [i \in 1 .. n |-> <<Regular(waits[i], "LOAD", {}), Regular(1, "LOAD", {0})>>]
<1>3. ss \in Seq(Seq(Constructed))
  BY <1>2
<1> HIDE DEF ss
<1>4. FlattenSeq(ss) \in Seq(Constructed)
  BY <1>3, FlattenType
<1> QED
  BY <1>4 DEF ss

LEMMA PreparedConstructed ==
  ASSUME NEW s \in prepare_random_pulses(2, 2)
           \cup {prepare_counter_sequence(3, 1), prepare_equally_spaced_pulses(2, 3)}
  PROVE  s \in Seq(Constructed)
<1>1. CASE s \in prepare_random_pulses(2, 2)
  <2>1. PICK waits \in [1 .. 2 -> 1 .. 2] :
          s = FlattenSeq([i \in 1 .. 2 |-> <<Regular(waits[i], "LOAD", {}),
                                             Regular(1, "LOAD", {0})>>])
    BY <1>1 DEF prepare_random_pulses
  <2>2. 2 \in Nat /\ waits \in [1 .. 2 -> Nat]
    OBVIOUS
  <2> QED
    BY <2>1, <2>2, PulsesConstructed, Zenon
<1>2. CASE s = prepare_counter_sequence(3, 1)
  <2>1. \A i \in 1 .. 3 : Regular(1, "LOAD", WordOf(i - 1)) \in Constructed
    BY RunsAreConstructed DEF WordOf, Word
  <2>2. s = [i \in 1 .. 3 |-> Regular(1, "LOAD", WordOf(i - 1))]
    BY <1>2 DEF prepare_counter_sequence
  <2> QED
    BY <2>1, <2>2
<1>3. CASE s = prepare_equally_spaced_pulses(2, 3)
  <2> DEFINE waits == [i \in 1 .. 2 |-> 3 - 1]
             ss(w) == [i \in 1 .. 2 |-> <<Regular(w[i], "LOAD", {}), Regular(1, "LOAD", {0})>>]
  <2>1. 2 \in Nat /\ waits \in [1 .. 2 -> Nat] /\ \A i \in 1 .. 2 : waits[i] = 3 - 1
    OBVIOUS
  <2>2. s = FlattenSeq(ss(waits))
    <3>1. ss(waits) = [i \in 1 .. 2 |-> <<Regular(3 - 1, "LOAD", {}), Regular(1, "LOAD", {0})>>]
      BY <2>1, Zenon
    <3> QED
      BY <1>3, <3>1, Zenon DEF prepare_equally_spaced_pulses
  <2> HIDE DEF waits
  <2> QED
    BY <2>1, <2>2, PulsesConstructed, Zenon
<1> QED
  BY <1>1, <1>2, <1>3

\* What a script or a capture holds.
Holds == Script => initial \in Word /\ seq \in Seq(Constructed)

LEMMA HoldsInit == Init => Holds
<1> SUFFICES ASSUME Init, Script PROVE initial \in Word /\ seq \in Seq(Constructed)
  BY DEF Holds
<1>1. initial \in InitialValues \cup {{}} /\ seq = <<>>
  BY DEF Init
<1>2. initial \in Word
  BY <1>1, ScriptAssumption DEF Word
<1> QED
  BY <1>1, <1>2

LEMMA HoldsNext ==
  ASSUME Holds, [Next]_vars
  PROVE  Holds'
<1>1. ASSUME NEW e \in Pool, push_back(e) PROVE Holds'
  <2>1. e \in Constructed
    BY ScriptAssumption DEF Constructed
  <2>2. Script /\ initial' = initial /\ seq' = Append(seq, e)
    BY <1>1 DEF push_back, Script
  <2> QED
    BY <2>1, <2>2 DEF Holds
<1>2. ASSUME NEW e \in Captures, Capture(e) PROVE Holds'
  <2>1. read(BusWords(e)) \in Constructed
    BY CaptureConstructed
  <2>2. Script /\ initial' = initial /\ seq' = Append(seq, read(BusWords(e)))
    BY <1>2 DEF Capture, Script
  <2> QED
    BY <2>1, <2>2 DEF Holds
<1>3. ASSUME NEW s \in prepare_random_pulses(2, 2)
               \cup {prepare_counter_sequence(3, 1), prepare_equally_spaced_pulses(2, 3)},
             Prepare(s)
      PROVE  Holds'
  <2>1. s \in Seq(Constructed)
    BY PreparedConstructed
  <2>2. Script /\ initial' = initial /\ seq' = s
    BY <1>3 DEF Prepare, Script
  <2> QED
    BY <2>1, <2>2 DEF Holds
<1>4. CASE program' = program /\ initial' = initial /\ seq' = seq
  BY <1>4 DEF Holds, Script
<1>5. CASE program' = program /\ program \notin {"script", "ppread"}
  BY <1>5 DEF Holds, Script
<1>6. CASE UNCHANGED vars
  BY <1>4, <1>6 DEF vars
<1>7. CASE \E force \in BOOLEAN : WriteText(force) \/ WriteBinary(force)
  BY <1>4, <1>7 DEF WriteText, WriteBinary, Save
<1>8. CASE \E scale \in {1, 9} : WriteVcd(scale) \/ ExportRuns(scale)
  BY <1>4, <1>8 DEF WriteVcd, ExportRuns, Save
<1>9. CASE CutShort \/ LoadFile("ppvcd", FALSE) \/ \E force \in BOOLEAN : LoadFile("ppplay", force)
  BY <1>4, <1>9 DEF CutShort, LoadFile
<1>10. CASE \E p \in FgPeriods \cup {None}, a \in FgServos \cup {None}, d \in FgDuties,
               r \in FgRepetitions, n \in 1 .. 2, s0 \in BOOLEAN, dl \in {0, 2} :
                 Generate(p, a, d, r, n, s0, dl)
  <2>1. PICK p, a, d, r, n, s0, dl : Generate(p, a, d, r, n, s0, dl)
    BY <1>10, Zenon
  <2>2. program = "ppfg" /\ program' = program
    BY <2>1, Zenon DEF Generate
  <2> QED
    BY <1>5, <2>2
<1>11. CASE HelloWorld \/ \E dl \in {0, 2, 3}, du \in 0 .. 5 : GenerateDelay(dl, du)
  BY <1>5, <1>11 DEF HelloWorld, GenerateDelay
<1>12. CASE \/ SpiSelect \/ SpiDeselect \/ \E level \in BOOLEAN : SpiAux(level)
            \/ \E byte \in SpiBytes : SpiWrite(byte)
  BY <1>4, <1>12 DEF SpiSelect, SpiDeselect, SpiAux, SpiWrite, Encode
<1>13. CASE SpiSendWord \/ SpiAppend \/ \E f \in Outputs, g \in Gains : SpiProgram(f, g)
  BY <1>5, <1>13 DEF SpiSendWord, SpiAppend, SpiProgram
<1>14. CASE (\E a \in ScaleArgs : Scale(a)) \/ \E r \in SelfTestRuns : RunTest(r)
  BY <1>5, <1>14 DEF Scale, RunTest
<1>15. CASE \/ \E len \in 1 .. 2, v \in {{}, {0}, {1}} : writer(len, v)
            \/ writer_ends \/ Plays \/ RunsDry \/ reader \/ reader_looks
  BY <1>4, <1>15 DEF writer, writer_ends, Plays, RunsDry, reader, reader_looks, Stream
<1>16. CASE \/ \E phase \in Phases : Pair(phase)
            \/ \E t \in {-SIGN, -1, 0, 5, SIGN - 1}, flags \in {0, 5} : ReadTemp(t, flags)
            \/ ReadFails
  BY <1>4, <1>16 DEF Pair, ReadTemp, ReadFails
<1>17. CASE MeterCycle \/ \E late \in 0 .. MaxLate : PpfreqStep(late)
  BY <1>4, <1>17 DEF MeterCycle, PpfreqStep, Measure
<1> QED
  BY <1>1, <1>2, <1>3, <1>6, <1>7, <1>8, <1>9, <1>10, <1>11, <1>12, <1>13, <1>14, <1>15, <1>16,
     <1>17 DEF Next

\* The value infer_sequence_final_output (ppworkflow.hh) predicts for the
\* sequence of any script or capture is the one the decoder leaves on the
\* outputs.
THEOREM FinalIsKnown == Spec => []FinalKnown
<1>1. Holds => FinalKnown
  BY FinalKnownOf DEF Holds, FinalKnown
<1> QED
  BY <1>1, HoldsInit, HoldsNext, PTL DEF Spec
-----------------------------------------------------------------------------
(***************************************************************************)
(* pptest 20.                                                              *)
(***************************************************************************)
Run == {e \in Constructed : is_regular(e)}
End == Final("LOAD", default_final_value)
Streams ==
  [i : Nat, previous : Word, wrote_all : BOOLEAN, triggered : BOOLEAN, pipe : Seq(Run \cup {End}),
   open : Run \cup {None}, back : Seq(Run), shared : Seq(Run), n : Nat, n_error : {0},
   reader : {"polls", "looks", "done"}, starved : BOOLEAN]

Opened(s) == IF s.open = None THEN <<>> ELSE <<s.open>>
Differ(w) == \A k \in 1 .. (Len(w) - 1) : w[k].val # w[k + 1].val

\* Where the copies are: the shared list is the finished runs, the open one and
\* the runs r that the streamer still holds, before the terminator in t.
Copies20(s, r, t) ==
  /\ s.pipe = r \o t /\ t \in {<<>>, <<End>>} /\ (t # <<>> => s.wrote_all)
  /\ s.shared = (s.back \o Opened(s)) \o r

\* Neighbours in the shared list differ, so that no two elements become one run;
\* and a run stays open until the last element, unless the streamer ran dry.
Checks(s) ==
  /\ s \in Streams
  /\ \E r \in Seq(Run) : \E t : Copies20(s, r, t)
  /\ Differ(s.shared) /\ (s.shared # <<>> => s.shared[Len(s.shared)].val = s.previous)
  /\ s.n + Len(s.shared) = s.i
  /\ s.wrote_all => s.i = NrContinuous
  /\ s.open = None /\ ~s.starved /\ ~s.wrote_all => s.n = 0 /\ s.back = <<>>
  /\ s.reader = "done" /\ ~s.starved => s.wrote_all /\ s.n = NrContinuous

\* Moving one element over in a list of three parts.
LEMMA FirstOpens ==
  ASSUME NEW S, NEW a \in Seq(S), NEW c \in Seq(S), c # <<>>
  PROVE  (a \o <<>>) \o c = (a \o <<Head(c)>>) \o Tail(c)
BY SMTT(60)
LEMMA OpenCloses ==
  ASSUME NEW S, NEW a \in Seq(S), NEW c \in Seq(S), NEW e \in S
  PROVE  (a \o <<e>>) \o c = (Append(a, e) \o <<>>) \o c
OBVIOUS
LEMMA NextOpens ==
  ASSUME NEW S, NEW a \in Seq(S), NEW c \in Seq(S), NEW e \in S, c # <<>>
  PROVE  (a \o <<e>>) \o c = (Append(a, e) \o <<Head(c)>>) \o Tail(c)
<1>1. PICK d \in Seq(S) : d = Append(a, e)
  <2>1. Append(a, e) \in Seq(S)
    OBVIOUS
  <2> QED
    BY <2>1, Zenon
<1>2. (a \o <<e>>) \o c = (d \o <<>>) \o c
  BY <1>1, OpenCloses
<1>3. (d \o <<>>) \o c = (d \o <<Head(c)>>) \o Tail(c)
  BY FirstOpens
<1> QED
  BY <1>1, <1>2, <1>3

LEMMA EndIsFinal ==
  /\ is_final(End) /\ None \notin Run
  /\ \A e \in Run : ~is_final(e) /\ e # End /\ e.val \in Word
<1>1. is_final(End)
  BY DEF End, Final, WithBits, Regular, is_final, kind, type_from_control
<1>2. None \notin Run
  BY NoneAssumption DEF Run, Constructed
<1>3. \A e \in Run : ~is_final(e) /\ e.val \in Word
  BY DEF Run, Constructed, is_regular, is_final, Element
<1> QED
  BY <1>1, <1>2, <1>3

LEMMA OpenedIsSeq ==
  ASSUME NEW s \in Streams
  PROVE  Opened(s) \in Seq(Run)
<1>1. s.open \in Run \cup {None}
  BY DEF Streams
<1>2. CASE s.open = None
  BY <1>2 DEF Opened
<1>3. CASE s.open # None
  <2>1. s.open \in Run /\ Opened(s) = <<s.open>>
    BY <1>1, <1>3 DEF Opened
  <2> QED
    BY <2>1
<1> QED
  BY <1>2, <1>3

\* The writer adds an element that differs from the one before.
LEMMA WriterChecks ==
  ASSUME NEW s, Checks(s), s.i < NrContinuous, NEW e \in Run, NEW trg \in BOOLEAN,
         s.i > 0 => e.val # s.previous
  PROVE  Checks([s EXCEPT !.i = @ + 1, !.pipe = Append(@, e), !.shared = Append(@, e),
                          !.previous = e.val, !.triggered = trg])
<1> DEFINE z == [s EXCEPT !.i = @ + 1, !.pipe = Append(@, e), !.shared = Append(@, e),
                          !.previous = e.val, !.triggered = trg]
<1>a. PICK r \in Seq(Run) : \E t : Copies20(s, r, t)
  BY DEF Checks
<1>0. PICK t : Copies20(s, r, t)
  BY <1>a
<1>1. /\ s \in Streams /\ s.i \in Nat /\ s.n \in Nat /\ ~s.wrote_all
      /\ s.shared \in Seq(Run) /\ s.back \in Seq(Run) /\ s.pipe = r
  <2>1. s \in Streams /\ (s.wrote_all => s.i = NrContinuous)
    BY DEF Checks
  <2>2. s.i \in Nat /\ s.n \in Nat /\ s.shared \in Seq(Run) /\ s.back \in Seq(Run)
    BY <2>1 DEF Streams
  <2>3. ~s.wrote_all
    BY <2>1, <2>2
  <2>4. t = <<>> /\ s.pipe = r \o <<>>
    BY <1>0, <2>3 DEF Copies20
  <2> QED
    BY <2>1, <2>2, <2>3, <2>4
<1>2. /\ z.i = s.i + 1 /\ z.pipe = Append(s.pipe, e) /\ z.shared = Append(s.shared, e)
      /\ z.previous = e.val /\ z.n = s.n /\ z.back = s.back /\ z.open = s.open
      /\ z.wrote_all = s.wrote_all /\ z.starved = s.starved /\ z.reader = s.reader
  BY <1>1 DEF Streams
<1>3. z \in Streams
  <2>1. PICK p \in Seq(Run \cup {End}), h \in Seq(Run), v \in Word, i \in Nat :
          p = Append(s.pipe, e) /\ h = Append(s.shared, e) /\ v = e.val /\ i = s.i + 1
    <3>1. Append(s.pipe, e) \in Seq(Run \cup {End}) /\ Append(s.shared, e) \in Seq(Run) /\ s.i + 1 \in Nat
      BY <1>1
    <3>2. e.val \in Word
      BY EndIsFinal
    <3> QED
      BY <3>1, <3>2, Zenon
  <2>2. z = [s EXCEPT !.i = i, !.pipe = p, !.shared = h, !.previous = v, !.triggered = trg]
    BY <2>1, Zenon
  <2>3. [s EXCEPT !.i = i, !.pipe = p, !.shared = h, !.previous = v, !.triggered = trg] \in Streams
    BY <1>1 DEF Streams
  <2> QED
    BY <2>2, <2>3, Zenon
<1> HIDE DEF z
<1>4. Copies20(z, Append(r, e), <<>>) /\ Append(r, e) \in Seq(Run)
  <2>1. PICK o \in Seq(Run) : o = Opened(s)
    BY <1>1, OpenedIsSeq
  <2>2. Opened(z) = o
    BY <1>2, <2>1 DEF Opened
  <2>3. s.shared = (s.back \o o) \o r
    BY <1>0, <2>1 DEF Copies20
  <2>4. z.shared = (z.back \o Opened(z)) \o Append(r, e)
    <3>1. Append((s.back \o o) \o r, e) = (s.back \o o) \o Append(r, e)
      <4>1. PICK a \in Seq(Run) : a = s.back
        BY <1>1
      <4>2. Append((a \o o) \o r, e) = (a \o o) \o Append(r, e)
        BY SMTT(60)
      <4> QED
        BY <4>1, <4>2, Zenon
    <3> QED
      BY <1>2, <2>2, <2>3, <3>1, Zenon
  <2>5. z.pipe = Append(r, e) \o <<>> /\ Append(r, e) \in Seq(Run)
    BY <1>1, <1>2
  <2> QED
    BY <2>4, <2>5 DEF Copies20
<1>5. Differ(z.shared) /\ z.shared[Len(z.shared)].val = z.previous
  <2>1. PICK w \in Seq(Run) : w = s.shared /\ z.shared = Append(w, e)
    BY <1>1, <1>2
  <2>2. Differ(w) /\ (w # <<>> => w[Len(w)].val = s.previous) /\ s.n + Len(w) = s.i
    BY <2>1 DEF Checks
  <2>3. w # <<>> => w[Len(w)].val # e.val
    BY <1>1, <2>2
  <2>4. ASSUME NEW k \in 1 .. (Len(Append(w, e)) - 1)
        PROVE  Append(w, e)[k].val # Append(w, e)[k + 1].val
    <3>1. CASE k = Len(w)
      BY <2>3, <3>1
    <3>2. CASE k # Len(w)
      BY <2>2, <3>2 DEF Differ
    <3> QED
      BY <3>1, <3>2
  <2>5. Append(w, e)[Len(Append(w, e))] = e
    OBVIOUS
  <2> QED
    BY <1>2, <2>1, <2>4, <2>5 DEF Differ
<1>6. z.n + Len(z.shared) = z.i
  <2>1. s.n + Len(s.shared) = s.i /\ Len(Append(s.shared, e)) = Len(s.shared) + 1
    BY <1>1 DEF Checks
  <2> QED
    BY <1>1, <1>2, <2>1
<1>7. /\ z.open = None /\ ~z.starved /\ ~z.wrote_all => z.n = 0 /\ z.back = <<>>
      /\ z.reader = "done" /\ ~z.starved => z.wrote_all /\ z.n = NrContinuous
      /\ ~z.wrote_all
  BY <1>1, <1>2 DEF Checks
<1>8. Checks(z)
  BY <1>3, <1>4, <1>5, <1>6, <1>7 DEF Checks
<1> QED
  BY <1>8 DEF z

\* The other steps keep what was written: all but the writer's.
LEMMA SameWritten ==
  ASSUME NEW s, Checks(s), NEW z \in Streams,
         z.i = s.i, z.previous = s.previous,
         \E r \in Seq(Run) : \E t : Copies20(z, r, t),
         \/ z.n = s.n /\ z.shared = s.shared
         \/ z.n = s.n + 1 /\ s.shared # <<>> /\ z.shared = Tail(s.shared),
         z.wrote_all => z.i = NrContinuous,
         z.open = None /\ ~z.starved /\ ~z.wrote_all => z.n = 0 /\ z.back = <<>>,
         z.reader = "done" /\ ~z.starved => z.wrote_all /\ z.n = NrContinuous
  PROVE  Checks(z)
<1>1. /\ s \in Streams /\ Differ(s.shared) /\ s.n + Len(s.shared) = s.i
      /\ s.shared # <<>> => s.shared[Len(s.shared)].val = s.previous
  BY DEF Checks
<1>2. PICK w \in Seq(Run), m \in Nat : w = s.shared /\ m = s.n
  BY <1>1 DEF Streams
<1>3. Differ(z.shared) /\ (z.shared # <<>> => z.shared[Len(z.shared)].val = z.previous)
      /\ z.n + Len(z.shared) = z.i
  <2>1. CASE z.n = m /\ z.shared = w
    BY <1>1, <1>2, <2>1
  <2>2. CASE z.n = m + 1 /\ w # <<>> /\ z.shared = Tail(w)
    <3>1. PICK u \in Seq(Run) : u = Tail(w) /\ Len(u) = Len(w) - 1
                                /\ \A k \in 1 .. Len(u) : u[k] = w[k + 1]
      <4>1. /\ Tail(w) \in Seq(Run) /\ Len(Tail(w)) = Len(w) - 1
            /\ \A k \in 1 .. Len(Tail(w)) : Tail(w)[k] = w[k + 1]
        BY <2>2
      <4> QED
        BY <4>1
    <3>2. Differ(w) /\ w[Len(w)].val = z.previous /\ m + Len(w) = z.i
      BY <1>1, <1>2, <2>2
    <3>3. Differ(u)
      <4>1. ASSUME NEW k \in 1 .. (Len(u) - 1) PROVE u[k].val # u[k + 1].val
        <5>1. /\ k \in 1 .. Len(u) /\ k + 1 \in 1 .. Len(u) /\ k + 1 \in 1 .. (Len(w) - 1)
              /\ u[k] = w[k + 1] /\ u[k + 1] = w[(k + 1) + 1]
          BY <3>1
        <5> QED
          BY <3>2, <5>1 DEF Differ
      <4> QED
        BY <4>1 DEF Differ
    <3>4. u # <<>> => u[Len(u)].val = z.previous
      <4>1. u # <<>> => Len(u) \in 1 .. Len(u) /\ Len(u) + 1 = Len(w)
        BY <3>1
      <4> QED
        BY <3>1, <3>2, <4>1
    <3>5. z.n + Len(u) = z.i
      BY <2>2, <3>1, <3>2
    <3> QED
      BY <2>2, <3>1, <3>3, <3>4, <3>5, ZenonT(60)
  <2> QED
    BY <1>2, <2>1, <2>2
<1> QED
  BY <1>3 DEF Checks

\* The writer's terminator.
LEMMA EndChecks ==
  ASSUME NEW s, Checks(s), s.i = NrContinuous, ~s.wrote_all
  PROVE  Checks([s EXCEPT !.wrote_all = TRUE, !.pipe = Append(@, End)])
<1> DEFINE z == [s EXCEPT !.wrote_all = TRUE, !.pipe = Append(@, End)]
<1>a. PICK r \in Seq(Run) : \E t : Copies20(s, r, t)
  BY DEF Checks
<1>0. PICK t : Copies20(s, r, t)
  BY <1>a
<1>1. s \in Streams /\ s.pipe = r
  <2>1. t = <<>> /\ s.pipe = r \o <<>>
    BY <1>0 DEF Copies20
  <2> QED
    BY <2>1 DEF Checks
<1>2. PICK p \in Seq(Run \cup {End}) : p = Append(s.pipe, End) /\ p = r \o <<End>>
  <2>1. r \in Seq(Run \cup {End}) /\ Append(r, End) = r \o <<End>>
    OBVIOUS
  <2>2. Append(r, End) \in Seq(Run \cup {End})
    BY <2>1
  <2> QED
    BY <1>1, <2>1, <2>2
<1>3. z = [s EXCEPT !.wrote_all = TRUE, !.pipe = p]
  BY <1>2, Zenon
<1> HIDE DEF z
<1>4. /\ z \in Streams /\ z.i = s.i /\ z.previous = s.previous /\ z.pipe = p /\ z.wrote_all
      /\ z.n = s.n /\ z.shared = s.shared /\ z.back = s.back /\ z.open = s.open
      /\ z.starved = s.starved /\ z.reader = s.reader
  BY <1>1, <1>3 DEF Streams
<1>5. Copies20(z, r, <<End>>)
  <2>1. Opened(z) = Opened(s)
    BY <1>4 DEF Opened
  <2> QED
    BY <1>0, <1>2, <1>4, <2>1 DEF Copies20
<1>6. Checks(z)
  <2>1. z.reader = "done" /\ ~z.starved => z.wrote_all /\ z.n = NrContinuous
    BY <1>4 DEF Checks
  <2>2. \E q \in Seq(Run) : \E u : Copies20(z, q, u)
    BY <1>5, Zenon
  <2> QED
    BY <1>4, <2>1, <2>2, SameWritten
<1> QED
  BY <1>6 DEF z

\* The streamer plays an element: it never meets the value of the open run.
LEMMA PlaysChecks ==
  ASSUME NEW s, Checks(s), s.pipe # <<>>
  PROVE  LET e == Head(s.pipe)
             next == [s EXCEPT !.pipe = Tail(@)]
         IN  /\ ~(~is_final(e) /\ s.open # None /\ s.open.val = e.val)
             /\ Checks([Closed(next) EXCEPT !.open = IF is_final(e) THEN None ELSE e])
<1> DEFINE e == Head(s.pipe)
           next == [s EXCEPT !.pipe = Tail(@)]
           z == [Closed(next) EXCEPT !.open = IF is_final(e) THEN None ELSE e]
           back == IF s.open = None THEN s.back ELSE Append(s.back, s.open)
<1>a. PICK r \in Seq(Run) : \E t : Copies20(s, r, t)
  BY DEF Checks
<1>0. PICK t : Copies20(s, r, t)
  BY <1>a
<1>1. /\ s \in Streams /\ s.pipe \in Seq(Run \cup {End}) /\ s.shared \in Seq(Run)
      /\ s.back \in Seq(Run) /\ s.open \in Run \cup {None}
  <2>1. s \in Streams
    BY DEF Checks
  <2> QED
    BY <2>1 DEF Streams
<1>2. PICK p \in Seq(Run \cup {End}) : p = Tail(s.pipe)
  <2>1. Tail(s.pipe) \in Seq(Run \cup {End})
    BY <1>1
  <2> QED
    BY <2>1
<1>3. PICK b \in Seq(Run) : b = back
  <2>1. CASE s.open = None
    BY <1>1, <2>1
  <2>2. CASE s.open # None
    <3>1. s.open \in Run
      BY <1>1, <2>2
    <3>2. Append(s.back, s.open) \in Seq(Run)
      BY <1>1, <3>1
    <3> QED
      BY <2>2, <3>2
  <2> QED
    BY <2>1, <2>2
<1>4. \A o \in Run \cup {None} : (o = IF is_final(e) THEN None ELSE e) =>
        /\ z \in Streams /\ z.i = s.i /\ z.previous = s.previous /\ z.pipe = p
        /\ z.n = s.n /\ z.shared = s.shared /\ z.back = b /\ z.open = o
        /\ z.starved = s.starved /\ z.reader = s.reader /\ z.wrote_all = s.wrote_all
  <2> SUFFICES ASSUME NEW o \in Run \cup {None}, o = IF is_final(e) THEN None ELSE e
               PROVE  /\ z \in Streams /\ z.i = s.i /\ z.previous = s.previous /\ z.pipe = p
                      /\ z.n = s.n /\ z.shared = s.shared /\ z.back = b /\ z.open = o
                      /\ z.starved = s.starved /\ z.reader = s.reader /\ z.wrote_all = s.wrote_all
    OBVIOUS
  <2>1. next = [s EXCEPT !.pipe = p]
    BY <1>2, Zenon
  <2>2. z = [Closed(next) EXCEPT !.open = o]
    OBVIOUS
  <2> HIDE DEF next, z, e
  <2>3. /\ next \in Streams /\ next.i = s.i /\ next.previous = s.previous /\ next.pipe = p
        /\ next.n = s.n /\ next.shared = s.shared /\ next.back = s.back /\ next.open = s.open
        /\ next.starved = s.starved /\ next.reader = s.reader /\ next.wrote_all = s.wrote_all
    BY <1>1, <2>1 DEF Streams
  <2>4. PICK c : c = Closed(next)
    OBVIOUS
  <2>5. /\ c \in Streams /\ c.i = s.i /\ c.previous = s.previous /\ c.pipe = p
        /\ c.n = s.n /\ c.shared = s.shared /\ c.back = b
        /\ c.starved = s.starved /\ c.reader = s.reader /\ c.wrote_all = s.wrote_all
    <3>1. CASE s.open = None
      BY <1>3, <2>3, <2>4, <3>1 DEF Closed
    <3>2. CASE s.open # None
      <4>1. c = [next EXCEPT !.back = b, !.open = None]
        BY <1>3, <2>3, <2>4, <3>2 DEF Closed
      <4> QED
        BY <2>3, <4>1 DEF Streams
    <3> QED
      BY <3>1, <3>2
  <2> QED
    BY <2>2, <2>4, <2>5 DEF Streams
<1> HIDE DEF next, z
<1>5. CASE r = <<>>
  <2>1. s.pipe = <<End>> /\ e = End /\ p = <<>> /\ s.wrote_all
    <3>1. s.pipe = t /\ t # <<>>
      BY <1>0, <1>5 DEF Copies20
    <3> QED
      BY <1>0, <1>2, <3>1 DEF Copies20
  <2>2. is_final(e)
    BY <2>1, EndIsFinal
  <2> HIDE DEF e
  <2>3. /\ z \in Streams /\ z.i = s.i /\ z.previous = s.previous /\ z.pipe = p
        /\ z.n = s.n /\ z.shared = s.shared /\ z.back = b /\ z.open = None
        /\ z.starved = s.starved /\ z.reader = s.reader /\ z.wrote_all
    BY <1>4, <2>1, <2>2
  <2>4. s.shared = (b \o <<>>) \o <<>>
    <3>1. CASE s.open = None
      BY <1>0, <1>3, <1>5, <3>1 DEF Copies20, Opened
    <3>2. CASE s.open # None
      <4>1. s.open \in Run /\ Opened(s) = <<s.open>> /\ b = Append(s.back, s.open)
        BY <1>1, <1>3, <3>2 DEF Opened
      <4>2. <<>> \in Seq(Run) /\ s.shared = (s.back \o <<s.open>>) \o <<>>
        BY <1>0, <1>5, <4>1 DEF Copies20
      <4>3. (s.back \o <<s.open>>) \o <<>> = (Append(s.back, s.open) \o <<>>) \o <<>>
        BY <1>1, <4>1, <4>2, OpenCloses
      <4> QED
        BY <4>1, <4>2, <4>3, Zenon
    <3> QED
      BY <3>1, <3>2
  <2>5. <<>> \in Seq(Run) /\ Copies20(z, <<>>, <<>>)
    <3>1. Opened(z) = <<>>
      BY <2>3 DEF Opened
    <3>2. z.pipe = <<>> \o <<>> /\ z.shared = (z.back \o Opened(z)) \o <<>>
      BY <2>1, <2>3, <2>4, <3>1
    <3> QED
      BY <3>2 DEF Copies20
  <2>6. \E q \in Seq(Run) : \E u : Copies20(z, q, u)
    BY <2>5, Zenon
  <2>7. /\ z.wrote_all => z.i = NrContinuous
        /\ z.reader = "done" /\ ~z.starved => z.wrote_all /\ z.n = NrContinuous
    BY <2>1, <2>3 DEF Checks
  <2>8. Checks(z)
    BY <2>3, <2>6, <2>7, SameWritten
  <2> QED
    BY <2>2, <2>8 DEF z, next, e
<1>6. CASE r # <<>>
  <2>1. e = Head(r) /\ e \in Run /\ p = Tail(r) \o t /\ Tail(r) \in Seq(Run)
    <3>1. t \in {<<>>, <<End>>} /\ s.pipe = r \o t
      BY <1>0 DEF Copies20
    <3>2. CASE t = <<>>
      BY <1>2, <1>6, <3>1, <3>2
    <3>3. CASE t = <<End>>
      BY <1>2, <1>6, <3>1, <3>3
    <3> QED
      BY <3>1, <3>2, <3>3
  <2>2. ~is_final(e) /\ e # None
    BY <2>1, EndIsFinal
  <2> HIDE DEF e
  <2>3. /\ z \in Streams /\ z.i = s.i /\ z.previous = s.previous /\ z.pipe = p
        /\ z.n = s.n /\ z.shared = s.shared /\ z.back = b /\ z.open = e
        /\ z.starved = s.starved /\ z.reader = s.reader /\ z.wrote_all = s.wrote_all
    BY <1>4, <2>1, <2>2
  <2>4. /\ s.shared = (b \o <<e>>) \o Tail(r)
        /\ ~(s.open # None /\ s.open.val = e.val)
    <3>1. CASE s.open = None
      <4>1. s.shared = (s.back \o <<>>) \o r /\ b = s.back
        BY <1>0, <1>3, <3>1 DEF Copies20, Opened
      <4>2. (s.back \o <<>>) \o r = (s.back \o <<Head(r)>>) \o Tail(r)
        BY <1>1, <1>6, <2>1, FirstOpens
      <4> QED
        BY <2>1, <3>1, <4>1, <4>2
    <3>2. CASE s.open # None
      <4>1. s.open \in Run /\ Opened(s) = <<s.open>> /\ b = Append(s.back, s.open)
        BY <1>1, <1>3, <3>2 DEF Opened
      <4>2. s.shared = (s.back \o <<s.open>>) \o r
        BY <1>0, <4>1 DEF Copies20
      <4>3. (s.back \o <<s.open>>) \o r = (Append(s.back, s.open) \o <<Head(r)>>) \o Tail(r)
        BY <1>1, <1>6, <4>1, NextOpens
      <4>4. s.shared = (b \o <<e>>) \o Tail(r)
        BY <2>1, <4>1, <4>2, <4>3
      <4>5. PICK a \in Seq(Run), o \in Run : a = s.back /\ o = s.open
        BY <1>1, <4>1
      <4>6. /\ Len(a) + 1 \in 1 .. (Len((a \o <<o>>) \o r) - 1)
            /\ ((a \o <<o>>) \o r)[Len(a) + 1] = o
            /\ ((a \o <<o>>) \o r)[(Len(a) + 1) + 1] = Head(r)
        BY <1>6
      <4>7. Differ(s.shared)
        BY DEF Checks
      <4>8. s.open.val # e.val
        BY <2>1, <4>2, <4>5, <4>6, <4>7 DEF Differ
      <4> QED
        BY <4>4, <4>8
    <3> QED
      BY <3>1, <3>2
  <2>5. Copies20(z, Tail(r), t)
    <3>1. Opened(z) = <<e>>
      BY <2>2, <2>3 DEF Opened
    <3>2. z.pipe = Tail(r) \o t /\ z.shared = (z.back \o Opened(z)) \o Tail(r)
      BY <2>1, <2>3, <2>4, <3>1
    <3> QED
      BY <1>0, <2>3, <3>2 DEF Copies20
  <2>6. \E q \in Seq(Run) : \E u : Copies20(z, q, u)
    BY <2>1, <2>5, Zenon
  <2>7. /\ z.wrote_all => z.i = NrContinuous
        /\ z.reader = "done" /\ ~z.starved => z.wrote_all /\ z.n = NrContinuous
    BY <2>3 DEF Checks
  <2>8. Checks(z)
    BY <2>2, <2>3, <2>6, <2>7, SameWritten
  <2> QED
    BY <2>2, <2>4, <2>8 DEF z, next, e
<1> QED
  BY <1>5, <1>6

\* The streamer runs dry: the open run is finished.
LEMMA DryChecks ==
  ASSUME NEW s, Checks(s), s.pipe = <<>>, ~s.wrote_all, s.open # None
  PROVE  Checks([Closed(s) EXCEPT !.starved = TRUE])
<1> DEFINE z == [Closed(s) EXCEPT !.starved = TRUE]
<1>a. PICK r \in Seq(Run) : \E t : Copies20(s, r, t)
  BY DEF Checks
<1>0. PICK t : Copies20(s, r, t)
  BY <1>a
<1>1. s \in Streams /\ s.back \in Seq(Run) /\ s.open \in Run
  <2>1. s \in Streams
    BY DEF Checks
  <2> QED
    BY <2>1 DEF Streams
<1>2. t = <<>> /\ r = <<>>
  <2>1. t = <<>> /\ s.pipe = r \o <<>>
    BY <1>0 DEF Copies20
  <2> QED
    BY <2>1
<1>3. PICK b \in Seq(Run) : b = Append(s.back, s.open)
  <2>1. Append(s.back, s.open) \in Seq(Run)
    BY <1>1
  <2> QED
    BY <2>1
<1>4. PICK c : c = [s EXCEPT !.back = b, !.open = None] /\ z = [c EXCEPT !.starved = TRUE]
  BY <1>3, Zenon DEF Closed
<1> HIDE DEF z
<1>5. /\ c \in Streams /\ c.i = s.i /\ c.previous = s.previous /\ c.pipe = s.pipe
      /\ c.n = s.n /\ c.shared = s.shared /\ c.back = b /\ c.open = None
      /\ c.reader = s.reader /\ c.wrote_all = s.wrote_all
  BY <1>1, <1>4 DEF Streams
<1>6. /\ z \in Streams /\ z.i = s.i /\ z.previous = s.previous /\ z.pipe = s.pipe
      /\ z.n = s.n /\ z.shared = s.shared /\ z.back = b /\ z.open = None
      /\ z.reader = s.reader /\ z.wrote_all = s.wrote_all /\ z.starved
  BY <1>4, <1>5 DEF Streams
<1>7. <<>> \in Seq(Run) /\ Copies20(z, <<>>, <<>>)
  <2>1. Opened(s) = <<s.open>> /\ Opened(z) = <<>>
    BY <1>6 DEF Opened
  <2>2. <<>> \in Seq(Run) /\ s.shared = (s.back \o <<s.open>>) \o <<>>
    BY <1>0, <1>2, <2>1 DEF Copies20
  <2>3. (s.back \o <<s.open>>) \o <<>> = (Append(s.back, s.open) \o <<>>) \o <<>>
    BY <1>1, <2>2, OpenCloses
  <2>4. z.shared = (z.back \o Opened(z)) \o <<>>
    BY <1>3, <1>6, <2>1, <2>2, <2>3
  <2>5. z.pipe = <<>> \o <<>>
    BY <1>6
  <2> QED
    BY <2>2, <2>4, <2>5 DEF Copies20
<1>8. \E q \in Seq(Run) : \E u : Copies20(z, q, u)
  BY <1>7, Zenon
<1>9. Checks(z)
  BY <1>6, <1>8, SameWritten
<1> QED
  BY <1>9 DEF z

\* The reader takes a finished run and the copy of its element: they are equal.
LEMMA ReaderChecks ==
  ASSUME NEW s, Checks(s), s.back # <<>>, s.reader = "polls"
  PROVE  /\ Head(s.back) = Head(s.shared)
         /\ Checks([s EXCEPT !.reader = "looks", !.n = @ + 1, !.back = Tail(@), !.shared = Tail(@),
                             !.n_error = @ + IF Head(s.back) = Head(s.shared) THEN 0 ELSE 1])
<1> DEFINE z == [s EXCEPT !.reader = "looks", !.n = @ + 1, !.back = Tail(@), !.shared = Tail(@),
                          !.n_error = @ + IF Head(s.back) = Head(s.shared) THEN 0 ELSE 1]
<1>a. PICK r \in Seq(Run) : \E t : Copies20(s, r, t)
  BY DEF Checks
<1>0. PICK t : Copies20(s, r, t)
  BY <1>a
<1>1. s \in Streams /\ s.back \in Seq(Run) /\ s.shared \in Seq(Run) /\ s.n \in Nat /\ s.n_error = 0
  <2>1. s \in Streams
    BY DEF Checks
  <2> QED
    BY <2>1 DEF Streams
<1>2. PICK a \in Seq(Run), o \in Seq(Run) :
        a = s.back /\ o = Opened(s) /\ s.shared = (a \o o) \o r
  BY <1>0, <1>1, OpenedIsSeq DEF Copies20
<1>3. Head(s.shared) = Head(s.back) /\ s.shared # <<>>
  <2>1. Head((a \o o) \o r) = Head(a) /\ (a \o o) \o r # <<>>
    BY <1>2
  <2> QED
    BY <1>2, <2>1, Zenon
<1>4. PICK b \in Seq(Run), h \in Seq(Run), m \in Nat :
        b = Tail(s.back) /\ h = Tail(s.shared) /\ m = s.n + 1
  <2>1. Tail(s.back) \in Seq(Run) /\ Tail(s.shared) \in Seq(Run) /\ s.n + 1 \in Nat
    BY <1>1, <1>3
  <2> QED
    BY <2>1, Zenon
<1>5. h = (b \o o) \o r
  <2>1. a # <<>> /\ Tail((a \o o) \o r) = (Tail(a) \o o) \o r
    <3>1. a # <<>>
      BY <1>2
    <3>2. Tail((a \o o) \o r) = (Tail(a) \o o) \o r
      BY <3>1
    <3> QED
      BY <3>1, <3>2
  <2> QED
    BY <1>2, <1>4, <2>1, Zenon
<1>6. z = [s EXCEPT !.reader = "looks", !.n = m, !.back = b, !.shared = h, !.n_error = 0]
  <2>1. s.n_error + (IF Head(s.back) = Head(s.shared) THEN 0 ELSE 1) = 0
    BY <1>1, <1>3
  <2> QED
    BY <1>4, <2>1, Zenon
<1> HIDE DEF z
<1>7. /\ z \in Streams /\ z.i = s.i /\ z.previous = s.previous /\ z.pipe = s.pipe
      /\ z.n = m /\ z.shared = h /\ z.back = b /\ z.open = s.open /\ z.starved = s.starved
      /\ z.reader = "looks" /\ z.wrote_all = s.wrote_all
  BY <1>1, <1>6 DEF Streams
<1>8. Copies20(z, r, t)
  <2>1. Opened(z) = o
    BY <1>2, <1>7 DEF Opened
  <2>2. z.shared = (z.back \o Opened(z)) \o r
    BY <1>5, <1>7, <2>1
  <2> QED
    BY <1>0, <1>7, <2>2 DEF Copies20
<1>9. /\ z.wrote_all => z.i = NrContinuous
      /\ z.open = None /\ ~z.starved /\ ~z.wrote_all => z.n = 0 /\ z.back = <<>>
  BY <1>7 DEF Checks
<1>10. \E q \in Seq(Run) : \E u : Copies20(z, q, u)
  BY <1>8, Zenon
<1>11. Checks(z)
  <2>1. z.n = s.n + 1 /\ s.shared # <<>> /\ z.shared = Tail(s.shared)
    BY <1>3, <1>4, <1>7
  <2>2. z.reader # "done"
    BY <1>7
  <2> QED
    BY <1>7, <1>9, <1>10, <2>1, <2>2, SameWritten
<1> QED
  BY <1>3, <1>11 DEF z

\* The reader only polls or looks.
LEMMA LooksChecks ==
  ASSUME NEW s, Checks(s), NEW x \in {"polls", "looks", "done"},
         x = "done" => s.n > 0 /\ s.shared = <<>>
  PROVE  Checks([s EXCEPT !.reader = x])
<1> DEFINE z == [s EXCEPT !.reader = x]
<1>a. PICK r \in Seq(Run) : \E t : Copies20(s, r, t)
  BY DEF Checks
<1>0. PICK t : Copies20(s, r, t)
  BY <1>a
<1>1. s \in Streams /\ s.back \in Seq(Run) /\ s.n \in Nat /\ s.open \in Run \cup {None}
  <2>1. s \in Streams
    BY DEF Checks
  <2> QED
    BY <2>1 DEF Streams
<1>2. /\ z \in Streams /\ z.i = s.i /\ z.previous = s.previous /\ z.pipe = s.pipe
      /\ z.n = s.n /\ z.shared = s.shared /\ z.back = s.back /\ z.open = s.open
      /\ z.starved = s.starved /\ z.reader = x /\ z.wrote_all = s.wrote_all
  BY <1>1 DEF Streams
<1> HIDE DEF z
<1>3. Copies20(z, r, t)
  <2>1. Opened(z) = Opened(s)
    BY <1>2 DEF Opened
  <2> QED
    BY <1>0, <1>2, <2>1 DEF Copies20
<1>4. x = "done" /\ ~s.starved => s.wrote_all /\ s.n = NrContinuous
  <2> SUFFICES ASSUME x = "done", ~s.starved PROVE s.wrote_all /\ s.n = NrContinuous
    OBVIOUS
  <2>1. s.open = None
    <3>1. PICK a \in Seq(Run), o \in Seq(Run) :
            a = s.back /\ o = Opened(s) /\ s.shared = (a \o o) \o r
      BY <1>0, <1>1, OpenedIsSeq DEF Copies20
    <3>2. (a \o o) \o r = <<>>
      BY <3>1
    <3>3. Len((a \o o) \o r) = (Len(a) + Len(o)) + Len(r) /\ Len(<<>>) = 0
      OBVIOUS
    <3>4. Len(o) = 0
      BY <3>2, <3>3
    <3>5. s.open # None => Len(Opened(s)) = 1
      BY DEF Opened
    <3> QED
      BY <3>1, <3>4, <3>5
  <2>2. s.wrote_all
    BY <1>1, <2>1 DEF Checks
  <2>3. s.n + Len(s.shared) = s.i /\ s.i = NrContinuous /\ Len(s.shared) = 0
    BY <2>2 DEF Checks
  <2> QED
    BY <1>1, <2>2, <2>3
<1>5. /\ z.wrote_all => z.i = NrContinuous
      /\ z.open = None /\ ~z.starved /\ ~z.wrote_all => z.n = 0 /\ z.back = <<>>
      /\ z.reader = "done" /\ ~z.starved => z.wrote_all /\ z.n = NrContinuous
  BY <1>2, <1>4 DEF Checks
<1>6. \E q \in Seq(Run) : \E u : Copies20(z, q, u)
  BY <1>3, Zenon
<1>7. Checks(z)
  BY <1>2, <1>5, <1>6, SameWritten
<1> QED
  BY <1>7 DEF z

CheckerSound == program = "continuous" => Checks(asked)

LEMMA CheckerInit == Init => CheckerSound
<1> SUFFICES ASSUME Init, program = "continuous" PROVE Checks(asked)
  BY DEF CheckerSound
<1>1. asked = InitialStream
  BY DEF Init
<1>2. {} \in Word /\ <<>> \in Seq(Run) /\ <<>> \in Seq(Run \cup {End})
  BY DEF Word
<1>3. InitialStream \in Streams
  BY <1>2 DEF InitialStream, Streams
<1>4. Copies20(InitialStream, <<>>, <<>>)
  <2>1. Opened(InitialStream) = <<>>
    BY DEF InitialStream, Opened
  <2>2. <<>> = <<>> \o <<>> /\ <<>> = (<<>> \o <<>>) \o <<>>
    OBVIOUS
  <2> QED
    BY <2>1, <2>2 DEF Copies20, InitialStream
<1>5. \E r \in Seq(Run) : \E t : Copies20(InitialStream, r, t)
  BY <1>2, <1>4, Zenon
<1>6. Differ(InitialStream.shared)
  BY DEF Differ, InitialStream
<1>7. /\ InitialStream.shared = <<>> /\ InitialStream.n = 0 /\ InitialStream.i = 0
      /\ InitialStream.back = <<>> /\ ~InitialStream.wrote_all /\ InitialStream.reader = "polls"
  BY DEF InitialStream
<1>8. Len(<<>>) = 0
  OBVIOUS
<1>9. Checks(InitialStream)
  BY <1>3, <1>5, <1>6, <1>7, <1>8 DEF Checks
<1> QED
  BY <1>1, <1>9

\* What may happen while pptest 20 runs.
Test20Step ==
  \/ \E len \in 1 .. 2, v \in {{}, {0}, {1}} : writer(len, v)
  \/ writer_ends \/ Plays \/ RunsDry \/ reader \/ reader_looks

LEMMA StepsOfTest20 ==
  ASSUME Next
  PROVE  program' = program /\ (program = "continuous" => Test20Step)
<1>1. CASE \E e \in Pool : push_back(e)
  BY <1>1 DEF push_back
<1>2. CASE \E e \in Captures : Capture(e)
  BY <1>2 DEF Capture
<1>3. CASE \E s \in prepare_random_pulses(2, 2)
               \cup {prepare_counter_sequence(3, 1), prepare_equally_spaced_pulses(2, 3)} : Prepare(s)
  BY <1>3 DEF Prepare
<1>4. CASE \E force \in BOOLEAN : WriteText(force) \/ WriteBinary(force)
  BY <1>4 DEF WriteText, WriteBinary, Save, Script
<1>5. CASE \E scale \in {1, 9} : WriteVcd(scale) \/ ExportRuns(scale)
  BY <1>5 DEF WriteVcd, ExportRuns, Save, Script
<1>6. CASE CutShort \/ LoadFile("ppvcd", FALSE) \/ \E force \in BOOLEAN : LoadFile("ppplay", force)
  BY <1>6 DEF CutShort, LoadFile, Script
<1>7. CASE \E p \in FgPeriods \cup {None}, a \in FgServos \cup {None}, d \in FgDuties,
               r \in FgRepetitions, n \in 1 .. 2, s0 \in BOOLEAN, dl \in {0, 2} :
                 Generate(p, a, d, r, n, s0, dl)
  <2>1. PICK p, a, d, r, n, s0, dl : Generate(p, a, d, r, n, s0, dl)
    BY <1>7, Zenon
  <2>2. program = "ppfg" /\ program' = program
    BY <2>1, Zenon DEF Generate
  <2> QED
    BY <2>2
<1>8. CASE HelloWorld \/ \E dl \in {0, 2, 3}, du \in 0 .. 5 : GenerateDelay(dl, du)
  BY <1>8 DEF HelloWorld, GenerateDelay
<1>9. CASE \/ SpiSelect \/ SpiDeselect \/ \E level \in BOOLEAN : SpiAux(level)
           \/ \E byte \in SpiBytes : SpiWrite(byte)
  BY <1>9 DEF SpiSelect, SpiDeselect, SpiAux, SpiWrite, Spi, Encode
<1>10. CASE SpiSendWord \/ SpiAppend \/ \E f \in Outputs, g \in Gains : SpiProgram(f, g)
  BY <1>10 DEF SpiSendWord, SpiAppend, SpiProgram
<1>11. CASE (\E a \in ScaleArgs : Scale(a)) \/ \E r \in SelfTestRuns : RunTest(r)
  BY <1>11 DEF Scale, RunTest
<1>12. CASE Test20Step
  BY <1>12 DEF Test20Step, writer, writer_ends, Plays, RunsDry, reader, reader_looks, Stream
<1>13. CASE \/ \E phase \in Phases : Pair(phase)
            \/ \E t \in {-SIGN, -1, 0, 5, SIGN - 1}, flags \in {0, 5} : ReadTemp(t, flags)
            \/ ReadFails
  BY <1>13 DEF Pair, ReadTemp, ReadFails, Polls
<1>14. CASE MeterCycle \/ \E late \in 0 .. MaxLate : PpfreqStep(late)
  BY <1>14 DEF MeterCycle, PpfreqStep, Measure
<1> QED
  BY <1>1, <1>2, <1>3, <1>4, <1>5, <1>6, <1>7, <1>8, <1>9, <1>10, <1>11, <1>12, <1>13, <1>14
     DEF Next, Test20Step

LEMMA CheckerNext ==
  ASSUME CheckerSound, [Next]_vars
  PROVE  CheckerSound'
<1> SUFFICES ASSUME program' = "continuous" PROVE Checks(asked')
  BY DEF CheckerSound
<1>1. program' = program
  BY StepsOfTest20 DEF vars
<1>2. program = "continuous" /\ Checks(asked)
  BY <1>1 DEF CheckerSound
<1>3. ASSUME NEW len \in 1 .. 2, NEW v \in {{}, {0}, {1}}, writer(len, v) PROVE Checks(asked')
  <2>1. PICK e \in Run : e = Regular(len, "LOAD", v) /\ e.val = v
    <3>1. v \in Word /\ len \in Nat
      BY ScriptAssumption DEF Word
    <3>2. Regular(len, "LOAD", v) \in Run
      BY <3>1, RunsAreConstructed DEF Run
    <3> QED
      BY <3>2 DEF Regular
  <2>2. PICK trg \in BOOLEAN : trg = (asked.triggered \/ asked.i = TRIGGER_AT)
    OBVIOUS
  <2>3. /\ asked.i < NrContinuous /\ (asked.i > 0 => e.val # asked.previous)
        /\ asked' = [asked EXCEPT !.i = @ + 1, !.pipe = Append(@, e), !.shared = Append(@, e),
                                  !.previous = e.val, !.triggered = trg]
    BY <1>3, <2>1, <2>2, Zenon DEF writer, Stream
  <2>4. Checks([asked EXCEPT !.i = @ + 1, !.pipe = Append(@, e), !.shared = Append(@, e),
                             !.previous = e.val, !.triggered = trg])
    BY <1>2, <2>3, WriterChecks
  <2> QED
    BY <2>3, <2>4, Zenon
<1>4. CASE writer_ends
  BY <1>2, <1>4, EndChecks, Zenon DEF writer_ends, Stream, End
<1>5. CASE Plays
  BY <1>2, <1>5, PlaysChecks, Zenon DEF Plays, Stream
<1>6. CASE RunsDry
  BY <1>2, <1>6, DryChecks, Zenon DEF RunsDry, Stream
<1>7. CASE reader
  <2>1. CASE asked.back = <<>>
    <3>1. asked' = [asked EXCEPT !.reader = "looks"]
      BY <1>7, <2>1 DEF reader, Stream
    <3>2. "looks" \in {"polls", "looks", "done"} /\ "looks" # "done"
      OBVIOUS
    <3> QED
      BY <1>2, <3>1, <3>2, LooksChecks, Zenon
  <2>2. CASE asked.back # <<>>
    BY <1>2, <1>7, <2>2, ReaderChecks, Zenon DEF reader, Stream
  <2> QED
    BY <2>1, <2>2
<1>8. CASE reader_looks
  <2>1. PICK x : x = IF asked.n > 0 /\ asked.shared = <<>> THEN "done" ELSE "polls"
    OBVIOUS
  <2>2. x \in {"polls", "looks", "done"} /\ (x = "done" => asked.n > 0 /\ asked.shared = <<>>)
    BY <2>1
  <2>3. asked' = [asked EXCEPT !.reader = x]
    BY <1>8, <2>1, Zenon DEF reader_looks, Stream
  <2> QED
    BY <1>2, <2>2, <2>3, LooksChecks, Zenon
<1>9. CASE UNCHANGED vars
  BY <1>2, <1>9 DEF vars
<1> QED
  BY <1>2, <1>3, <1>4, <1>5, <1>6, <1>7, <1>8, <1>9, StepsOfTest20 DEF Test20Step

\* pptest 20 cannot report an error of a streamer that works: every run it reads
\* back is the element whose copy it compares it with; and it ends early only
\* when the streamer ran dry.
THEOREM CheckerIsTruthful == Spec => []CheckerTruthful
<1>1. CheckerSound => CheckerTruthful
  BY DEF CheckerSound, CheckerTruthful, Checks, Streams
<1> QED
  BY <1>1, CheckerInit, CheckerNext, PTL DEF Spec
=============================================================================
