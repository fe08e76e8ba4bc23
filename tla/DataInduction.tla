--------------------------- MODULE DataInduction ---------------------------
(***************************************************************************)
(* Induction over data, and what it says of the operators on sequences the *)
(* models use.  The library's induction theorems are about operators,      *)
(* which cannot be instantiated here; the same principle about a set is a  *)
(* first-order fact and follows from the well-foundedness of <.            *)
(***************************************************************************)
EXTENDS Integers, Sequences, SequencesExt, SequenceTheorems, FiniteSetTheorems,
        WellFoundedInduction, TLAPS

\* A non-empty set of natural numbers has a least member.
LEMMA LeastNat ==
  ASSUME NEW T, T \subseteq Nat, T # {}
  PROVE  \E n \in T : \A m \in T : n <= m
<1> DEFINE R == OpToRel(<, Nat)
<1>1. IsWellFoundedOn(R, Nat)
  BY NatLessThanWellFounded
<1> HIDE DEF R
<1>2. PICK n \in T : \A m \in T : <<m, n>> \notin R
  BY <1>1, WFMin
<1>3. \A m, k \in Nat : m < k => <<m, k>> \in R
  BY DEF R, OpToRel
<1>4. \A m \in T : ~ (m < n)
  BY <1>2, <1>3
<1> QED
  BY <1>4

\* A non-empty set of numbers up to a bound has a greatest member.
LEMMA GreatestNat ==
  ASSUME NEW n \in Nat, NEW T, T \subseteq 1 .. n, T # {}
  PROVE  Max(T) \in T /\ \A m \in T : Max(T) >= m
<1> DEFINE U == {n - m : m \in T}
<1>1. U \subseteq Nat /\ U # {}
  <2>1. \A m \in 1 .. n : n - m \in Nat
    OBVIOUS
  <2>2. PICK m \in T : TRUE
    OBVIOUS
  <2> QED
    BY <2>1, <2>2
<1>2. PICK u \in U : \A m \in U : u <= m
  <2> HIDE DEF U
  <2> QED
    BY <1>1, LeastNat
<1>3. PICK x \in T : u = n - x
  OBVIOUS
<1>4. \A m \in T : x >= m
  <2> SUFFICES ASSUME NEW m \in T PROVE x >= m
    OBVIOUS
  <2>1. n - x <= n - m
    BY <1>2, <1>3
  <2>2. m \in Nat /\ x \in Nat
    OBVIOUS
  <2> QED
    BY <2>1, <2>2
<1>5. Max(T) = CHOOSE y \in T : \A m \in T : y >= m
  BY DEF Max
<1> QED
  BY <1>4, <1>5

\* A set of natural numbers with 0 that is closed under successor has all.
LEMMA NatInductive ==
  ASSUME NEW S, 0 \in S, \A n \in Nat : n \in S => n + 1 \in S
  PROVE  Nat \subseteq S
<1> SUFFICES ASSUME Nat \ S # {} PROVE FALSE
  OBVIOUS
<1>1. PICK n \in Nat \ S : \A m \in Nat \ S : n <= m
  BY LeastNat
<1>2. n # 0 /\ n - 1 \in Nat /\ n - 1 \in S
  BY <1>1
<1> QED
  BY <1>1, <1>2
-----------------------------------------------------------------------------
(***************************************************************************)
(* Recursive functions over the indices of a sequence.                     *)
(***************************************************************************)
\* f tabulates n steps from a.
Table(f, a, step, n) ==
  f[0] = a /\ \A i \in 1 .. n : f[i] = step[<<f[i - 1], i>>]

\* A step that stays in T has a table, and its entries are in T.
LEMMA TableExists ==
  ASSUME NEW T, NEW a \in T, NEW n \in Nat, NEW step \in [T \X (1 .. n) -> T]
  PROVE  \E f \in [0 .. n -> T] : Table(f, a, step, n)
<1> DEFINE S == {k \in Nat : k <= n => \E f \in [0 .. k -> T] : Table(f, a, step, k)}
<1>1. 0 \in S
  <2>1. [i \in 0 .. 0 |-> a] \in [0 .. 0 -> T]
    OBVIOUS
  <2>2. Table([i \in 0 .. 0 |-> a], a, step, 0)
    BY DEF Table
  <2> QED
    BY <2>1, <2>2
<1>2. ASSUME NEW k \in Nat, k \in S PROVE k + 1 \in S
  <2> SUFFICES ASSUME k + 1 <= n
               PROVE  \E f \in [0 .. (k + 1) -> T] : Table(f, a, step, k + 1)
    OBVIOUS
  <2>1. PICK f \in [0 .. k -> T] : Table(f, a, step, k)
    BY <1>2
  <2>2. f[k] \in T /\ <<f[k], k + 1>> \in T \X (1 .. n)
    OBVIOUS
  <2>3. step[<<f[k], k + 1>>] \in T
    BY <2>2
  <2> DEFINE v == step[<<f[k], k + 1>>]
             g == [i \in 0 .. (k + 1) |-> IF i = k + 1 THEN v ELSE f[i]]
  <2> HIDE DEF v
  <2>4. g \in [0 .. (k + 1) -> T] /\ g[k + 1] = v /\ \A i \in 0 .. k : g[i] = f[i]
    BY <2>3 DEF v
  <2> HIDE DEF g
  <2>5. g[0] = a
    BY <2>1, <2>4 DEF Table
  <2>6. ASSUME NEW i \in 1 .. (k + 1) PROVE g[i] = step[<<g[i - 1], i>>]
    <3>1. CASE i = k + 1
      BY <2>4, <3>1 DEF v
    <3>2. CASE i # k + 1
      <4>1. i \in 1 .. k /\ i \in 0 .. k /\ i - 1 \in 0 .. k
        BY <3>2
      <4> QED
        BY <2>1, <2>4, <4>1 DEF Table
    <3> QED
      BY <3>1, <3>2
  <2> QED
    BY <2>4, <2>5, <2>6 DEF Table
<1> HIDE DEF S
<1>3. n \in S
  BY <1>1, <1>2, NatInductive
<1> QED
  BY <1>3 DEF S
-----------------------------------------------------------------------------
(***************************************************************************)
(* FlattenSeq.                                                             *)
(***************************************************************************)
\* The first n sequences of s strung together, in terms of the first n - 1.
Flattening(f, s, n) ==
  f = [i \in 1 .. n |-> IF i = 1 THEN s[i] ELSE f[i - 1] \o s[i]]

\* The recursive function of FlattenSeq exists.
LEMMA FlatteningExists ==
  ASSUME NEW s
  PROVE  \A n \in Nat : \E f : Flattening(f, s, n)
<1> DEFINE S == {n \in Nat : \E f : Flattening(f, s, n)}
<1>1. 0 \in S
  <2>1. Flattening([i \in 1 .. 0 |-> 0], s, 0)
    BY DEF Flattening
  <2> QED
    BY <2>1
<1>2. ASSUME NEW n \in Nat, n \in S PROVE n + 1 \in S
  <2>1. PICK f : Flattening(f, s, n)
    BY <1>2
  <2> DEFINE top == IF n + 1 = 1 THEN s[n + 1] ELSE f[n] \o s[n + 1]
             g == [i \in 1 .. (n + 1) |-> IF i = n + 1 THEN top ELSE f[i]]
  <2>2. g[n + 1] = top /\ \A i \in 1 .. n : g[i] = f[i]
    <3> HIDE DEF top
    <3>1. n + 1 \in 1 .. (n + 1) /\ \A i \in 1 .. n : i \in 1 .. (n + 1) /\ i # n + 1
      OBVIOUS
    <3> QED
      BY <3>1
  <2>3. \A i \in 1 .. n : f[i] = IF i = 1 THEN s[i] ELSE f[i - 1] \o s[i]
    BY <2>1 DEF Flattening
  <2>4. ASSUME NEW i \in 1 .. (n + 1)
        PROVE  g[i] = IF i = 1 THEN s[i] ELSE g[i - 1] \o s[i]
    <3>1. CASE i = n + 1
      <4>1. i # 1 => i - 1 \in 1 .. n /\ i - 1 = n
        BY <3>1
      <4> QED
        BY <2>2, <3>1, <4>1
    <3>2. CASE i # n + 1
      <4>1. i \in 1 .. n /\ (i # 1 => i - 1 \in 1 .. n)
        BY <3>2
      <4> QED
        BY <2>2, <2>3, <4>1
    <3> QED
      BY <3>1, <3>2
  <2> HIDE DEF top
  <2>5. DOMAIN g = 1 .. (n + 1) /\ g = [i \in 1 .. (n + 1) |-> g[i]]
    OBVIOUS
  <2> HIDE DEF g
  <2>6. Flattening(g, s, n + 1)
    BY <2>4, <2>5 DEF Flattening
  <2> QED
    BY <2>6
<1> HIDE DEF S
<1>3. Nat \subseteq S
  BY <1>1, <1>2, NatInductive
<1> QED
  BY <1>3 DEF S

\* It is determined by the sequences it strings together.
LEMMA FlatteningAgrees ==
  ASSUME NEW s, NEW t, NEW f, NEW g, NEW n \in Nat, NEW m \in Nat, n <= m,
         Flattening(f, s, n), Flattening(g, t, m),
         \A i \in 1 .. n : s[i] = t[i]
  PROVE  \A i \in 1 .. n : f[i] = g[i]
<1> DEFINE S == {k \in Nat : k \in 1 .. n => f[k] = g[k]}
<1>1. 0 \in S
  OBVIOUS
<1>2. ASSUME NEW k \in Nat, k \in S PROVE k + 1 \in S
  <2> SUFFICES ASSUME k + 1 \in 1 .. n PROVE f[k + 1] = g[k + 1]
    OBVIOUS
  <2>1. /\ f[k + 1] = IF k + 1 = 1 THEN s[k + 1] ELSE f[(k + 1) - 1] \o s[k + 1]
        /\ g[k + 1] = IF k + 1 = 1 THEN t[k + 1] ELSE g[(k + 1) - 1] \o t[k + 1]
    <3>1. k + 1 \in 1 .. m
      OBVIOUS
    <3> QED
      BY <3>1 DEF Flattening
  <2>2. (k + 1) - 1 = k /\ (k + 1 # 1 => k \in 1 .. n)
    OBVIOUS
  <2> QED
    BY <1>2, <2>1, <2>2
<1> HIDE DEF S
<1>3. Nat \subseteq S
  BY <1>1, <1>2, NatInductive
<1> QED
  BY <1>3 DEF S

\* Nothing strung together.
LEMMA FlattenEmpty == FlattenSeq(<<>>) = <<>>
BY DEF FlattenSeq

\* The function FlattenSeq is defined by.
LEMMA FlattenIs ==
  ASSUME NEW s, Len(s) \in Nat, Len(s) # 0
  PROVE  \E f : Flattening(f, s, Len(s)) /\ FlattenSeq(s) = f[Len(s)]
<1> DEFINE f == CHOOSE h : h = [i \in 1 .. Len(s) |->
                                  IF i = 1 THEN s[i] ELSE h[i - 1] \o s[i]]
<1>1. Flattening(f, s, Len(s))
  BY FlatteningExists, ZenonT(60) DEF Flattening
<1>2. FlattenSeq(s) = f[Len(s)]
  BY DEF FlattenSeq
<1> QED
  BY <1>1, <1>2, ZenonT(60)

\* One more sequence is strung on at the end.
LEMMA FlattenAppend ==
  ASSUME NEW S, NEW ss \in Seq(Seq(S)), NEW t \in Seq(S)
  PROVE  FlattenSeq(Append(ss, t)) = FlattenSeq(ss) \o t
<1> DEFINE n == Len(ss)
           tt == Append(ss, t)
<1>1. /\ n \in Nat /\ Len(tt) = n + 1 /\ tt[n + 1] = t
      /\ \A i \in 1 .. n : ss[i] = tt[i]
  OBVIOUS
<1> HIDE DEF n, tt
<1>2. PICK g : Flattening(g, tt, n + 1) /\ FlattenSeq(tt) = g[n + 1]
  BY <1>1, FlattenIs
<1>3. g[n + 1] = IF n + 1 = 1 THEN tt[n + 1] ELSE g[(n + 1) - 1] \o tt[n + 1]
  <2>1. n + 1 \in 1 .. (n + 1)
    BY <1>1
  <2> QED
    BY <1>2, <2>1 DEF Flattening
<1>4. CASE n = 0
  <2>1. ss = <<>>
    BY <1>4 DEF n
  <2>2. <<>> \o t = t
    OBVIOUS
  <2> QED
    BY <1>1, <1>2, <1>3, <1>4, <2>1, <2>2, FlattenEmpty DEF tt
<1>5. CASE n # 0
  <2>1. PICK f : Flattening(f, ss, n) /\ FlattenSeq(ss) = f[n]
    BY <1>1, <1>5, FlattenIs DEF n
  <2>2. /\ n \in 1 .. n /\ n <= n + 1 /\ n + 1 \in Nat
        /\ (n + 1) - 1 = n /\ n + 1 # 1
    BY <1>1, <1>5
  <2>3. \A i \in 1 .. n : f[i] = g[i]
    <3> DEFINE m == n + 1
    <3>1. /\ n \in Nat /\ m \in Nat /\ n <= m
          /\ Flattening(f, ss, n) /\ Flattening(g, tt, m)
      BY <1>1, <1>2, <2>1, <2>2
    <3>2. \A i \in 1 .. n : ss[i] = tt[i]
      BY <1>1
    <3> HIDE DEF m
    <3> QED
      BY <3>1, <3>2, FlatteningAgrees
  <2> QED
    BY <1>1, <1>2, <1>3, <2>1, <2>2, <2>3 DEF tt
<1> QED
  BY <1>4, <1>5

\* What is strung together from sequences over S is a sequence over S.
LEMMA FlattenType ==
  ASSUME NEW S, NEW ss \in Seq(Seq(S))
  PROVE  FlattenSeq(ss) \in Seq(S)
<1>1. CASE Len(ss) = 0
  <2>1. ss = <<>>
    BY <1>1
  <2>2. FlattenSeq(ss) = <<>> /\ <<>> \in Seq(S)
    BY <2>1, FlattenEmpty
  <2> QED
    BY <2>2
<1>2. CASE Len(ss) # 0
  <2>1. PICK f : Flattening(f, ss, Len(ss)) /\ FlattenSeq(ss) = f[Len(ss)]
    BY <1>2, FlattenIs
  <2> DEFINE T == {k \in Nat : k \in 1 .. Len(ss) => f[k] \in Seq(S)}
  <2>2. 0 \in T
    OBVIOUS
  <2>3. ASSUME NEW k \in Nat, k \in T PROVE k + 1 \in T
    <3> SUFFICES ASSUME k + 1 \in 1 .. Len(ss) PROVE f[k + 1] \in Seq(S)
      OBVIOUS
    <3>1. f[k + 1] = IF k + 1 = 1 THEN ss[k + 1] ELSE f[(k + 1) - 1] \o ss[k + 1]
      BY <2>1 DEF Flattening
    <3>2. (k + 1) - 1 = k /\ (k + 1 # 1 => k \in 1 .. Len(ss))
      OBVIOUS
    <3>3. ss[k + 1] \in Seq(S)
      OBVIOUS
    <3> QED
      BY <2>3, <3>1, <3>2, <3>3
  <2> HIDE DEF T
  <2>4. Nat \subseteq T
    BY <2>2, <2>3, NatInductive
  <2>5. Len(ss) \in 1 .. Len(ss)
    BY <1>2
  <2> QED
    BY <2>1, <2>4, <2>5 DEF T
<1> QED
  BY <1>1, <1>2

\* Rounds strung together are one more round at the end.
LEMMA FlattenRepeated ==
  ASSUME NEW S, NEW w \in Seq(S), NEW k \in Nat
  PROVE  /\ FlattenSeq([r \in 1 .. 0 |-> w]) = <<>>
         /\ FlattenSeq([r \in 1 .. (k + 1) |-> w]) = FlattenSeq([r \in 1 .. k |-> w]) \o w
         /\ FlattenSeq([r \in 1 .. k |-> w]) \in Seq(S)
<1> DEFINE ws == [r \in 1 .. k |-> w]
<1>1. ws \in Seq(Seq(S)) /\ Append(ws, w) = [r \in 1 .. (k + 1) |-> w]
  OBVIOUS
<1>2. [r \in 1 .. 0 |-> w] = <<>>
  OBVIOUS
<1> HIDE DEF ws
<1>3. FlattenSeq(Append(ws, w)) = FlattenSeq(ws) \o w /\ FlattenSeq(ws) \in Seq(S)
  BY <1>1, FlattenAppend, FlattenType
<1> QED
  BY <1>1, <1>2, <1>3, FlattenEmpty DEF ws
-----------------------------------------------------------------------------
(***************************************************************************)
(* Prefixes.                                                               *)
(***************************************************************************)
\* Appending to the second of two sequences appends to both.
LEMMA AppendSecond ==
  ASSUME NEW S, NEW d \in Seq(S), NEW q \in Seq(S), NEW e \in S
  PROVE  d \o Append(q, e) = Append(d \o q, e) /\ Append(q, e) # <<>>
OBVIOUS

\* An element moved from the second of two sequences to the first.
LEMMA MoveElementOver ==
  ASSUME NEW S, NEW d \in Seq(S), NEW q \in Seq(S), q # <<>>
  PROVE  /\ Append(d, Head(q)) \o Tail(q) = d \o q
         /\ Append(d, Head(q)) \in Seq(S) /\ Tail(q) \in Seq(S)
OBVIOUS

\* A part is a prefix of the whole.
LEMMA PartIsPrefix ==
  ASSUME NEW S, NEW d \in Seq(S), NEW q \in Seq(S)
  PROVE  IsPrefix(d, d \o q)
BY DEF IsPrefix

\* A sequence cut within its second part is a prefix of what continues it.
LEMMA PrefixOfRound ==
  ASSUME NEW S, NEW r \in Seq(S), NEW l \in Seq(S), NEW u \in Seq(S), NEW t \in S,
         NEW j \in Nat, j <= Len(l)
  PROVE  IsPrefix(r \o SubSeq(l, 1, j), Append((r \o l) \o u, t))
<1> DEFINE p == r \o SubSeq(l, 1, j)
           w == Append((r \o l) \o u, t)
<1>1. /\ p \in Seq(S) /\ Len(p) = Len(r) + j
      /\ \A i \in 1 .. Len(r) + j : p[i] = IF i <= Len(r) THEN r[i] ELSE l[i - Len(r)]
  <2>1. SubSeq(l, 1, j) \in Seq(S) /\ Len(SubSeq(l, 1, j)) = j
        /\ \A i \in 1 .. j : SubSeq(l, 1, j)[i] = l[i]
    OBVIOUS
  <2> DEFINE v == SubSeq(l, 1, j)
  <2> HIDE DEF v
  <2>2. v \in Seq(S) /\ Len(v) = j /\ p = r \o v /\ \A i \in 1 .. j : v[i] = l[i]
    BY <2>1 DEF v
  <2> HIDE DEF p
  <2>3. p \in Seq(S) /\ Len(p) = Len(r) + Len(v)
        /\ \A i \in 1 .. Len(r) + Len(v) : p[i] = IF i <= Len(r) THEN r[i] ELSE v[i - Len(r)]
    BY <2>2, ConcatProperties
  <2>4. \A i \in 1 .. Len(r) + j : i > Len(r) => i - Len(r) \in 1 .. j
    OBVIOUS
  <2> QED
    BY <2>2, <2>3, <2>4
<1>2. /\ w \in Seq(S) /\ Len(w) = Len(r) + Len(l) + Len(u) + 1
      /\ \A i \in 1 .. Len(r) + Len(l) : w[i] = IF i <= Len(r) THEN r[i] ELSE l[i - Len(r)]
  <2>1. /\ r \o l \in Seq(S) /\ Len(r \o l) = Len(r) + Len(l)
        /\ \A i \in 1 .. Len(r) + Len(l) : (r \o l)[i] = IF i <= Len(r) THEN r[i] ELSE l[i - Len(r)]
    BY ConcatProperties
  <2> QED
    BY <2>1
<1>3. Len(r) \in Nat /\ Len(l) \in Nat /\ Len(u) \in Nat
  OBVIOUS
<1> HIDE DEF p, w
<1>4. Len(p) <= Len(w) /\ \A i \in 1 .. Len(p) : p[i] = w[i]
  <2>1. Len(p) <= Len(w)
    BY <1>1, <1>2, <1>3
  <2>2. ASSUME NEW i \in 1 .. Len(p) PROVE p[i] = w[i]
    <3>1. i \in 1 .. Len(r) + j /\ i \in 1 .. Len(r) + Len(l)
      BY <1>1, <1>3
    <3> QED
      BY <1>1, <1>2, <3>1
  <2> QED
    BY <2>1, <2>2
<1>5. SubSeq(p, 1, Len(p)) = SubSeq(w, 1, Len(p))
  BY <1>1, <1>2, <1>4
<1> QED
  BY <1>4, <1>5 DEF IsPrefix, p, w

\* A prefix, element by element.
LEMMA PrefixIs ==
  ASSUME NEW S, NEW s \in Seq(S), NEW t \in Seq(S)
  PROVE  IsPrefix(s, t) <=> Len(s) <= Len(t) /\ \A i \in 1 .. Len(s) : s[i] = t[i]
<1>1. ASSUME IsPrefix(s, t) PROVE Len(s) <= Len(t) /\ \A i \in 1 .. Len(s) : s[i] = t[i]
  <2>1. Len(s) <= Len(t) /\ SubSeq(s, 1, Len(s)) = SubSeq(t, 1, Len(s))
    BY <1>1 DEF IsPrefix
  <2>2. ASSUME NEW i \in 1 .. Len(s) PROVE s[i] = t[i]
    <3>1. SubSeq(s, 1, Len(s))[i] = s[i] /\ SubSeq(t, 1, Len(s))[i] = t[i]
      BY <2>1
    <3> QED
      BY <2>1, <3>1
  <2> QED
    BY <2>1, <2>2
<1>2. ASSUME Len(s) <= Len(t), \A i \in 1 .. Len(s) : s[i] = t[i] PROVE IsPrefix(s, t)
  <2>1. SubSeq(s, 1, Len(s)) = SubSeq(t, 1, Len(s))
    BY <1>2
  <2> QED
    BY <1>2, <2>1 DEF IsPrefix
<1> QED
  BY <1>1, <1>2

\* Of two prefixes of one sequence, the shorter is a prefix of the longer.
LEMMA PrefixesNest ==
  ASSUME NEW S, NEW s \in Seq(S), NEW t \in Seq(S), NEW w \in Seq(S),
         IsPrefix(s, w), IsPrefix(t, w), Len(s) <= Len(t)
  PROVE  IsPrefix(s, t)
<1>1. /\ Len(s) <= Len(w) /\ \A i \in 1 .. Len(s) : s[i] = w[i]
      /\ Len(t) <= Len(w) /\ \A i \in 1 .. Len(t) : t[i] = w[i]
  BY PrefixIs
<1>2. \A i \in 1 .. Len(s) : i \in 1 .. Len(t)
  OBVIOUS
<1>3. \A i \in 1 .. Len(s) : s[i] = t[i]
  BY <1>1, <1>2
<1> QED
  BY <1>3, PrefixIs

\* A prefix of a prefix is a prefix.
LEMMA PrefixThrough ==
  ASSUME NEW S, NEW s \in Seq(S), NEW t \in Seq(S), NEW w \in Seq(S),
         IsPrefix(s, t), IsPrefix(t, w)
  PROVE  IsPrefix(s, w)
<1>1. /\ Len(s) <= Len(t) /\ \A i \in 1 .. Len(s) : s[i] = t[i]
      /\ Len(t) <= Len(w) /\ \A i \in 1 .. Len(t) : t[i] = w[i]
  BY PrefixIs
<1>2. \A i \in 1 .. Len(s) : i \in 1 .. Len(t)
  BY <1>1
<1>3. \A i \in 1 .. Len(s) : s[i] = w[i]
  BY <1>1, <1>2
<1>4. Len(s) <= Len(w)
  BY <1>1
<1> QED
  BY <1>3, <1>4, PrefixIs

\* A sequence cut within its second part is a prefix of the whole.
LEMMA CutIsPrefix ==
  ASSUME NEW S, NEW r \in Seq(S), NEW l \in Seq(S), NEW j \in Nat, j <= Len(l)
  PROVE  IsPrefix(r \o SubSeq(l, 1, j), r \o l) /\ r \o SubSeq(l, 1, j) \in Seq(S)
<1> DEFINE v == SubSeq(l, 1, j)
<1>1. v \in Seq(S) /\ Len(v) = j /\ \A i \in 1 .. j : v[i] = l[i]
  OBVIOUS
<1> HIDE DEF v
<1>2. /\ r \o v \in Seq(S) /\ Len(r \o v) = Len(r) + j
      /\ \A i \in 1 .. Len(r) + j : (r \o v)[i] = IF i <= Len(r) THEN r[i] ELSE v[i - Len(r)]
  BY <1>1, ConcatProperties
<1>3. /\ r \o l \in Seq(S) /\ Len(r \o l) = Len(r) + Len(l)
      /\ \A i \in 1 .. Len(r) + Len(l) : (r \o l)[i] = IF i <= Len(r) THEN r[i] ELSE l[i - Len(r)]
  BY ConcatProperties
<1>4. Len(r) \in Nat /\ Len(l) \in Nat
  OBVIOUS
<1>5. ASSUME NEW i \in 1 .. Len(r) + j PROVE (r \o v)[i] = (r \o l)[i]
  <2>1. i \in 1 .. Len(r) + Len(l) /\ (i > Len(r) => i - Len(r) \in 1 .. j)
    BY <1>4
  <2> QED
    BY <1>1, <1>2, <1>3, <2>1
<1>6. Len(r \o v) <= Len(r \o l)
  BY <1>2, <1>3, <1>4
<1>7. IsPrefix(r \o v, r \o l)
  BY <1>2, <1>3, <1>5, <1>6, PrefixIs
<1> QED
  BY <1>2, <1>7 DEF v

\* More rounds continue fewer, and are as long as they are many.
LEMMA RepeatedMore ==
  ASSUME NEW S, NEW w \in Seq(S), NEW a \in Nat, NEW hi \in Nat, a <= hi
  PROVE  /\ IsPrefix(FlattenSeq([r \in 1 .. a |-> w]), FlattenSeq([r \in 1 .. hi |-> w]))
         /\ w # <<>> => Len(FlattenSeq([r \in 1 .. a |-> w])) >= a
<1> DEFINE F(k) == FlattenSeq([r \in 1 .. k |-> w])
<1>1. F(0) = <<>> /\ \A k \in Nat : F(k + 1) = F(k) \o w /\ F(k) \in Seq(S)
  BY FlattenRepeated
<1> HIDE DEF F
<1> DEFINE T == {k \in Nat : a <= k => IsPrefix(F(a), F(k))}
           L == {k \in Nat : w # <<>> => Len(F(k)) >= k}
<1>2. 0 \in T
  <2>1. a <= 0 => a = 0
    OBVIOUS
  <2>2. F(0) \in Seq(S)
    BY <1>1
  <2>3. IsPrefix(F(0), F(0))
    BY <2>2, PrefixIs
  <2> QED
    BY <2>1, <2>3
<1>3. ASSUME NEW k \in Nat, k \in T PROVE k + 1 \in T
  <2>1. F(a) \in Seq(S) /\ F(k) \in Seq(S) /\ F(k + 1) \in Seq(S) /\ F(k + 1) = F(k) \o w
    <3>1. k + 1 \in Nat
      OBVIOUS
    <3> QED
      BY <1>1, <3>1
  <2>2. CASE a = k + 1
    <3>1. IsPrefix(F(a), F(a))
      BY <2>1, PrefixIs
    <3> QED
      BY <2>2, <3>1
  <2>3. CASE a # k + 1 /\ a <= k + 1
    <3>1. IsPrefix(F(a), F(k))
      BY <1>3, <2>3
    <3>2. IsPrefix(F(k), F(k + 1))
      BY <2>1, PartIsPrefix
    <3>3. IsPrefix(F(a), F(k + 1))
      BY <2>1, <3>1, <3>2, PrefixThrough
    <3> QED
      BY <3>3
  <2>4. CASE ~ (a <= k + 1)
    BY <2>4
  <2> QED
    BY <2>2, <2>3, <2>4
<1>4. 0 \in L
  BY <1>1
<1>5. ASSUME NEW k \in Nat, k \in L PROVE k + 1 \in L
  <2>1. F(k) \in Seq(S) /\ F(k + 1) = F(k) \o w
    BY <1>1
  <2>2. Len(F(k + 1)) = Len(F(k)) + Len(w)
    BY <2>1, ConcatProperties
  <2>3. Len(F(k)) \in Nat /\ Len(w) \in Nat /\ (w # <<>> => Len(w) >= 1)
    BY <2>1
  <2> QED
    BY <1>5, <2>2, <2>3
<1> HIDE DEF T, L
<1>6. hi \in T /\ a \in L
  BY <1>2, <1>3, <1>4, <1>5, NatInductive
<1> QED
  BY <1>6 DEF T, L, F

\* One more element of a list that is delivered piece by piece.
LEMMA CutOneMore ==
  ASSUME NEW S, NEW r \in Seq(S), NEW l \in Seq(S), NEW j \in Nat, j < Len(l)
  PROVE  /\ Append(r \o SubSeq(l, 1, j), l[j + 1]) = r \o SubSeq(l, 1, j + 1)
         /\ r \o SubSeq(l, 1, 0) = r /\ r \o SubSeq(l, 1, Len(l)) = r \o l
<1> DEFINE v == SubSeq(l, 1, j)
           w == SubSeq(l, 1, j + 1)
<1>1. v \in Seq(S) /\ l[j + 1] \in S /\ w = Append(v, l[j + 1])
  OBVIOUS
<1>2. SubSeq(l, 1, 0) = <<>> /\ SubSeq(l, 1, Len(l)) = l
  OBVIOUS
<1> HIDE DEF v, w
<1>3. Append(r \o v, l[j + 1]) = r \o w
  <2>1. PICK x \in S : x = l[j + 1] /\ w = Append(v, x)
    BY <1>1
  <2>2. r \o Append(v, x) = Append(r \o v, x)
    BY <1>1, <2>1, AppendSecond
  <2> QED
    BY <2>1, <2>2
<1>4. r \o <<>> = r
  OBVIOUS
<1> QED
  BY <1>2, <1>3, <1>4 DEF v, w

\* What comes after one and the same beginning.
LEMMA PrefixAfter ==
  ASSUME NEW S, NEW r \in Seq(S), NEW s \in Seq(S), NEW t \in Seq(S), IsPrefix(s, t)
  PROVE  IsPrefix(r \o s, r \o t)
<1>1. Len(s) <= Len(t) /\ \A i \in 1 .. Len(s) : s[i] = t[i]
  BY PrefixIs
<1>2. /\ r \o s \in Seq(S) /\ Len(r \o s) = Len(r) + Len(s)
      /\ \A i \in 1 .. Len(r) + Len(s) : (r \o s)[i] = IF i <= Len(r) THEN r[i] ELSE s[i - Len(r)]
  BY ConcatProperties
<1>3. /\ r \o t \in Seq(S) /\ Len(r \o t) = Len(r) + Len(t)
      /\ \A i \in 1 .. Len(r) + Len(t) : (r \o t)[i] = IF i <= Len(r) THEN r[i] ELSE t[i - Len(r)]
  BY ConcatProperties
<1>4. Len(r) \in Nat /\ Len(s) \in Nat /\ Len(t) \in Nat
  OBVIOUS
<1>5. ASSUME NEW i \in 1 .. Len(r) + Len(s) PROVE (r \o s)[i] = (r \o t)[i]
  <2>1. i \in 1 .. Len(r) + Len(t) /\ (i > Len(r) => i - Len(r) \in 1 .. Len(s))
    BY <1>1, <1>4
  <2> QED
    BY <1>1, <1>2, <1>3, <2>1
<1>6. Len(r \o s) <= Len(r \o t)
  BY <1>1, <1>2, <1>3, <1>4
<1> QED
  BY <1>2, <1>3, <1>5, <1>6, PrefixIs
-----------------------------------------------------------------------------
(***************************************************************************)
(* Counters that wrap.                                                     *)
(***************************************************************************)
\* A remainder is determined by any quotient that leaves it.
LEMMA ModUnique ==
  ASSUME NEW M \in Nat \ {0}, NEW x \in Int, NEW q \in Int, NEW r \in 0 .. (M - 1),
         x = M * q + r
  PROVE  x % M = r
OBVIOUS

\* The remainder of the next number.
LEMMA ModSucc ==
  ASSUME NEW M \in Nat \ {0}, NEW x \in Int
  PROVE  /\ x % M \in 0 .. (M - 1)
         /\ x % M = M - 1 => (x + 1) % M = 0
         /\ x % M # M - 1 => (x + 1) % M = (x % M) + 1
<1>1. x = M * (x \div M) + (x % M) /\ x % M \in 0 .. (M - 1) /\ x \div M \in Int
  OBVIOUS
<1>2. PICK q \in Int : q = x \div M
  BY <1>1
<1>3. PICK s \in 0 .. (M - 1) : s = x % M /\ x = M * q + s
  BY <1>1, <1>2
<1>4. CASE s = M - 1
  <2>1. M * (q + 1) = M * q + M
    OBVIOUS
  <2>2. x + 1 = M * (q + 1) + 0 /\ q + 1 \in Int /\ 0 \in 0 .. (M - 1)
    BY <1>3, <1>4, <2>1
  <2>3. (x + 1) % M = 0
    <3>1. PICK y \in Int : y = x + 1
      OBVIOUS
    <3>2. PICK t \in Int : t = q + 1
      OBVIOUS
    <3>3. PICK z \in 0 .. (M - 1) : z = 0
      BY <2>2
    <3>4. y = M * t + z
      BY <2>2, <3>1, <3>2, <3>3
    <3>5. y % M = z
      BY <3>4, ModUnique
    <3> QED
      BY <3>1, <3>3, <3>5
  <2> QED
    BY <1>3, <1>4, <2>3
<1>5. CASE s # M - 1
  <2>1. x + 1 = M * q + (s + 1) /\ s + 1 \in 0 .. (M - 1) /\ x + 1 \in Int
    BY <1>3, <1>5
  <2>2. (x + 1) % M = s + 1
    BY <2>1, ModUnique
  <2> QED
    BY <1>3, <1>5, <2>2
<1> QED
  BY <1>4, <1>5

\* A remainder may be taken before the next number is.
Rewraps(M, k) == (k % M) % M = k % M /\ ((k % M) + 1) % M = (k + 1) % M

\* It may, for every modulus: a register that wraps may count for one that does not.
LEMMA ModAgain ==
  ASSUME NEW M \in Nat \ {0}, NEW k \in Nat
  PROVE  Rewraps(M, k)
<1>1. PICK r \in 0 .. (M - 1) : r = k % M
  OBVIOUS
<1>2. r % M = r
  BY <1>1
<1>3. /\ r % M = M - 1 => (r + 1) % M = 0
      /\ r % M # M - 1 => (r + 1) % M = (r % M) + 1
  <2>1. r \in Int
    OBVIOUS
  <2> QED
    BY <2>1, ModSucc
<1>4. /\ k % M = M - 1 => (k + 1) % M = 0
      /\ k % M # M - 1 => (k + 1) % M = (k % M) + 1
  <2>1. k \in Int
    OBVIOUS
  <2> QED
    BY <2>1, ModSucc
<1>5. (r + 1) % M = (k + 1) % M
  BY <1>1, <1>2, <1>3, <1>4
<1> QED
  BY <1>1, <1>2, <1>5 DEF Rewraps

\* The remainder of a difference of two remainders.
LEMMA ModDifference ==
  ASSUME NEW M \in Nat \ {0}, NEW a \in 0 .. (M - 1), NEW b \in 0 .. (M - 1)
  PROVE  (a - b) % M = IF a >= b THEN a - b ELSE (a - b) + M
<1>1. a >= b => (a - b) % M = a - b
  <2>1. ASSUME NEW x \in 0 .. (M - 1) PROVE x % M = x
    OBVIOUS
  <2> QED
    BY <2>1
<1>2. ~(a >= b) => (a - b) % M = (a - b) + M
  <2>1. ASSUME NEW x \in (-M) .. (-1) PROVE x % M = x + M
    OBVIOUS
  <2> QED
    BY <2>1
<1> QED
  BY <1>1, <1>2

\* A counter of what went in and a counter of what came out, both wrapping,
\* tell how many are inside, modulo the width of the counters.
Tells(M, a, b, n) == (a - b) % M = n % M
Wrapped(M, c, up) == IF up = 1 THEN (c + 1) % M ELSE c

\* They keep telling it, whatever goes in and comes out.
LEMMA CountersTell ==
  ASSUME NEW M \in Nat \ {0}, NEW a \in 0 .. (M - 1), NEW b \in 0 .. (M - 1), NEW n \in Int,
         Tells(M, a, b, n), NEW up \in {0, 1}, NEW down \in {0, 1}, NEW n2, n2 = n + up - down
  PROVE  Tells(M, Wrapped(M, a, up), Wrapped(M, b, down), n2)
<1> USE DEF Tells, Wrapped
<1> DEFINE a2 == Wrapped(M, a, up)
           b2 == Wrapped(M, b, down)
<1>1. ASSUME NEW c \in 0 .. (M - 1)
      PROVE  /\ (c + 1) % M = IF c = M - 1 THEN 0 ELSE c + 1
             /\ (c + 1) % M \in 0 .. (M - 1)
  <2>1. c % M = c
    OBVIOUS
  <2>2. /\ c % M = M - 1 => (c + 1) % M = 0
        /\ c % M # M - 1 => (c + 1) % M = (c % M) + 1
    <3>1. PICK y \in Int : y = c
      OBVIOUS
    <3> QED
      BY <3>1, ModSucc
  <2>3. M - 1 \in Nat /\ c \in Nat
    OBVIOUS
  <2> QED
    BY <2>1, <2>2, <2>3
<1>2. a2 \in 0 .. (M - 1) /\ b2 \in 0 .. (M - 1)
  BY <1>1
<1>3. (a2 - b2) % M = IF a2 >= b2 THEN a2 - b2 ELSE (a2 - b2) + M
  BY <1>2, ModDifference
<1>4. (a - b) % M = IF a >= b THEN a - b ELSE (a - b) + M
  BY ModDifference
<1>5. PICK s \in 0 .. (M - 1) : s = n % M
  BY ModSucc
<1>6. /\ s = M - 1 => (n + 1) % M = 0
      /\ s # M - 1 => (n + 1) % M = s + 1
  BY <1>5, ModSucc
<1>7. /\ s = 0 => (n - 1) % M = M - 1
      /\ s # 0 => (n - 1) % M = s - 1
  <2>1. PICK t \in 0 .. (M - 1) : t = (n - 1) % M
    <3>1. PICK y \in Int : y = n - 1
      OBVIOUS
    <3>2. y % M \in 0 .. (M - 1)
      BY ModSucc
    <3> QED
      BY <3>1, <3>2
  <2>2. (t = M - 1 => s = 0) /\ (t # M - 1 => s = t + 1)
    <3>1. (n - 1) + 1 = n /\ n - 1 \in Int
      OBVIOUS
    <3> QED
      BY <1>5, <2>1, <3>1, ModSucc
  <2> QED
    BY <2>1, <2>2
<1>8. CASE up = 1 /\ down = 1
  <2>1. n2 = n /\ a2 = (a + 1) % M /\ b2 = (b + 1) % M
    BY <1>8
  <2> QED
    BY <1>1, <1>3, <1>4, <2>1
<1>9. CASE up = 1 /\ down = 0
  <2>1. n2 = n + 1 /\ a2 = (a + 1) % M /\ b2 = b
    BY <1>9
  <2>2. n2 % M = IF s = M - 1 THEN 0 ELSE s + 1
    BY <1>6, <2>1
  <2>3. s = IF a >= b THEN a - b ELSE (a - b) + M
    BY <1>4, <1>5
  <2>4. a2 = IF a = M - 1 THEN 0 ELSE a + 1
    BY <1>1, <2>1
  <2>5. (a2 - b2) % M = IF s = M - 1 THEN 0 ELSE s + 1
    BY <1>3, <2>1, <2>3, <2>4
  <2> QED
    BY <2>2, <2>5
<1>10. CASE up = 0 /\ down = 1
  <2>1. n2 = n - 1 /\ a2 = a /\ b2 = (b + 1) % M
    BY <1>10
  <2>2. n2 % M = IF s = 0 THEN M - 1 ELSE s - 1
    BY <1>7, <2>1
  <2>3. s = IF a >= b THEN a - b ELSE (a - b) + M
    BY <1>4, <1>5
  <2>4. b2 = IF b = M - 1 THEN 0 ELSE b + 1
    BY <1>1, <2>1
  <2>5. (a2 - b2) % M = IF s = 0 THEN M - 1 ELSE s - 1
    BY <1>3, <2>1, <2>3, <2>4
  <2> QED
    BY <2>2, <2>5
<1>11. CASE up = 0 /\ down = 0
  BY <1>11
<1> QED
  BY <1>8, <1>9, <1>10, <1>11
-----------------------------------------------------------------------------
\* A finite set that is linearly ordered has a first member.
LEMMA FirstExists ==
  ASSUME NEW T, NEW R, IsFiniteSet(T), T # {},
         \A a, b \in T : a = b \/ <<a, b>> \in R \/ <<b, a>> \in R,
         \A a, b, c \in T : <<a, b>> \in R /\ <<b, c>> \in R => <<a, c>> \in R
  PROVE  \E a \in T : \A b \in T : b = a \/ <<a, b>> \in R
<1> DEFINE First(A) == \E a \in A : \A b \in A : b = a \/ <<a, b>> \in R
           S == {n \in Nat : \A A \in SUBSET T : Cardinality(A) = n + 1 => First(A)}
<1>1. \A A \in SUBSET T : IsFiniteSet(A) /\ Cardinality(A) \in Nat
  BY FS_Subset, FS_CardinalityType
<1>2. 0 \in S
  <2> SUFFICES ASSUME NEW A \in SUBSET T, Cardinality(A) = 1 PROVE First(A)
    OBVIOUS
  <2>1. A # {}
    BY <1>1, FS_EmptySet
  <2>2. PICK x \in A : TRUE
    BY <2>1
  <2>3. IsFiniteSet(A \ {x}) /\ Cardinality(A \ {x}) = 0
    BY <1>1, <2>2, FS_RemoveElement
  <2>4. A \ {x} = {}
    BY <2>3, FS_EmptySet
  <2> QED
    BY <2>2, <2>4
<1>3. ASSUME NEW n \in Nat, n \in S PROVE n + 1 \in S
  <2> SUFFICES ASSUME NEW A \in SUBSET T, Cardinality(A) = n + 2 PROVE First(A)
    OBVIOUS
  <2>1. A # {}
    BY <1>1, FS_EmptySet
  <2>2. PICK x \in A : TRUE
    BY <2>1
  <2>3. Cardinality(A \ {x}) = n + 1
    BY <1>1, <2>2, FS_RemoveElement
  <2>4. First(A \ {x})
    BY <1>3, <2>3
  <2>5. PICK y \in A \ {x} : \A b \in A \ {x} : b = y \/ <<y, b>> \in R
    BY <2>4
  <2>6. CASE <<y, x>> \in R
    BY <2>5, <2>6
  <2>7. CASE <<x, y>> \in R
    <3>1. \A b \in A : b = x \/ <<x, b>> \in R
      BY <2>2, <2>5, <2>7
    <3> QED
      BY <3>1, <2>2
  <2> QED
    BY <2>2, <2>5, <2>6, <2>7
<1>4. Nat \subseteq S
  <2> HIDE DEF S
  <2> QED
    BY <1>2, <1>3, NatInductive
<1>5. Cardinality(T) # 0 /\ Cardinality(T) \in Nat
  BY <1>1, FS_EmptySet
<1>6. Cardinality(T) - 1 \in Nat
  BY <1>5
<1>7. Cardinality(T) - 1 \in S
  BY <1>4, <1>6
<1>8. Cardinality(T) = (Cardinality(T) - 1) + 1
  BY <1>5
<1> QED
  BY <1>7, <1>8
=============================================================================
