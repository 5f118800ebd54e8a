---------------------------- MODULE FlattenProofs ----------------------------
(***************************************************************************)
(* What FlattenSeq of the community modules computes, for sequences of any *)
(* length.  It is defined by a recursive function, whose existence and     *)
(* values are shown by the least counterexample: a set of numbers that is  *)
(* not empty has a least element.                                          *)
(***************************************************************************)
EXTENDS Integers, Sequences, SequencesExt, SequenceTheorems,
        WellFoundedInduction, TLAPS

LEMMA LeastElement ==
  ASSUME NEW T \in SUBSET Nat, T # {}
  PROVE  \E m \in T : \A k \in T : m <= k
<1> DEFINE less == OpToRel(<, Nat)
<1>1. IsWellFoundedOn(less, Nat)
      BY NatLessThanWellFounded
<1>2. PICK m \in T : \A k \in T : <<k, m>> \notin less
      <2> HIDE DEF less
      <2>1. QED BY <1>1, WFMin
<1>3. ASSUME NEW x \in Nat, NEW y \in Nat, x < y
      PROVE  <<x, y>> \in less
      BY <1>3, Zenon DEF OpToRel
<1>4. ASSUME NEW k \in T PROVE m <= k
  <2> HIDE DEF less
  <2>1. ~(k < m)
        BY <1>2, <1>3
  <2>2. QED BY <2>1
<1>5. QED
      BY <1>4

\* f is what FlattenSeq computes, one sequence after the other.
Flattens(f, n, seqs) ==
  f = [i \in 1 .. n |-> IF i = 1 THEN seqs[i] ELSE f[i - 1] \o seqs[i]]

LEMMA FlattensUnique ==
  ASSUME NEW seqs, NEW m \in Nat, NEW n \in Nat, m <= n,
         NEW f, Flattens(f, m, seqs), NEW g, Flattens(g, n, seqs)
  PROVE  \A i \in 1 .. m : f[i] = g[i]
<1> DEFINE T == {i \in Nat : i \in 1 .. m /\ f[i] # g[i]}
<1> SUFFICES ASSUME T # {} PROVE FALSE
    BY m \in Nat
<1>1. PICK j \in T : \A k \in T : j <= k
      BY LeastElement
<1>2. CASE j = 1
      BY <1>1, <1>2 DEF Flattens
<1>3. CASE j > 1
  <2>1. j - 1 \in 1 .. m /\ j \in 1 .. m /\ j \in 1 .. n /\ j # 1 /\ f[j] # g[j]
        BY <1>3
  <2>2. f[j - 1] = g[j - 1]
    <3>1. j - 1 \in Nat /\ ~(j <= j - 1)
          BY <2>1
    <3>2. QED
          BY <1>1, <2>1, <3>1
  <2>3. f[j] = f[j - 1] \o seqs[j]
        BY <2>1 DEF Flattens
  <2>4. g[j] = g[j - 1] \o seqs[j]
        BY <2>1 DEF Flattens
  <2>5. QED BY <2>1, <2>2, <2>3, <2>4
<1>4. QED
      BY <1>1, <1>2, <1>3

LEMMA FlattensExists ==
  ASSUME NEW S, NEW seqs \in Seq(Seq(S)), NEW n \in 1 .. Len(seqs)
  PROVE  \E f \in [1 .. n -> Seq(S)] : Flattens(f, n, seqs)
<1> DEFINE Q(k) == \E f \in [1 .. k -> Seq(S)] : Flattens(f, k, seqs)
           T == {k \in Nat : k \in 1 .. Len(seqs) /\ ~Q(k)}
<1> SUFFICES ASSUME T # {} PROVE FALSE
    OBVIOUS
<1>1. PICK j \in T : \A k \in T : j <= k
      <2> HIDE DEF T
      <2>1. T \in SUBSET Nat BY DEF T
      <2> QED BY <2>1, LeastElement
<1>2. CASE j = 1
  <2> DEFINE f == [i \in 1 .. 1 |-> seqs[i]]
  <2>1. f \in [1 .. 1 -> Seq(S)]
        BY <1>1, <1>2
  <2>2. Flattens(f, 1, seqs)
        BY DEF Flattens
  <2>3. QED
        BY <2>1, <2>2, <1>1, <1>2
<1>3. CASE j > 1
  <2>1. j - 1 \in 1 .. Len(seqs) /\ j \in 1 .. Len(seqs) /\ j \in Nat /\ ~Q(j)
        BY <1>1, <1>3
  <2>2. PICK f \in [1 .. j - 1 -> Seq(S)] : Flattens(f, j - 1, seqs)
    <3>1. j - 1 \in Nat /\ ~(j <= j - 1)
          BY <2>1
    <3>2. Q(j - 1)
          BY <1>1, <2>1, <3>1
    <3>3. QED BY <3>2
  <2> DEFINE g == [i \in 1 .. j |-> IF i = j THEN f[j - 1] \o seqs[j] ELSE f[i]]
  <2>3. f[j - 1] \o seqs[j] \in Seq(S)
        BY <2>1, <2>2, <1>3, ConcatProperties
  <2>4. g \in [1 .. j -> Seq(S)]
        BY <2>1, <2>2, <2>3
  <2>5. ASSUME NEW i \in 1 .. j
        PROVE g[i] = IF i = 1 THEN seqs[i] ELSE g[i - 1] \o seqs[i]
    <3>1. CASE i = j
      <4>1. j # 1 /\ i - 1 # j /\ i - 1 \in 1 .. j
            BY <3>1, <1>3, <2>1
      <4>2. g[i] = f[j - 1] \o seqs[j] /\ g[i - 1] = f[i - 1]
            BY <3>1, <4>1, <2>1
      <4>3. QED BY <3>1, <4>1, <4>2
    <3>2. CASE i # j
      <4>1. f[i] = IF i = 1 THEN seqs[i] ELSE f[i - 1] \o seqs[i]
        <5>1. i \in 1 .. j - 1
              BY <2>1, <3>2
        <5>2. QED BY <2>2, <5>1, Zenon DEF Flattens
      <4>2. g[i] = f[i] /\ (i # 1 => g[i - 1] = f[i - 1])
            BY <2>1, <3>2
      <4>3. QED BY <4>1, <4>2
    <3>3. QED BY <3>1, <3>2
  <2>6. Flattens(g, j, seqs)
        BY <2>5 DEF Flattens
  <2>7. QED
        BY <2>1, <2>4, <2>6
<1>4. QED
      BY <1>1, <1>2, <1>3

LEMMA FlattenIs ==
  ASSUME NEW S, NEW seqs \in Seq(Seq(S)), seqs # <<>>,
         NEW f, Flattens(f, Len(seqs), seqs)
  PROVE  FlattenSeq(seqs) = f[Len(seqs)]
<1> DEFINE g == CHOOSE h : Flattens(h, Len(seqs), seqs)
<1>1. Len(seqs) \in Nat /\ Len(seqs) # 0
      BY EmptySeq
<1>2. Flattens(g, Len(seqs), seqs)
      BY Zenon
<1>3. FlattenSeq(seqs) = g[Len(seqs)]
      BY <1>1 DEF FlattenSeq, Flattens
<1>4. g[Len(seqs)] = f[Len(seqs)]
      <2> HIDE DEF g
      <2> QED BY <1>1, <1>2, FlattensUnique
<1>5. QED
      BY <1>3, <1>4

(***************************************************************************)
(* FlattenSeq of nothing, of one more sequence, of one sequence, and of    *)
(* two lists one after the other.                                          *)
(***************************************************************************)
LEMMA FlattenEmpty == FlattenSeq(<<>>) = <<>>
BY DEF FlattenSeq

LEMMA FlattenType ==
  ASSUME NEW S, NEW seqs \in Seq(Seq(S))
  PROVE  FlattenSeq(seqs) \in Seq(S)
<1>1. CASE seqs = <<>>
      BY <1>1, FlattenEmpty, EmptySeq
<1>2. CASE seqs # <<>>
  <2>1. Len(seqs) \in 1 .. Len(seqs)
        BY <1>2, EmptySeq
  <2>2. PICK f \in [1 .. Len(seqs) -> Seq(S)] : Flattens(f, Len(seqs), seqs)
        BY <2>1, FlattensExists
  <2>3. FlattenSeq(seqs) = f[Len(seqs)]
        BY <1>2, <2>2, FlattenIs
  <2>4. QED
        BY <2>1, <2>2, <2>3
<1>3. QED
      BY <1>1, <1>2

LEMMA FlattenAppend ==
  ASSUME NEW S, NEW seqs \in Seq(Seq(S)), NEW x \in Seq(S)
  PROVE  FlattenSeq(Append(seqs, x)) = FlattenSeq(seqs) \o x
<1> DEFINE n == Len(seqs)
           more == Append(seqs, x)
<1>1. /\ more \in Seq(Seq(S)) /\ more # <<>> /\ n \in Nat /\ Len(more) = n + 1
      /\ \A i \in 1 .. n : more[i] = seqs[i]
      /\ more[n + 1] = x
      BY AppendProperties, LenProperties
<1>2. n + 1 \in 1 .. Len(more)
      BY <1>1
<1>3. PICK f \in [1 .. n + 1 -> Seq(S)] : Flattens(f, n + 1, more)
      BY <1>1, <1>2, FlattensExists
<1>4. FlattenSeq(more) = f[n + 1]
      BY <1>1, <1>3, FlattenIs
<1>5. \A i \in 1 .. n + 1 :
        f[i] = IF i = 1 THEN more[i] ELSE f[i - 1] \o more[i]
  <2> HIDE DEF more
  <2>1. QED BY <1>3, Zenon DEF Flattens
<1>6. CASE seqs = <<>>
  <2>1. n = 0 /\ f[1] = x
        BY <1>1, <1>5, <1>6
  <2>2. QED
        BY <1>4, <1>6, <2>1, FlattenEmpty, ConcatEmptySeq
<1>7. CASE seqs # <<>>
  <2>1. n \in 1 .. Len(seqs) /\ n # 0
        BY <1>7, EmptySeq
  <2> DEFINE g == [i \in 1 .. n |-> f[i]]
  <2>2. ASSUME NEW i \in 1 .. n
        PROVE  g[i] = IF i = 1 THEN seqs[i] ELSE g[i - 1] \o seqs[i]
    <3>1. /\ i \in 1 .. n + 1 /\ (i # 1 => i - 1 \in 1 .. n)
          /\ more[i] = seqs[i]
          BY <1>1
    <3>2. f[i] = IF i = 1 THEN seqs[i] ELSE f[i - 1] \o seqs[i]
          BY <1>5, <3>1
    <3>3. QED BY <3>1, <3>2
  <2>3. Flattens(g, n, seqs)
        BY <2>2 DEF Flattens
  <2>4. FlattenSeq(seqs) = g[n]
    <3> HIDE DEF g
    <3>1. QED BY <1>7, <2>3, FlattenIs
  <2>5. f[n + 1] = f[n] \o x
    <3>1. n + 1 \in 1 .. n + 1 /\ n + 1 # 1 /\ (n + 1) - 1 = n
          BY <1>1, <2>1
    <3>2. f[n + 1] = f[(n + 1) - 1] \o more[n + 1]
          BY <1>5, <3>1, Zenon
    <3>3. QED
          BY <1>1, <3>1, <3>2
  <2>6. QED
        BY <1>4, <2>1, <2>4, <2>5
<1>8. QED
      BY <1>6, <1>7

LEMMA FlattenOne ==
  ASSUME NEW S, NEW x \in Seq(S)
  PROVE  FlattenSeq(<<x>>) = x
<1>1. <<>> \in Seq(Seq(S)) /\ Append(<<>>, x) = <<x>>
      OBVIOUS
<1>2. QED
  <2> DEFINE e == <<>>
  <2>1. FlattenSeq(Append(e, x)) = FlattenSeq(e) \o x
    <3>1. e \in Seq(Seq(S))
          OBVIOUS
    <3> HIDE DEF e
    <3>2. QED BY <3>1, FlattenAppend
  <2>2. QED
        BY <1>1, <2>1, FlattenEmpty, ConcatEmptySeq

\* Concatenations bracketed in another way.
LEMMA Regroup3 ==
  ASSUME NEW S, NEW a \in Seq(S), NEW b \in Seq(S), NEW c \in Seq(S)
  PROVE  (a \o b) \o c = a \o (b \o c)
OBVIOUS

LEMMA ConcatOfAppend ==
  ASSUME NEW S, NEW s \in Seq(S), NEW t \in Seq(S), NEW x \in S
  PROVE  s \o t \in Seq(S) /\ s \o Append(t, x) = Append(s \o t, x)
OBVIOUS

LEMMA FlattenConcat ==
  ASSUME NEW S, NEW a \in Seq(Seq(S)), NEW b \in Seq(Seq(S))
  PROVE  FlattenSeq(a \o b) = FlattenSeq(a) \o FlattenSeq(b)
<1> DEFINE Q(c) == FlattenSeq(a \o c) = FlattenSeq(a) \o FlattenSeq(c)
           T == {n \in Nat : \E c \in Seq(Seq(S)) : Len(c) = n /\ ~Q(c)}
<1>0. SUFFICES ASSUME ~Q(b) PROVE FALSE
    OBVIOUS
<1>1. Len(b) \in T
      BY <1>0
<1>2. PICK n \in T : \A k \in T : n <= k
  <2> HIDE DEF T
  <2>1. T \in SUBSET Nat BY DEF T
  <2>2. QED BY <1>1, <2>1, LeastElement
<1>3. PICK c \in Seq(Seq(S)) : Len(c) = n /\ ~Q(c)
      OBVIOUS
<1>4. CASE c = <<>>
      BY <1>3, <1>4, FlattenEmpty, FlattenType, ConcatEmptySeq
<1>5. CASE c # <<>>
  <2>1. PICK d \in Seq(Seq(S)), x \in Seq(S) : c = Append(d, x)
        BY <1>5, SequenceEmptyOrAppend
  <2>2. Len(d) \in Nat /\ ~(n <= Len(d))
        BY <1>3, <2>1, AppendProperties, LenProperties
  <2>3. Q(d)
        BY <1>2, <2>2
  <2>4. a \o c = Append(a \o d, x) /\ a \o d \in Seq(Seq(S))
    <3> HIDE DEF T, Q
    <3>1. d \in Seq(Seq(S)) /\ x \in Seq(S) /\ a \in Seq(Seq(S))
          BY <2>1
    <3>2. a \o d \in Seq(Seq(S)) /\ a \o Append(d, x) = Append(a \o d, x)
          BY <3>1, ConcatOfAppend
    <3>3. QED
          BY <2>1, <3>2
  <2>5. /\ FlattenSeq(a \o c) = FlattenSeq(a \o d) \o x
        /\ FlattenSeq(c) = FlattenSeq(d) \o x
        BY <2>1, <2>4, FlattenAppend
  <2>6. (FlattenSeq(a) \o FlattenSeq(d)) \o x = FlattenSeq(a) \o (FlattenSeq(d) \o x)
    <3> DEFINE f == FlattenSeq(a)  g == FlattenSeq(d)
    <3>1. f \in Seq(S) /\ g \in Seq(S) /\ x \in Seq(S)
          BY <2>1, FlattenType
    <3> HIDE DEF T, Q, f, g
    <3>2. (f \o g) \o x = f \o (g \o x)
          BY <3>1, Regroup3
    <3>3. QED
          BY <3>2 DEF f, g
  <2>7. QED
        BY <1>3, <2>3, <2>5, <2>6
<1>6. QED
      BY <1>4, <1>5

LEMMA FlattenTail ==
  ASSUME NEW S, NEW seqs \in Seq(Seq(S)), seqs # <<>>
  PROVE  FlattenSeq(seqs) = Head(seqs) \o FlattenSeq(Tail(seqs))
<1>1. /\ Head(seqs) \in Seq(S) /\ Tail(seqs) \in Seq(Seq(S))
      /\ <<Head(seqs)>> \in Seq(Seq(S))
      /\ seqs = <<Head(seqs)>> \o Tail(seqs)
      BY HeadTailProperties
<1>2. FlattenSeq(<<Head(seqs)>> \o Tail(seqs))
        = FlattenSeq(<<Head(seqs)>>) \o FlattenSeq(Tail(seqs))
  <2> DEFINE h == <<Head(seqs)>>  t == Tail(seqs)
  <2>1. h \in Seq(Seq(S)) /\ t \in Seq(Seq(S))
        BY <1>1
  <2> HIDE DEF h, t
  <2>2. FlattenSeq(h \o t) = FlattenSeq(h) \o FlattenSeq(t)
        BY <2>1, FlattenConcat
  <2>3. QED BY <2>2 DEF h, t
<1>3. FlattenSeq(<<Head(seqs)>>) = Head(seqs)
      BY <1>1, FlattenOne
<1>4. QED
      BY <1>1, <1>2, <1>3

\* A sequence is what comes first and what comes then.
LEMMA SplitSeq ==
  ASSUME NEW S, NEW s \in Seq(S), NEW n \in 0 .. Len(s)
  PROVE  /\ SubSeq(s, 1, n) \in Seq(S) /\ SubSeq(s, n + 1, Len(s)) \in Seq(S)
         /\ SubSeq(s, 1, n) \o SubSeq(s, n + 1, Len(s)) = s
<1> DEFINE a == SubSeq(s, 1, n)  b == SubSeq(s, n + 1, Len(s))  c == a \o b
<1>0. Len(s) \in Nat /\ n \in Nat
      OBVIOUS
<1>1. /\ a \in Seq(S) /\ Len(a) = n
      /\ \A i \in 1 .. n : a[i] = s[i]
      BY <1>0, SubSeqProperties
<1>2. /\ b \in Seq(S) /\ Len(b) = Len(s) - n
      /\ \A i \in 1 .. (Len(s) - n) : b[i] = s[n + i]
      OBVIOUS
<1> HIDE DEF a, b
<1>3. /\ c \in Seq(S) /\ Len(c) = Len(a) + Len(b)
      /\ \A i \in 1 .. Len(c) : c[i] = IF i <= Len(a) THEN a[i] ELSE b[i - Len(a)]
  <2>1. a \in Seq(S) /\ b \in Seq(S)
        BY <1>1, <1>2
  <2>2. QED
        BY <2>1, ConcatProperties
<1> HIDE DEF c
<1>4. Len(c) = Len(s)
      BY <1>0, <1>1, <1>2, <1>3
<1>5. ASSUME NEW i \in 1 .. Len(s) PROVE c[i] = s[i]
  <2>1. CASE i <= n
    <3>1. i \in 1 .. n /\ i \in 1 .. Len(c)
          BY <1>0, <1>4, <2>1
    <3>2. QED
          BY <1>1, <1>3, <2>1, <3>1
  <2>2. CASE i > n
    <3>1. /\ i - n \in 1 .. (Len(s) - n) /\ n + (i - n) = i /\ ~(i <= n)
          /\ i \in 1 .. Len(c)
          BY <1>0, <1>4, <2>2
    <3>2. QED
          BY <1>1, <1>2, <1>3, <3>1
  <2>3. QED
        BY <1>0, <2>1, <2>2
<1>6. c = s
      BY <1>3, <1>4, <1>5, SeqEqual
<1>7. QED
      BY <1>1, <1>2, <1>6 DEF a, b, c
=============================================================================
