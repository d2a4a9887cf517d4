------------------------------ MODULE FlattenLemmas ------------------------------
(***************************************************************************)
(* What FlattenSeq returns, for sequences of any length: it is defined by  *)
(* recursion, which these lemmas turn into facts about appending.          *)
(***************************************************************************)
EXTENDS Integers, Sequences, SequencesExt, SequenceTheorems, NaturalsInduction,
        WellFoundedInduction, TLAPS

(* Every nonempty set of natural numbers has a least element: the form of  *)
(* induction used below.                                                   *)
LEMMA LeastNatural ==
  ASSUME NEW T \in SUBSET Nat, T # {}
  PROVE  \E m \in T : \A k \in T : m <= k
<1> DEFINE R == OpToRel(<, Nat)
<1>1. IsWellFoundedOn(R, Nat)
  BY NatLessThanWellFounded, Zenon
<1>2. PICK m \in T : \A k \in T : ~(<<k, m>> \in R)
  <2> HIDE DEF R
  <2> QED BY <1>1, WFMin
<1>3. \A k \in T : ~(k < m)
  BY <1>2 DEF OpToRel
<1> QED BY <1>3

(* The recursion of FlattenSeq has a solution.                             *)
LEMMA FlattenExists ==
  ASSUME NEW s, NEW N \in Nat
  PROVE  \E g : g = [i \in 1 .. N |-> IF i = 1 THEN s[i] ELSE g[i - 1] \o s[i]]
<1> DEFINE Upto(m) == \E g : g = [i \in 1 .. m |-> IF i = 1 THEN s[i] ELSE g[i - 1] \o s[i]]
           Missing == {m \in Nat : ~Upto(m)}
<1>1. Upto(0)
  <2> DEFINE g == [i \in 1 .. 0 |-> s]
  <2>1. g = [i \in 1 .. 0 |-> IF i = 1 THEN s[i] ELSE g[i - 1] \o s[i]]
    OBVIOUS
  <2> HIDE DEF g
  <2> QED BY <2>1
<1>2. ASSUME NEW m \in Nat, Upto(m) PROVE Upto(m + 1)
  <2>1. PICK g : g = [i \in 1 .. m |-> IF i = 1 THEN s[i] ELSE g[i - 1] \o s[i]]
    BY <1>2
  <2> DEFINE last == IF m = 0 THEN s[1] ELSE g[m] \o s[m + 1]
             h == [i \in 1 .. m + 1 |-> IF i = m + 1 THEN last ELSE g[i]]
  <2>2. h = [i \in 1 .. m + 1 |-> IF i = 1 THEN s[i] ELSE h[i - 1] \o s[i]]
    <3>1. ASSUME NEW i \in 1 .. m + 1
          PROVE  h[i] = IF i = 1 THEN s[i] ELSE h[i - 1] \o s[i]
      <4>1. CASE i = m + 1
        BY <4>1
      <4>2. CASE i # m + 1
        <5>1. i \in 1 .. m /\ h[i] = g[i] /\ (i # 1 => i - 1 \in 1 .. m /\ h[i - 1] = g[i - 1])
          BY <4>2
        <5> HIDE DEF h
        <5> QED BY <2>1, <5>1
      <4> QED BY <4>1, <4>2
    <3> QED BY <3>1
  <2> HIDE DEF h
  <2> QED BY <2>2
<1> HIDE DEF Upto
<1>3. Missing = {}
  <2> SUFFICES ASSUME Missing # {} PROVE FALSE
    OBVIOUS
  <2>1. PICK m \in Missing : \A k \in Missing : m <= k
    BY LeastNatural
  <2>2. m - 1 \in Nat /\ m - 1 \notin Missing
    BY <2>1, <1>1
  <2>3. Upto((m - 1) + 1)
    BY <2>2, <1>2
  <2> QED BY <2>3
<1> QED BY <1>3 DEF Upto

(* The pieces of s put together, up to each of them.                       *)
Flattened(s) ==
  CHOOSE g : g = [i \in 1 .. Len(s) |-> IF i = 1 THEN s[i] ELSE g[i - 1] \o s[i]]

LEMMA FlattenedRecursion ==
  ASSUME NEW S, NEW s \in Seq(S)
  PROVE  \A i \in 1 .. Len(s) :
           Flattened(s)[i] = IF i = 1 THEN s[i] ELSE Flattened(s)[i - 1] \o s[i]
<1> DEFINE body(g) == [i \in 1 .. Len(s) |-> IF i = 1 THEN s[i] ELSE g[i - 1] \o s[i]]
           f == Flattened(s)
<1>1. \E g : g = body(g)
  <2>1. Len(s) \in Nat
    BY LenProperties
  <2> QED BY <2>1, FlattenExists
<1>2. f = CHOOSE g : g = body(g)
  BY DEF Flattened
<1>3. f = body(f)
  <2> HIDE DEF body, f
  <2> QED BY <1>1, <1>2, Zenon
<1>4. \A i \in 1 .. Len(s) : f[i] = IF i = 1 THEN s[i] ELSE f[i - 1] \o s[i]
  <2> HIDE DEF f
  <2> QED BY <1>3
<1> QED BY <1>4

(* FlattenSeq, in these terms.                                             *)
LEMMA FlattenSeqIs ==
  ASSUME NEW s
  PROVE  FlattenSeq(s) = IF Len(s) = 0 THEN s ELSE Flattened(s)[Len(s)]
BY DEF FlattenSeq, Flattened

(* It returns a sequence of the pieces' elements.                          *)
LEMMA FlattenType ==
  ASSUME NEW S, NEW s \in Seq(Seq(S))
  PROVE  FlattenSeq(s) \in Seq(S)
<1> DEFINE f == Flattened(s)
           Untyped == {i \in 1 .. Len(s) : f[i] \notin Seq(S)}
<1>1. Len(s) \in Nat /\ \A i \in 1 .. Len(s) : s[i] \in Seq(S)
  BY LenProperties
<1>2. \A i \in 1 .. Len(s) : f[i] = IF i = 1 THEN s[i] ELSE f[i - 1] \o s[i]
  BY FlattenedRecursion
<1> HIDE DEF f
<1>3. Untyped = {}
  <2> SUFFICES ASSUME Untyped # {} PROVE FALSE
    OBVIOUS
  <2>1. Untyped \in SUBSET Nat
    OBVIOUS
  <2>2. PICK m \in Untyped : \A k \in Untyped : m <= k
    <3> HIDE DEF Untyped
    <3> QED BY <2>1, LeastNatural
  <2>3. m # 1
    BY <1>1, <1>2, <2>2
  <2>4. m - 1 \in 1 .. Len(s) /\ f[m - 1] \in Seq(S)
    BY <1>1, <2>2, <2>3
  <2>5. f[m] = f[m - 1] \o s[m] /\ s[m] \in Seq(S)
    BY <1>1, <1>2, <2>3
  <2>6. f[m] \in Seq(S)
    BY <2>4, <2>5, ConcatProperties
  <2> QED BY <2>6
<1>4. CASE Len(s) = 0
  BY <1>4, FlattenSeqIs, EmptySeq
<1>5. CASE Len(s) # 0
  <2>1. Len(s) \in 1 .. Len(s)
    BY <1>1, <1>5
  <2>2. f[Len(s)] \in Seq(S)
    BY <1>3, <2>1
  <2>3. FlattenSeq(s) = f[Len(s)]
    BY <1>5, FlattenSeqIs DEF f
  <2> QED BY <2>2, <2>3
<1> QED BY <1>4, <1>5

(* Nothing flattens to nothing.                                            *)
LEMMA FlattenEmpty == FlattenSeq(<<>>) = <<>>
BY DEF FlattenSeq

(* A piece that is appended is appended to the result.                     *)
LEMMA FlattenAppend ==
  ASSUME NEW S, NEW s \in Seq(Seq(S)), NEW x \in Seq(S)
  PROVE  FlattenSeq(Append(s, x)) = FlattenSeq(s) \o x
<1> DEFINE t == Append(s, x)
           f == Flattened(s)
           g == Flattened(t)
           N == Len(s)
<1>1. /\ N \in Nat /\ t \in Seq(Seq(S)) /\ Len(t) = N + 1
      /\ \A i \in 1 .. N : t[i] = s[i]
      /\ t[N + 1] = x
  BY LenProperties, AppendProperties
<1>2. \A i \in 1 .. N : f[i] = IF i = 1 THEN s[i] ELSE f[i - 1] \o s[i]
  BY FlattenedRecursion
<1>3. \A i \in 1 .. Len(t) : g[i] = IF i = 1 THEN t[i] ELSE g[i - 1] \o t[i]
  BY <1>1, FlattenedRecursion
<1>4. FlattenSeq(t) = g[N + 1]
  <2>1. FlattenSeq(t) = IF Len(t) = 0 THEN t ELSE g[Len(t)]
    BY FlattenSeqIs
  <2>2. Len(t) = N + 1 /\ Len(t) # 0
    BY <1>1
  <2> HIDE DEF t, g
  <2> QED BY <2>1, <2>2
<1> DEFINE Different == {i \in 1 .. N : f[i] # g[i]}
<1> HIDE DEF f, g, t
<1>5. Different = {}
  <2> SUFFICES ASSUME Different # {} PROVE FALSE
    OBVIOUS
  <2>1. Different \in SUBSET Nat
    OBVIOUS
  <2>2. PICK m \in Different : \A k \in Different : m <= k
    <3> HIDE DEF Different
    <3> QED BY <2>1, LeastNatural
  <2>3. m # 1
    BY <1>1, <1>2, <1>3, <2>2
  <2>4. m - 1 \in 1 .. N /\ f[m - 1] = g[m - 1]
    BY <1>1, <2>2, <2>3
  <2>5. f[m] = f[m - 1] \o s[m] /\ g[m] = g[m - 1] \o s[m]
    <3>1. m \in 1 .. N /\ m \in 1 .. Len(t) /\ t[m] = s[m]
      BY <1>1
    <3>2. f[m] = f[m - 1] \o s[m]
      BY <1>2, <2>3, <3>1
    <3>3. g[m] = g[m - 1] \o t[m]
      BY <1>3, <2>3, <3>1
    <3> QED BY <3>1, <3>2, <3>3
  <2> QED BY <2>2, <2>4, <2>5
<1>6. CASE N = 0
  <2>1. s = <<>>
    BY <1>6, EmptySeq
  <2>2. FlattenSeq(t) = x
    BY <1>1, <1>3, <1>4, <1>6
  <2> QED BY <2>1, <2>2, FlattenEmpty, ConcatEmptySeq DEF t
<1>7. CASE N # 0
  <2>1. FlattenSeq(s) = f[N]
    BY <1>7, FlattenSeqIs DEF f
  <2>2. N + 1 \in 1 .. Len(t) /\ N + 1 # 1 /\ N + 1 - 1 = N /\ N \in 1 .. N
    BY <1>1, <1>7
  <2>3. g[N + 1] = g[N] \o x
    <3>1. g[N + 1] = IF N + 1 = 1 THEN t[N + 1] ELSE g[N + 1 - 1] \o t[N + 1]
      <4> DEFINE G(i) == g[i] = IF i = 1 THEN t[i] ELSE g[i - 1] \o t[i]
      <4>1. \A i \in 1 .. Len(t) : G(i)
        BY <1>3
      <4> HIDE DEF G
      <4>2. G(N + 1)
        BY <2>2, <4>1
      <4> QED BY <4>2 DEF G
    <3>2. t[N + 1] = x
      BY <1>1
    <3> HIDE DEF N
    <3> QED BY <2>2, <3>1, <3>2
  <2>4. f[N] = g[N]
    BY <1>5, <2>2
  <2> QED BY <1>4, <2>1, <2>3, <2>4 DEF t
<1> QED BY <1>6, <1>7

(* start[i] is the length of the pieces before piece i.                    *)
PieceStarts(s, start) ==
  /\ \A i \in 1 .. Len(s) + 1 : start[i] \in Nat
  /\ start[1] = 0
  /\ \A i \in 1 .. Len(s) : start[i + 1] = start[i] + Len(s[i])

(* The element j of piece i stands in the result behind the pieces before  *)
(* it.                                                                     *)
LEMMA FlattenAt ==
  ASSUME NEW S, NEW s \in Seq(Seq(S)), NEW start, PieceStarts(s, start)
  PROVE  /\ Len(FlattenSeq(s)) = start[Len(s) + 1]
         /\ \A i \in 1 .. Len(s) : \A j \in 1 .. Len(s[i]) :
              FlattenSeq(s)[start[i] + j] = s[i][j]
<1> DEFINE N == Len(s)
           f == Flattened(s)
           Good(m) ==
             /\ f[m] \in Seq(S) /\ Len(f[m]) = start[m + 1]
             /\ \A i \in 1 .. m : start[i + 1] <= start[m + 1]
             /\ \A i \in 1 .. m : \A j \in 1 .. Len(s[i]) : f[m][start[i] + j] = s[i][j]
           Bad == {m \in 1 .. N : ~Good(m)}
<1>1. /\ N \in Nat
      /\ \A i \in 1 .. N : s[i] \in Seq(S) /\ Len(s[i]) \in Nat
  BY LenProperties
<1>2. \A i \in 1 .. N : f[i] = IF i = 1 THEN s[i] ELSE f[i - 1] \o s[i]
  BY FlattenedRecursion
<1>0. start[1] = 0
  BY DEF PieceStarts
<1>3. \A i \in 1 .. N : /\ start[i] \in Nat /\ start[i + 1] \in Nat
                        /\ start[i + 1] = start[i] + Len(s[i])
  BY <1>1 DEF PieceStarts
<1> HIDE DEF f
<1>4. N # 0 => Good(1)
  <2> SUFFICES ASSUME N # 0 PROVE Good(1)
    OBVIOUS
  <2>1. 1 \in 1 .. N /\ 1 + 1 = 2
    BY <1>1
  <2>2. f[1] = s[1] /\ s[1] \in Seq(S) /\ Len(s[1]) \in Nat /\ start[2] = start[1] + Len(s[1])
    BY <1>1, <1>2, <1>3, <2>1
  <2>3. start[2] \in Nat /\ start[1] + Len(s[1]) = Len(s[1])
    BY <1>0, <1>3, <2>1, <2>2
  <2>4. f[1] \in Seq(S) /\ Len(f[1]) = start[1 + 1]
    BY <2>1, <2>2, <2>3
  <2>5. \A i \in 1 .. 1 : i = 1
    OBVIOUS
  <2>6. \A i \in 1 .. 1 : start[i + 1] <= start[1 + 1]
    BY <2>1, <2>3, <2>5
  <2>7. ASSUME NEW j \in 1 .. Len(s[1]) PROVE f[1][start[1] + j] = s[1][j]
    <3>1. start[1] + j = j
      BY <1>0, <2>2
    <3> QED BY <2>2, <3>1
  <2> QED BY <2>4, <2>5, <2>6, <2>7
<1>5. ASSUME NEW m \in 1 .. N, m # 1, Good(m - 1) PROVE Good(m)
  <2> DEFINE g == f[m - 1]
  <2>1. /\ m - 1 \in 1 .. N /\ (m - 1) + 1 = m /\ m \in Nat
        /\ f[m] = g \o s[m] /\ s[m] \in Seq(S) /\ Len(s[m]) \in Nat
        /\ start[m] \in Nat /\ start[m + 1] = start[m] + Len(s[m]) /\ start[m + 1] \in Nat
    <3>1. m - 1 \in 1 .. N /\ (m - 1) + 1 = m /\ m \in Nat /\ m \in 1 .. N
      BY <1>1, <1>5
    <3>2. f[m] = g \o s[m]
      BY <1>2, <1>5
    <3> QED BY <1>1, <1>3, <3>1, <3>2
  <2>2. /\ g \in Seq(S) /\ Len(g) = start[m]
        /\ \A i \in 1 .. m - 1 : start[i + 1] <= start[m]
        /\ \A i \in 1 .. m - 1 : \A j \in 1 .. Len(s[i]) : g[start[i] + j] = s[i][j]
    BY <1>5, <2>1
  <2> HIDE DEF g
  <2>3. /\ g \o s[m] \in Seq(S) /\ Len(g \o s[m]) = start[m + 1]
        /\ \A x \in 1 .. Len(g) + Len(s[m]) :
             (g \o s[m])[x] = IF x <= Len(g) THEN g[x] ELSE s[m][x - Len(g)]
    <3> DEFINE t == s[m]
    <3>1. t \in Seq(S) /\ g \in Seq(S) /\ start[m + 1] = Len(g) + Len(t)
      BY <2>1, <2>2
    <3> HIDE DEF t
    <3>2. /\ g \o t \in Seq(S) /\ Len(g \o t) = Len(g) + Len(t)
          /\ \A x \in 1 .. Len(g) + Len(t) :
               (g \o t)[x] = IF x <= Len(g) THEN g[x] ELSE t[x - Len(g)]
      BY <3>1, ConcatProperties
    <3> QED BY <3>1, <3>2 DEF t
  <2>4. \A i \in 1 .. m : start[i + 1] <= start[m + 1]
    <3> TAKE i \in 1 .. m
    <3>1. i = m \/ i \in 1 .. m - 1
      BY <2>1
    <3>2. i \in 1 .. N
      BY <1>1, <2>1
    <3>3. start[i + 1] \in Nat
      BY <1>3, <3>2
    <3>4. i \in 1 .. m - 1 => start[i + 1] <= start[m]
      BY <2>2
    <3>5. CASE i = m
      BY <2>1, <3>5
    <3>6. CASE i \in 1 .. m - 1
      <4>1. start[i + 1] <= start[m]
        BY <3>4, <3>6
      <4>2. start[m] \in Nat /\ start[m + 1] \in Nat /\ start[m] <= start[m + 1]
        BY <2>1
      <4> QED BY ONLY <3>3, <4>1, <4>2
    <3> QED BY <3>1, <3>5, <3>6
  <2>5. ASSUME NEW i \in 1 .. m, NEW j \in 1 .. Len(s[i])
        PROVE  (g \o s[m])[start[i] + j] = s[i][j]
    <3>1. i \in 1 .. N
      BY <1>1, <2>1
    <3>2. Len(s[i]) \in Nat /\ start[i] \in Nat /\ j \in Nat /\ j >= 1 /\ j <= Len(s[i])
          /\ start[i + 1] = start[i] + Len(s[i])
      BY <1>1, <1>3, <3>1
    <3>3. CASE i = m
      <4>1. /\ start[i] + j \in 1 .. Len(g) + Len(s[m]) /\ ~(start[i] + j <= Len(g))
            /\ (start[i] + j) - Len(g) = j
        <5> DEFINE a == Len(g)
                   l == Len(s[m])
        <5>1. start[i] = a /\ Len(s[i]) = l
          BY <2>2, <3>3
        <5>2. a \in Nat /\ l \in Nat /\ j \in Nat /\ j >= 1 /\ j <= l
          BY <2>1, <2>2, <3>2, <3>3
        <5> HIDE DEF a, l
        <5>3. a + j \in 1 .. a + l /\ ~(a + j <= a) /\ (a + j) - a = j
          BY <5>2
        <5> QED BY <5>1, <5>3 DEF a, l
      <4>2. (g \o s[m])[start[i] + j] = s[m][(start[i] + j) - Len(g)]
        BY <2>3, <4>1
      <4> QED BY <3>3, <4>1, <4>2
    <3>4. CASE i # m
      <4>1. i \in 1 .. m - 1
        BY <2>1, <3>4
      <4>2. start[i + 1] <= start[m]
        BY <2>2, <4>1
      <4>3. start[i] + j \in 1 .. Len(g) + Len(s[m]) /\ start[i] + j <= Len(g)
        <5> DEFINE a == start[i]
                   b == start[m]
                   l == Len(s[m])
                   k == Len(s[i])
        <5>1. a \in Nat /\ b \in Nat /\ l \in Nat /\ k \in Nat /\ Len(g) = b
          BY <2>1, <2>2, <3>2
        <5>2. j \in Nat /\ j >= 1 /\ j <= k /\ a + k <= b
          BY <3>2, <4>2
        <5> HIDE DEF a, b, l, k
        <5>3. a + j \in 1 .. b + l /\ a + j <= b
          BY <5>1, <5>2
        <5> QED BY <5>1, <5>3 DEF a, l
      <4>4. (g \o s[m])[start[i] + j] = g[start[i] + j]
        BY <2>3, <4>3
      <4>5. g[start[i] + j] = s[i][j]
        BY <2>2, <4>1
      <4> QED BY <4>4, <4>5
    <3> QED BY <3>3, <3>4
  <2> QED BY <2>1, <2>3, <2>4, <2>5
<1>6. Bad = {}
  <2> SUFFICES ASSUME Bad # {} PROVE FALSE
    OBVIOUS
  <2>1. Bad \in SUBSET Nat
    BY <1>1
  <2>2. PICK m \in Bad : \A k \in Bad : m <= k
    <3> HIDE DEF Bad
    <3> QED BY <2>1, LeastNatural
  <2> HIDE DEF Good
  <2>3. m \in 1 .. N /\ ~Good(m) /\ N # 0
    BY <1>1, <2>2
  <2>4. m # 1
    BY <1>4, <2>3
  <2>5. m - 1 \in 1 .. N /\ m - 1 \notin Bad
    BY <1>1, <2>2, <2>3, <2>4
  <2> QED BY <1>5, <2>3, <2>4, <2>5
<1>7. CASE N = 0
  <2>1. FlattenSeq(s) = s
    BY <1>7, FlattenSeqIs
  <2>2. Len(FlattenSeq(s)) = start[Len(s) + 1]
    BY <2>1, <1>0, <1>7
  <2>3. 1 .. Len(s) = {}
    BY <1>7
  <2> QED BY <2>2, <2>3
<1>8. CASE N # 0
  <2>1. FlattenSeq(s) = f[N]
    BY <1>8, FlattenSeqIs DEF f
  <2>2. N \in 1 .. N
    BY <1>1, <1>8
  <2>3. Good(N)
    <3> HIDE DEF Good
    <3> QED BY <1>6, <2>2
  <2> QED BY <2>1, <2>3
<1> QED BY <1>7, <1>8
=============================================================================
