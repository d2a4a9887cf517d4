------------------------- MODULE CircularBufferLemmas -------------------------
(***************************************************************************)
(* What the operators of module CircularBuffer do, for every number of     *)
(* slots and every value of the buffer: the facts the proofs about the     *)
(* buffer and about the driver rest on.                                    *)
(***************************************************************************)
EXTENDS CircularBuffer, TLAPS, SequenceTheorems, WellFoundedInduction

(* A function on 1 .. n is a sequence of length n.                         *)
LEMMA FunctionIsSeq ==
  ASSUME NEW n \in Nat, NEW S, NEW s \in [1 .. n -> S]
  PROVE  s \in Seq(S) /\ Len(s) = n
<1>1. s \in Seq(S)
  BY SeqDef
<1>2. Len(s) \in Nat /\ DOMAIN s = 1 .. Len(s)
  BY <1>1, LenProperties
<1>3. 1 .. n = 1 .. Len(s)
  BY <1>2
<1>4. n = Len(s)
  BY <1>2, <1>3
<1> QED BY <1>1, <1>4

(* The buffer that memset leaves is well formed                            *)
(* (aesd_circular_buffer_init).                                            *)
LEMMA InitWellFormed ==
  ASSUME NEW P
  PROVE  /\ aesd_circular_buffer_init \in Buffers(P)
         /\ WellFormed(aesd_circular_buffer_init)
BY MaxOpsAssumption, SMT
   DEF aesd_circular_buffer_init, Buffers, Entries, Slots, NoEntry, WellFormed

(* Adding an entry to a well-formed buffer leaves a well-formed buffer     *)
(* (aesd_circular_buffer_add_entry).                                       *)
LEMMA AddEntryWellFormed ==
  ASSUME NEW P, NEW buf \in Buffers(P), WellFormed(buf), NEW e \in Entries(P)
  PROVE  /\ aesd_circular_buffer_add_entry(buf, e) \in Buffers(P)
         /\ WellFormed(aesd_circular_buffer_add_entry(buf, e))
<1> DEFINE new == aesd_circular_buffer_add_entry(buf, e)
<1>1. /\ buf.in_offs \in Slots /\ buf.out_offs \in Slots /\ buf.full \in BOOLEAN
      /\ buf.entry \in [Slots -> Entries(P \cup {NULL})]
  BY DEF Buffers
<1>2. NextIn(buf) \in Slots /\ NextOut(buf) \in Slots /\ FullAfter(buf) \in BOOLEAN
  BY <1>1, MaxOpsAssumption DEF NextIn, NextOut, FullAfter, Slots
<1>3. [buf.entry EXCEPT ![buf.in_offs] = e] \in [Slots -> Entries(P \cup {NULL})]
  BY <1>1 DEF Entries
<1>4. new \in Buffers(P)
  BY <1>2, <1>3 DEF aesd_circular_buffer_add_entry, Buffers
<1>5. FullAfter(buf) => NextOut(buf) = NextIn(buf)
  BY DEF NextOut
<1>6. ASSUME ~FullAfter(buf)
      PROVE  /\ NextOut(buf) = 0
             /\ \A i \in Slots : i >= NextIn(buf) =>
                   [buf.entry EXCEPT ![buf.in_offs] = e][i] = NoEntry
  BY <1>1, <1>6, MaxOpsAssumption DEF FullAfter, NextOut, NextIn, WellFormed, Slots
<1>7. WellFormed(new)
  BY <1>5, <1>6 DEF WellFormed, aesd_circular_buffer_add_entry
<1> QED BY <1>4, <1>7

(* Ordered is a sequence of entries, and of MaxOps of them exactly when    *)
(* the buffer is full.                                                     *)
LEMMA OrderedType ==
  ASSUME NEW P, NEW buf \in Buffers(P), WellFormed(buf)
  PROVE  /\ EntryCount(buf) \in 0 .. MaxOps
         /\ EntryCount(buf) = MaxOps <=> buf.full
         /\ \A i \in 1 .. EntryCount(buf) : SlotOf(buf, i) \in Slots
         /\ Ordered(buf) \in Seq(Entries(P \cup {NULL}))
         /\ Len(Ordered(buf)) = EntryCount(buf)
         /\ \A i \in 1 .. EntryCount(buf) : Ordered(buf)[i] = buf.entry[SlotOf(buf, i)]
<1>1. /\ buf.in_offs \in Slots /\ buf.out_offs \in Slots /\ buf.full \in BOOLEAN
      /\ buf.entry \in [Slots -> Entries(P \cup {NULL})]
  BY DEF Buffers
<1>2. /\ EntryCount(buf) \in 0 .. MaxOps
      /\ EntryCount(buf) = MaxOps <=> buf.full
  BY <1>1, MaxOpsAssumption DEF EntryCount, WellFormed, Slots
<1>3. \A i \in 1 .. EntryCount(buf) : SlotOf(buf, i) \in Slots
  BY <1>1, <1>2, MaxOpsAssumption DEF SlotOf, EntryCount, WellFormed, Slots
<1>4. \A i \in 1 .. EntryCount(buf) : buf.entry[SlotOf(buf, i)] \in Entries(P \cup {NULL})
  BY <1>1, <1>3
<1>5. /\ Ordered(buf) \in Seq(Entries(P \cup {NULL}))
      /\ Len(Ordered(buf)) = EntryCount(buf)
      /\ \A i \in 1 .. EntryCount(buf) : Ordered(buf)[i] = buf.entry[SlotOf(buf, i)]
  <2> DEFINE at(i) == buf.entry[SlotOf(buf, i)]
  <2>1. \A i \in 1 .. EntryCount(buf) : at(i) \in Entries(P \cup {NULL})
    BY <1>4
  <2>2. Ordered(buf) = [i \in 1 .. EntryCount(buf) |-> at(i)]
    BY DEF Ordered
  <2>3. EntryCount(buf) \in Nat
    BY <1>2, MaxOpsAssumption
  <2> HIDE DEF at
  <2>4. Ordered(buf) \in [1 .. EntryCount(buf) -> Entries(P \cup {NULL})]
    BY <2>1, <2>2
  <2>5. Ordered(buf) \in Seq(Entries(P \cup {NULL})) /\ Len(Ordered(buf)) = EntryCount(buf)
    BY <2>3, <2>4, FunctionIsSeq
  <2>6. \A i \in 1 .. EntryCount(buf) : Ordered(buf)[i] = at(i)
    BY <2>2
  <2> QED BY <2>5, <2>6 DEF at
<1> QED BY <1>2, <1>3, <1>5

(* Adding to a buffer that is not full appends the entry to the log and    *)
(* adding to a full one also drops the oldest                              *)
(* (aesd_circular_buffer_add_entry).                                       *)
LEMMA AddEntryOrdered ==
  ASSUME NEW P, NEW buf \in Buffers(P), WellFormed(buf), NEW e \in Entries(P)
  PROVE  Ordered(aesd_circular_buffer_add_entry(buf, e)) =
           IF buf.full THEN Append(Tail(Ordered(buf)), e) ELSE Append(Ordered(buf), e)
<1> DEFINE new == aesd_circular_buffer_add_entry(buf, e)
           E   == Entries(P \cup {NULL})
           old == Ordered(buf)
<1>1. /\ buf.in_offs \in Slots /\ buf.out_offs \in Slots /\ buf.full \in BOOLEAN
      /\ buf.entry \in [Slots -> E]
  BY DEF Buffers
<1>2. new \in Buffers(P) /\ WellFormed(new)
  BY AddEntryWellFormed
<1>3. e \in E
  BY DEF Entries
<1>4. /\ EntryCount(buf) \in 0 .. MaxOps
      /\ EntryCount(buf) = MaxOps <=> buf.full
      /\ old \in Seq(E)
      /\ Len(old) = EntryCount(buf)
      /\ \A i \in 1 .. EntryCount(buf) :
            SlotOf(buf, i) \in Slots /\ old[i] = buf.entry[SlotOf(buf, i)]
  BY OrderedType
<1>5. /\ EntryCount(new) \in 0 .. MaxOps
      /\ Ordered(new) \in Seq(E)
      /\ Len(Ordered(new)) = EntryCount(new)
      /\ \A i \in 1 .. EntryCount(new) :
            SlotOf(new, i) \in Slots /\ Ordered(new)[i] = new.entry[SlotOf(new, i)]
  BY <1>2, OrderedType
<1>6. /\ new.in_offs = NextIn(buf) /\ new.out_offs = NextOut(buf) /\ new.full = FullAfter(buf)
      /\ \A i \in Slots : new.entry[i] = IF i = buf.in_offs THEN e ELSE buf.entry[i]
  BY <1>1 DEF aesd_circular_buffer_add_entry
<1> HIDE DEF new, E, old
<1>7. CASE buf.full
  <2>1. EntryCount(new) = MaxOps
    BY <1>6, <1>7 DEF EntryCount, FullAfter
  <2>2. old # <<>>
    BY <1>4, <1>7, MaxOpsAssumption
  <2>3. /\ Tail(old) \in Seq(E)
        /\ Len(Tail(old)) = MaxOps - 1
        /\ \A i \in 1 .. MaxOps - 1 : Tail(old)[i] = old[i + 1]
    BY <2>2, <1>4, <1>7, HeadTailProperties
  <2>4. /\ Append(Tail(old), e) \in Seq(E)
        /\ Len(Append(Tail(old), e)) = MaxOps
        /\ \A i \in 1 .. MaxOps : Append(Tail(old), e)[i] =
             IF i = MaxOps THEN e ELSE Tail(old)[i]
    BY <2>3, <1>3, MaxOpsAssumption, AppendProperties
  <2>5. ASSUME NEW i \in 1 .. MaxOps - 1
        PROVE  /\ SlotOf(new, i) = SlotOf(buf, i + 1)
               /\ SlotOf(new, i) # buf.in_offs
    BY <1>1, <1>6, <1>7, MaxOpsAssumption
       DEF SlotOf, NextIn, NextOut, FullAfter, WellFormed, Slots
  <2>6. SlotOf(new, MaxOps) = buf.in_offs
    BY <1>1, <1>6, <1>7, MaxOpsAssumption
       DEF SlotOf, NextIn, NextOut, FullAfter, WellFormed, Slots
  <2>7. ASSUME NEW i \in 1 .. MaxOps
        PROVE  Ordered(new)[i] = Append(Tail(old), e)[i]
    <3>1. CASE i = MaxOps
      BY <3>1, <2>1, <2>4, <2>6, <1>1, <1>5, <1>6, MaxOpsAssumption
    <3>2. CASE i # MaxOps
      <4>1. i \in 1 .. MaxOps - 1 /\ i + 1 \in 1 .. MaxOps
        BY <3>2, MaxOpsAssumption
      <4>2. Append(Tail(old), e)[i] = buf.entry[SlotOf(buf, i + 1)]
        BY <4>1, <3>2, <2>3, <2>4, <1>4, <1>7
      <4>3. Ordered(new)[i] = buf.entry[SlotOf(new, i)]
        BY <4>1, <2>1, <2>5, <1>5, <1>6
      <4> QED BY <4>1, <4>2, <4>3, <2>5
    <3> QED BY <3>1, <3>2
  <2>8. Ordered(new) = Append(Tail(old), e)
    BY <2>1, <2>4, <2>7, <1>5, SeqEqual
  <2> QED BY <2>8, <1>7 DEF new, old
<1>8. CASE ~buf.full
  <2>0. buf.in_offs \in 0 .. MaxOps - 1 /\ buf.out_offs = 0
    BY <1>1, <1>8 DEF WellFormed, Slots
  <2>1. EntryCount(buf) = buf.in_offs /\ EntryCount(new) = buf.in_offs + 1
    <3>1. EntryCount(buf) = buf.in_offs
      BY <2>0, <1>8, MaxOpsAssumption DEF EntryCount
    <3>2. CASE buf.in_offs = MaxOps - 1
      <4>1. new.full
        BY <3>2, <1>6 DEF FullAfter
      <4>2. EntryCount(new) = MaxOps
        BY <4>1 DEF EntryCount
      <4> QED BY <3>1, <3>2, <4>2, MaxOpsAssumption
    <3>3. CASE buf.in_offs # MaxOps - 1
      <4>1. ~new.full /\ new.in_offs = buf.in_offs + 1 /\ new.out_offs = 0
        BY <3>3, <2>0, <1>6, <1>8 DEF FullAfter, NextIn, NextOut
      <4> QED BY <3>1, <4>1, <2>0, MaxOpsAssumption DEF EntryCount
    <3> QED BY <3>1, <3>2, <3>3
  <2>2. /\ Append(old, e) \in Seq(E)
        /\ Len(Append(old, e)) = buf.in_offs + 1
        /\ \A i \in 1 .. buf.in_offs + 1 : Append(old, e)[i] =
             IF i = buf.in_offs + 1 THEN e ELSE old[i]
    BY <2>1, <1>3, <1>4, MaxOpsAssumption, AppendProperties
  <2>3. \A i \in 1 .. buf.in_offs + 1 : SlotOf(new, i) = i - 1
    BY <1>1, <1>6, <1>8, MaxOpsAssumption
       DEF SlotOf, FullAfter, NextIn, NextOut, WellFormed, Slots
  <2>4. \A i \in 1 .. buf.in_offs : SlotOf(buf, i) = i - 1
    BY <1>1, <1>8, MaxOpsAssumption DEF SlotOf, WellFormed, Slots
  <2>5. ASSUME NEW i \in 1 .. buf.in_offs + 1
        PROVE  Ordered(new)[i] = Append(old, e)[i]
    <3>1. CASE i = buf.in_offs + 1
      <4>1. SlotOf(new, i) = buf.in_offs /\ i \in 1 .. EntryCount(new)
        BY <3>1, <2>0, <2>1, <2>3, MaxOpsAssumption
      <4>2. Ordered(new)[i] = e
        BY <4>1, <1>1, <1>5, <1>6
      <4> QED BY <3>1, <4>2, <2>2
    <3>2. CASE i # buf.in_offs + 1
      <4>1. i \in 1 .. buf.in_offs /\ i - 1 \in Slots /\ i - 1 # buf.in_offs
        BY <3>2, <2>0, MaxOpsAssumption DEF Slots
      <4>2. Append(old, e)[i] = buf.entry[i - 1]
        BY <4>1, <3>2, <2>1, <2>2, <2>4, <1>4
      <4>3. Ordered(new)[i] = new.entry[i - 1]
        BY <2>1, <2>3, <1>5
      <4> QED BY <4>1, <4>2, <4>3, <1>6
    <3> QED BY <3>1, <3>2
  <2>6. Ordered(new) = Append(old, e)
    BY <2>1, <2>2, <2>5, <1>5, SeqEqual
  <2> QED BY <2>6, <1>8 DEF new, old
<1> QED BY <1>1, <1>7, <1>8

(* What a full buffer hands back is the memory of the oldest entry, and    *)
(* one that is not full hands back nothing                                 *)
(* (aesd_circular_buffer_add_entry).                                       *)
LEMMA OverwrittenIsOldest ==
  ASSUME NEW P, NEW buf \in Buffers(P), WellFormed(buf)
  PROVE  Overwritten(buf) = IF buf.full THEN Head(Ordered(buf)).buffptr ELSE NULL
<1>1. CASE buf.full
  <2>1. /\ Ordered(buf)[1] = buf.entry[SlotOf(buf, 1)]
        /\ Len(Ordered(buf)) = MaxOps
    <3>1. EntryCount(buf) = MaxOps /\ 1 \in 1 .. EntryCount(buf)
      BY <1>1, MaxOpsAssumption DEF EntryCount
    <3> QED BY <3>1, OrderedType
  <2>2. SlotOf(buf, 1) = buf.in_offs
    BY <1>1, MaxOpsAssumption DEF SlotOf, WellFormed, Buffers, Slots
  <2> QED BY <1>1, <2>1, <2>2 DEF Overwritten
<1> QED BY <1>1 DEF Overwritten

-----------------------------------------------------------------------------
(* Every nonempty set of natural numbers has a least element: the form of  *)
(* induction used below.                                                   *)
LEMMA LeastElement ==
  ASSUME NEW T \in SUBSET Nat, T # {}
  PROVE  \E m \in T : \A k \in T : m <= k
<1> DEFINE R == OpToRel(<, Nat)
<1>1. IsWellFoundedOn(R, Nat)
  BY NatLessThanWellFounded, Zenon
<1>2. PICK m \in T : \A k \in T : ~(<<k, m>> \in R)
  <2> HIDE DEF R
  <2> QED BY <1>1, WFMin
<1>3. \A k \in T : ~(k < m)
  BY <1>2 DEF OpToRel
<1> QED BY <1>3

(* A function that satisfies the recursion of PrefixSums exists.           *)
LEMMA PrefixSumsExist ==
  ASSUME NEW size, NEW N \in Nat
  PROVE  \E g : g = [n \in 0 .. N |-> IF n = 0 THEN 0 ELSE g[n - 1] + size[n - 1]]
<1> DEFINE Upto(m) == \E g : g = [n \in 0 .. m |-> IF n = 0 THEN 0 ELSE g[n - 1] + size[n - 1]]
           Missing == {m \in Nat : ~Upto(m)}
<1>1. Upto(0)
  <2> DEFINE g == [n \in 0 .. 0 |-> 0]
  <2>1. g = [n \in 0 .. 0 |-> IF n = 0 THEN 0 ELSE g[n - 1] + size[n - 1]]
    OBVIOUS
  <2> HIDE DEF g
  <2> QED BY <2>1
<1>2. ASSUME NEW m \in Nat, Upto(m) PROVE Upto(m + 1)
  <2>1. PICK g : g = [n \in 0 .. m |-> IF n = 0 THEN 0 ELSE g[n - 1] + size[n - 1]]
    BY <1>2
  <2> DEFINE h == [n \in 0 .. m + 1 |-> IF n = m + 1 THEN g[m] + size[m] ELSE g[n]]
  <2>2. h = [n \in 0 .. m + 1 |-> IF n = 0 THEN 0 ELSE h[n - 1] + size[n - 1]]
    <3>1. ASSUME NEW n \in 0 .. m + 1
          PROVE  h[n] = IF n = 0 THEN 0 ELSE h[n - 1] + size[n - 1]
      BY <2>1
    <3> QED BY <3>1
  <2> HIDE DEF h
  <2> QED BY <2>2
<1> HIDE DEF Upto
<1>3. Missing = {}
  <2> SUFFICES ASSUME Missing # {} PROVE FALSE
    OBVIOUS
  <2>1. PICK m \in Missing : \A k \in Missing : m <= k
    BY LeastElement
  <2>2. m - 1 \in Nat /\ m - 1 \notin Missing
    BY <2>1, <1>1
  <2>3. Upto((m - 1) + 1)
    BY <2>2, <1>2
  <2> QED BY <2>3
<1> QED BY <1>3 DEF Upto

(* What PrefixSums computes, for every number of slots and all sizes.      *)
LEMMA PrefixSumsRecursion ==
  ASSUME NEW size \in [Slots -> Nat]
  PROVE  /\ PrefixSums(size) \in [0 .. MaxOps -> Nat]
         /\ PrefixSums(size)[0] = 0
         /\ \A n \in Slots : PrefixSums(size)[n + 1] = PrefixSums(size)[n] + size[n]
<1> DEFINE body(g) == [n \in 0 .. MaxOps |-> IF n = 0 THEN 0 ELSE g[n - 1] + size[n - 1]]
           sum == PrefixSums(size)
<1>1. \E g : g = body(g)
  BY PrefixSumsExist, MaxOpsAssumption
<1>2. sum = CHOOSE g : g = body(g)
  BY DEF PrefixSums
<1>3. sum = body(sum)
  <2> HIDE DEF body, sum
  <2> QED BY <1>1, <1>2, Zenon
<1> HIDE DEF sum
<1>4. DOMAIN sum = 0 .. MaxOps /\ sum[0] = 0
  BY <1>3, MaxOpsAssumption
<1>5. \A n \in Slots : sum[n + 1] = sum[n] + size[n]
  BY <1>3, MaxOpsAssumption DEF Slots
<1> DEFINE Untyped == {n \in 0 .. MaxOps : sum[n] \notin Nat}
<1>6. Untyped = {}
  <2> SUFFICES ASSUME Untyped # {} PROVE FALSE
    OBVIOUS
  <2>0. Untyped \in SUBSET Nat
    BY MaxOpsAssumption
  <2>1. PICK m \in Untyped : \A k \in Untyped : m <= k
    <3> HIDE DEF Untyped
    <3> QED BY <2>0, LeastElement
  <2>2. m - 1 \in Slots /\ m - 1 \notin Untyped
    BY <2>1, <1>4, MaxOpsAssumption DEF Slots
  <2>3. sum[m - 1] \in Nat /\ size[m - 1] \in Nat /\ sum[(m - 1) + 1] = sum[m - 1] + size[m - 1]
    BY <2>2, <1>5, MaxOpsAssumption DEF Slots
  <2>4. (m - 1) + 1 = m
    BY MaxOpsAssumption
  <2> QED BY <2>3, <2>4
<1>7. sum \in [0 .. MaxOps -> Nat]
  BY <1>3, <1>6
<1> QED BY <1>4, <1>5, <1>7 DEF sum

(* The sums do not decrease.                                               *)
LEMMA PrefixSumsMonotone ==
  ASSUME NEW size \in [Slots -> Nat], NEW i \in 0 .. MaxOps, NEW j \in i .. MaxOps
  PROVE  PrefixSums(size)[i] <= PrefixSums(size)[j]
<1> DEFINE sum == PrefixSums(size)
           Below == {n \in i .. MaxOps : sum[n] < sum[i]}
<1>1. /\ sum \in [0 .. MaxOps -> Nat]
      /\ \A n \in Slots : sum[n + 1] = sum[n] + size[n]
  BY PrefixSumsRecursion
<1> HIDE DEF sum
<1>2. Below \in SUBSET Nat
  BY MaxOpsAssumption
<1>3. Below = {}
  <2> SUFFICES ASSUME Below # {} PROVE FALSE
    OBVIOUS
  <2>1. PICK m \in Below : \A k \in Below : m <= k
    <3> HIDE DEF Below
    <3> QED BY <1>2, LeastElement
  <2>2. m # i /\ m - 1 \in i .. MaxOps /\ m - 1 \notin Below
    BY <2>1, <1>1, MaxOpsAssumption
  <2>3. m - 1 \in Slots /\ (m - 1) + 1 = m
    BY <2>2, MaxOpsAssumption DEF Slots
  <2>4. sum[m] = sum[m - 1] + size[m - 1] /\ size[m - 1] \in Nat
    BY <2>3, <1>1
  <2>5. sum[m - 1] \in Nat /\ sum[i] \in Nat /\ sum[m] \in Nat
    <3>1. m - 1 \in 0 .. MaxOps /\ i \in 0 .. MaxOps /\ m \in 0 .. MaxOps
      BY <2>1, <2>3, MaxOpsAssumption DEF Slots
    <3> QED BY <1>1, <3>1
  <2>6. sum[m - 1] >= sum[i]
    BY <2>2, <2>5
  <2> QED BY <2>1, <2>4, <2>5, <2>6
<1>4. sum[i] <= sum[j]
  <2>1. sum[i] \in Nat /\ sum[j] \in Nat /\ j \in i .. MaxOps
    BY <1>1, MaxOpsAssumption
  <2> QED BY <2>1, <1>3
<1> QED BY <1>4 DEF sum

(* The passes of the search visit slots that exist.                        *)
LEMMA VisitedType ==
  ASSUME NEW P, NEW buf \in Buffers(P), NEW idx \in Slots
  PROVE  Visited(buf, idx) \in Slots
<1>1. idx + buf.in_offs \in Nat
  BY MaxOpsAssumption DEF Buffers, Slots
<1>2. \A n \in Nat, m \in Nat \ {0} : n % m \in 0 .. m - 1
  BY SMT
<1> QED BY <1>1, <1>2, MaxOpsAssumption DEF Visited, Slots

(* The slot a pass visits, without the division.                           *)
LEMMA VisitedIs ==
  ASSUME NEW P, NEW buf \in Buffers(P), NEW idx \in Slots
  PROVE  Visited(buf, idx) = IF idx + buf.in_offs < MaxOps THEN idx + buf.in_offs
                                                           ELSE idx + buf.in_offs - MaxOps
<1> DEFINE n == idx + buf.in_offs
<1>1. n \in Nat /\ n < 2 * MaxOps /\ MaxOps \in Nat \ {0}
  BY MaxOpsAssumption DEF Buffers, Slots
<1> HIDE DEF n
<1>2. n < MaxOps => n % MaxOps = n
  BY <1>1, SMT
<1>3. MaxOps <= n => n % MaxOps = n - MaxOps
  BY <1>1, SMT
<1>4. Visited(buf, idx) = IF n < MaxOps THEN n ELSE n - MaxOps
  BY <1>1, <1>2, <1>3 DEF Visited, n
<1> QED BY <1>4, MaxOpsAssumption DEF n, Buffers, Slots

(* The search finds a byte when there is one: the pass that stops is the   *)
(* first one whose end is past the position, although the loop compares    *)
(* with <= at both ends (aesd_circular_buffer_find_entry_offset_for_fpos). *)
LEMMA SearchFinds ==
  ASSUME NEW P, NEW buf \in Buffers(P), NEW pos \in Nat
  PROVE  LET found == aesd_circular_buffer_find_entry_offset_for_fpos(buf, pos)
             total == TotalByteCount(buf)
         IN  IF pos < total[MaxOps]
             THEN \E idx \in Slots :
                    /\ total[idx] \in Nat /\ total[idx] <= pos
                    /\ pos < total[idx] + buf.entry[Visited(buf, idx)].size
                    /\ found = [slot |-> Visited(buf, idx), offset |-> pos - total[idx]]
             ELSE found = NULL
<1> DEFINE size  == [idx \in Slots |-> buf.entry[Visited(buf, idx)].size]
           total == TotalByteCount(buf)
           hits  == Hits(buf, pos)
           found == aesd_circular_buffer_find_entry_offset_for_fpos(buf, pos)
<1>1. size \in [Slots -> Nat]
  BY VisitedType DEF Buffers, Entries
<1>2. total = PrefixSums(size)
  BY DEF TotalByteCount
<1>3. \A idx \in Slots : size[idx] = buf.entry[Visited(buf, idx)].size
  OBVIOUS
<1>4. hits = {idx \in Slots : total[idx] <= pos + 1 /\ pos + 1 <= total[idx] + size[idx]}
  BY <1>3 DEF Hits, Hit
<1> HIDE DEF size, total, hits
<1>5. /\ total \in [0 .. MaxOps -> Nat]
      /\ total[0] = 0
      /\ \A n \in Slots : total[n + 1] = total[n] + size[n]
  BY <1>1, <1>2, PrefixSumsRecursion
<1>6. hits \in SUBSET Nat /\ hits \subseteq Slots
  BY <1>4, MaxOpsAssumption DEF Slots
<1>7. pos < total[MaxOps] => hits # {}
  <2> SUFFICES ASSUME pos < total[MaxOps] PROVE hits # {}
    OBVIOUS
  <2> DEFINE Above == {n \in 0 .. MaxOps : pos < total[n]}
  <2>1. Above \in SUBSET Nat /\ Above # {}
    BY MaxOpsAssumption
  <2>2. PICK m \in Above : \A k \in Above : m <= k
    <3> HIDE DEF Above
    <3> QED BY <2>1, LeastElement
  <2>3. m - 1 \in Slots /\ m - 1 \notin Above /\ (m - 1) + 1 = m
    BY <2>2, <1>5, MaxOpsAssumption DEF Slots
  <2>4. total[m - 1] \in Nat /\ total[m] \in Nat /\ total[m] = total[m - 1] + size[m - 1]
    BY <2>2, <2>3, <1>5, MaxOpsAssumption DEF Slots
  <2>5. total[m - 1] <= pos /\ pos < total[m]
    BY <2>2, <2>3, <2>4, MaxOpsAssumption DEF Slots
  <2>6. m - 1 \in hits
    BY <2>3, <2>4, <2>5, <1>4
  <2> QED BY <2>6
<1>8. hits # {} => pos < total[MaxOps]
  <2> SUFFICES ASSUME NEW idx \in hits PROVE pos < total[MaxOps]
    OBVIOUS
  <2>1. idx + 1 \in 0 .. MaxOps /\ MaxOps \in (idx + 1) .. MaxOps /\ idx \in 0 .. MaxOps
    BY <1>6, MaxOpsAssumption DEF Slots
  <2>2. total[idx + 1] <= total[MaxOps]
    BY <2>1, <1>1, <1>2, PrefixSumsMonotone
  <2>3. pos + 1 <= total[idx + 1]
    BY <1>4, <1>5
  <2> QED BY <2>1, <2>2, <2>3, <1>5, MaxOpsAssumption
<1>9. CASE hits = {}
  <2>1. found = NULL
    BY <1>9 DEF aesd_circular_buffer_find_entry_offset_for_fpos, hits
  <2> QED BY <2>1, <1>7, <1>9 DEF total
<1>10. CASE hits # {}
  <2> DEFINE first == CHOOSE idx \in hits : \A other \in hits : idx <= other
  <2>1. first \in hits /\ \A other \in hits : first <= other
    <3>1. \E idx \in hits : \A other \in hits : idx <= other
      BY <1>6, <1>10, LeastElement
    <3> QED BY <3>1, Zenon
  <2>2. found = [slot |-> Visited(buf, first), offset |-> pos - total[first]]
    BY <1>10 DEF aesd_circular_buffer_find_entry_offset_for_fpos, hits, total
  <2> HIDE DEF first, found
  <2>3. /\ first \in Slots /\ total[first] \in Nat /\ size[first] \in Nat
        /\ pos + 1 <= total[first] + size[first]
    BY <2>1, <1>1, <1>4, <1>5, MaxOpsAssumption DEF Slots
  <2>4. total[first] <= pos
    <3> SUFFICES ASSUME total[first] > pos PROVE FALSE
      BY <2>3
    <3>1. total[first] = pos + 1
      BY <2>1, <2>3, <1>4
    <3>2. first - 1 \in Slots /\ (first - 1) + 1 = first
      BY <3>1, <2>3, <1>5, MaxOpsAssumption DEF Slots
    <3>3. /\ total[first] = total[first - 1] + size[first - 1]
          /\ total[first - 1] \in Nat /\ size[first - 1] \in Nat
      <4>1. first - 1 \in 0 .. MaxOps
        BY <3>2, MaxOpsAssumption DEF Slots
      <4> QED BY <3>2, <4>1, <1>1, <1>5
    <3>4. first - 1 \in hits
      BY <3>1, <3>2, <3>3, <1>4
    <3> QED BY <3>2, <3>4, <2>1, <2>3, MaxOpsAssumption DEF Slots
  <2>5. pos - total[first] \in Nat /\ pos - total[first] < size[first]
    BY <2>3, <2>4
  <2>6. Visited(buf, first) \in Slots /\ size[first] = buf.entry[Visited(buf, first)].size
    BY <2>3, <1>3, VisitedType
  <2> QED BY <2>2, <2>3, <2>4, <2>5, <2>6, <1>8, <1>10 DEF total, found
<1> QED BY <1>9, <1>10

(* The search finds nothing exactly when the position is past the bytes of *)
(* all slots; otherwise it answers with a slot and with the index of a     *)
(* byte that the entry in this slot has: the comparison with <= at both    *)
(* ends never selects the entry before, and the unsigned subtraction never *)
(* wraps (aesd_circular_buffer_find_entry_offset_for_fpos).                *)
THEOREM SearchInRange ==
  ASSUME NEW P, NEW buf \in Buffers(P), NEW pos \in Nat
  PROVE  LET found == aesd_circular_buffer_find_entry_offset_for_fpos(buf, pos)
         IN  IF pos < TotalByteCount(buf)[MaxOps]
             THEN /\ found \in [slot : Slots, offset : Nat]
                  /\ found.offset < buf.entry[found.slot].size
             ELSE found = NULL
<1> DEFINE found == aesd_circular_buffer_find_entry_offset_for_fpos(buf, pos)
           total == TotalByteCount(buf)
<1>1. CASE pos < total[MaxOps]
  <2>1. PICK idx \in Slots :
          /\ total[idx] \in Nat /\ total[idx] <= pos
          /\ pos < total[idx] + buf.entry[Visited(buf, idx)].size
          /\ found = [slot |-> Visited(buf, idx), offset |-> pos - total[idx]]
    BY <1>1, SearchFinds
  <2>2. Visited(buf, idx) \in Slots /\ buf.entry[Visited(buf, idx)].size \in Nat
    BY VisitedType DEF Buffers, Entries
  <2> QED BY <1>1, <2>1, <2>2
<1>2. CASE ~(pos < total[MaxOps])
  BY <1>2, SearchFinds
<1> QED BY <1>1, <1>2

-----------------------------------------------------------------------------
(* Sums of sizes in the three orders the code and its readers use: slot    *)
(* order (aesd_llseek), the order of the search, and the order of age.     *)

SlotSums(buf) == PrefixSums([i \in Slots |-> buf.entry[i].size])

LEMMA SumsOfSizes ==
  ASSUME NEW P, NEW buf \in Buffers(P)
  PROVE  /\ SlotSums(buf) \in [0 .. MaxOps -> Nat]
         /\ SlotSums(buf)[0] = 0
         /\ \A i \in Slots : SlotSums(buf)[i + 1] = SlotSums(buf)[i] + buf.entry[i].size
         /\ TotalByteCount(buf) \in [0 .. MaxOps -> Nat]
         /\ TotalByteCount(buf)[0] = 0
         /\ \A i \in Slots : TotalByteCount(buf)[i + 1]
                               = TotalByteCount(buf)[i] + buf.entry[Visited(buf, i)].size
<1> DEFINE slot == [i \in Slots |-> buf.entry[i].size]
           pass == [i \in Slots |-> buf.entry[Visited(buf, i)].size]
<1>1. slot \in [Slots -> Nat] /\ pass \in [Slots -> Nat]
  BY VisitedType DEF Buffers, Entries
<1>2. /\ \A i \in Slots : slot[i] = buf.entry[i].size
      /\ \A i \in Slots : pass[i] = buf.entry[Visited(buf, i)].size
  OBVIOUS
<1>3. SlotSums(buf) = PrefixSums(slot) /\ TotalByteCount(buf) = PrefixSums(pass)
  BY DEF SlotSums, TotalByteCount
<1> HIDE DEF slot, pass
<1> QED BY <1>1, <1>2, <1>3, PrefixSumsRecursion

(* The sums of the search are those of the slots, rotated.                 *)
LEMMA RotatedSums ==
  ASSUME NEW P, NEW buf \in Buffers(P), NEW idx \in 0 .. MaxOps
  PROVE  TotalByteCount(buf)[idx] =
           IF buf.in_offs + idx <= MaxOps
           THEN SlotSums(buf)[buf.in_offs + idx] - SlotSums(buf)[buf.in_offs]
           ELSE (SlotSums(buf)[MaxOps] - SlotSums(buf)[buf.in_offs])
                  + SlotSums(buf)[(buf.in_offs + idx) - MaxOps]
<1> DEFINE T == TotalByteCount(buf)
           S == SlotSums(buf)
           in == buf.in_offs
           rotated(i) == IF in + i <= MaxOps THEN S[in + i] - S[in]
                                             ELSE (S[MaxOps] - S[in]) + S[(in + i) - MaxOps]
           Wrong == {i \in 0 .. MaxOps : T[i] # rotated(i)}
<1>1. in \in Slots
  BY DEF Buffers
<1>2. /\ S \in [0 .. MaxOps -> Nat] /\ T \in [0 .. MaxOps -> Nat]
      /\ S[0] = 0 /\ T[0] = 0
      /\ \A i \in Slots : S[i + 1] = S[i] + buf.entry[i].size
      /\ \A i \in Slots : T[i + 1] = T[i] + buf.entry[Visited(buf, i)].size
  BY SumsOfSizes
<1>3. \A i \in Slots : Visited(buf, i) = IF i + in < MaxOps THEN i + in ELSE (i + in) - MaxOps
  <2> TAKE i \in Slots
  <2>1. i \in Nat /\ in \in Nat /\ MaxOps \in Nat
    BY <1>1, MaxOpsAssumption DEF Slots
  <2>2. Visited(buf, i) = IF i + in < MaxOps THEN i + in ELSE i + in - MaxOps
    BY VisitedIs
  <2> HIDE DEF in
  <2> QED BY <2>1, <2>2
<1>4. \A i \in Slots : buf.entry[i].size \in Nat
  BY DEF Buffers, Entries
<1> HIDE DEF T, S, in
<1>5. T[0] = rotated(0)
  <2>1. in \in Nat /\ in <= MaxOps /\ in + 0 = in /\ in \in 0 .. MaxOps
    BY <1>1, MaxOpsAssumption DEF Slots
  <2>2. S[in] \in Nat
    BY <1>2, <2>1
  <2>3. rotated(0) = S[in] - S[in]
    BY <2>1
  <2> HIDE DEF rotated
  <2> QED BY <1>2, <2>2, <2>3
<1>6. ASSUME NEW i \in Slots, T[i] = rotated(i)
      PROVE  T[i + 1] = rotated(i + 1)
  <2>1. i \in Nat /\ in \in Nat /\ MaxOps \in Nat /\ i < MaxOps /\ in < MaxOps
    BY <1>1, MaxOpsAssumption DEF Slots
  <2>2. CASE i + in < MaxOps
    <3>1. i + in \in Slots /\ in + i = i + in /\ in + (i + 1) = (i + in) + 1
      BY <2>1, <2>2 DEF Slots
    <3>2. S[(i + in) + 1] = S[i + in] + buf.entry[i + in].size
      BY <1>2, <3>1
    <3>3. T[i + 1] = T[i] + buf.entry[i + in].size
      BY <1>2, <1>3, <2>2
    <3>4. S[i + in] \in Nat /\ S[in] \in Nat /\ buf.entry[i + in].size \in Nat
      <4>1. i + in \in 0 .. MaxOps /\ in \in 0 .. MaxOps
        BY <2>1, <2>2
      <4> QED BY <1>2, <1>4, <3>1, <4>1
    <3>5. rotated(i) = S[i + in] - S[in]
      BY <2>1, <2>2, <3>1
    <3>6. rotated(i + 1) = S[(i + in) + 1] - S[in]
      BY <2>1, <2>2, <3>1
    <3> HIDE DEF rotated
    <3> QED BY <1>6, <3>2, <3>3, <3>4, <3>5, <3>6
  <2>3. CASE i + in = MaxOps
    <3>1. in + i = MaxOps /\ in + (i + 1) = MaxOps + 1 /\ (in + (i + 1)) - MaxOps = 1
          /\ 0 \in Slots
      BY <2>1, <2>3 DEF Slots
    <3>2. T[i + 1] = T[i] + buf.entry[0].size
      BY <1>2, <1>3, <2>1, <2>3
    <3>3. S[1] = buf.entry[0].size /\ buf.entry[0].size \in Nat
      BY <1>2, <1>4, <3>1
    <3>4. S[MaxOps] \in Nat /\ S[in] \in Nat
      BY <1>2, <2>1
    <3>5. rotated(i) = S[MaxOps] - S[in]
      BY <2>1, <3>1
    <3>6. rotated(i + 1) = (S[MaxOps] - S[in]) + S[1]
      BY <2>1, <3>1
    <3> HIDE DEF rotated
    <3> QED BY <1>6, <3>2, <3>3, <3>4, <3>5, <3>6
  <2>4. CASE i + in > MaxOps
    <3> DEFINE k == (i + in) - MaxOps
    <3>1. k \in Slots /\ (in + i) - MaxOps = k /\ (in + (i + 1)) - MaxOps = k + 1
          /\ k \in 0 .. MaxOps /\ k + 1 \in 0 .. MaxOps
          /\ ~(in + i <= MaxOps) /\ ~(in + (i + 1) <= MaxOps) /\ ~(i + in < MaxOps)
      BY <2>1, <2>4 DEF Slots
    <3> HIDE DEF k
    <3>2. T[i + 1] = T[i] + buf.entry[k].size
      BY <1>2, <1>3, <3>1 DEF k
    <3>3. S[k + 1] = S[k] + buf.entry[k].size
      BY <1>2, <3>1
    <3>4. S[MaxOps] \in Nat /\ S[in] \in Nat /\ S[k] \in Nat /\ buf.entry[k].size \in Nat
      <4>1. MaxOps \in 0 .. MaxOps /\ in \in 0 .. MaxOps
        BY <2>1
      <4> QED BY <1>2, <1>4, <3>1, <4>1
    <3>5. rotated(i) = (S[MaxOps] - S[in]) + S[k]
      BY <3>1
    <3>6. rotated(i + 1) = (S[MaxOps] - S[in]) + S[k + 1]
      BY <3>1
    <3> HIDE DEF rotated
    <3> QED BY <1>6, <3>2, <3>3, <3>4, <3>5, <3>6
  <2> QED BY <2>1, <2>2, <2>3, <2>4
<1> HIDE DEF rotated
<1>7. Wrong = {}
  <2> SUFFICES ASSUME Wrong # {} PROVE FALSE
    OBVIOUS
  <2>1. Wrong \in SUBSET Nat
    BY MaxOpsAssumption
  <2>2. PICK m \in Wrong : \A k \in Wrong : m <= k
    <3> HIDE DEF Wrong
    <3> QED BY <2>1, LeastElement
  <2>3. m - 1 \in Slots /\ m - 1 \notin Wrong /\ (m - 1) + 1 = m
    BY <2>2, <1>5, MaxOpsAssumption DEF Slots
  <2>4. T[m - 1] = rotated(m - 1)
    BY <2>3, MaxOpsAssumption DEF Slots
  <2>5. T[(m - 1) + 1] = rotated((m - 1) + 1)
    BY <2>3, <2>4, <1>6
  <2> QED BY <2>2, <2>3, <2>5
<1> QED BY <1>7 DEF rotated, T, S, in

(* All orders have the same total.                                         *)
LEMMA SameTotal ==
  ASSUME NEW P, NEW buf \in Buffers(P)
  PROVE  TotalByteCount(buf)[MaxOps] = SlotSums(buf)[MaxOps]
<1> DEFINE S == SlotSums(buf)
           in == buf.in_offs
<1>0. in \in Nat /\ in < MaxOps /\ MaxOps \in Nat
  BY MaxOpsAssumption DEF Buffers, Slots
<1>1. /\ in \in Nat /\ in < MaxOps /\ MaxOps \in Nat
      /\ S \in [0 .. MaxOps -> Nat] /\ S[0] = 0
  BY <1>0, SumsOfSizes
<1>2. TotalByteCount(buf)[MaxOps] =
        IF in + MaxOps <= MaxOps THEN S[in + MaxOps] - S[in]
                                 ELSE (S[MaxOps] - S[in]) + S[(in + MaxOps) - MaxOps]
  BY RotatedSums, MaxOpsAssumption
<1> HIDE DEF S, in
<1>3. CASE in = 0
  BY <1>1, <1>2, <1>3 DEF S
<1>4. CASE in # 0
  <2>1. (in + MaxOps) - MaxOps = in /\ ~(in + MaxOps <= MaxOps)
    BY <1>1, <1>4
  <2>2. S[in] \in Nat /\ S[MaxOps] \in Nat
    BY <1>1
  <2> QED BY <1>2, <2>1, <2>2 DEF S
<1> QED BY <1>3, <1>4

(* Where the i-th oldest entry begins in the concatenation.                *)
StartOf(buf, i) ==
  IF buf.full THEN TotalByteCount(buf)[i - 1] ELSE SlotSums(buf)[i - 1]

(* Each entry begins where the one before it ends.                         *)
LEMMA StartsByAge ==
  ASSUME NEW P, NEW buf \in Buffers(P), WellFormed(buf)
  PROVE  /\ \A i \in 1 .. EntryCount(buf) + 1 : StartOf(buf, i) \in Nat
         /\ StartOf(buf, 1) = 0
         /\ \A i \in 1 .. EntryCount(buf) :
              /\ Ordered(buf)[i].size \in Nat
              /\ StartOf(buf, i + 1) = StartOf(buf, i) + Ordered(buf)[i].size
         /\ StartOf(buf, EntryCount(buf) + 1) = TotalByteCount(buf)[MaxOps]
<1> DEFINE T == TotalByteCount(buf)
           S == SlotSums(buf)
           in == buf.in_offs
           n == EntryCount(buf)
<1>1. /\ in \in Nat /\ in < MaxOps /\ MaxOps \in Nat /\ in \in 0 .. MaxOps
      /\ buf.full \in BOOLEAN /\ buf.out_offs \in Slots
  BY MaxOpsAssumption DEF Buffers, Slots
<1>2. /\ S \in [0 .. MaxOps -> Nat] /\ T \in [0 .. MaxOps -> Nat]
      /\ S[0] = 0 /\ T[0] = 0
      /\ \A i \in Slots : S[i + 1] = S[i] + buf.entry[i].size
      /\ \A i \in Slots : T[i + 1] = T[i] + buf.entry[Visited(buf, i)].size
  BY SumsOfSizes
<1>3. \A i \in Slots : buf.entry[i].size \in Nat
  BY DEF Buffers, Entries
<1>4. \A i \in 1 .. n : SlotOf(buf, i) \in Slots /\ Ordered(buf)[i] = buf.entry[SlotOf(buf, i)]
  BY OrderedType
<1>5. T[MaxOps] = S[MaxOps]
  BY SameTotal
<1> HIDE DEF T, S, in, n
<1>6. CASE buf.full
  <2>1. n = MaxOps /\ buf.out_offs = in
    BY <1>6 DEF n, in, EntryCount, WellFormed
  <2>2. \A i \in 1 .. MaxOps + 1 : StartOf(buf, i) = T[i - 1] /\ i - 1 \in 0 .. MaxOps
    BY <1>1, <1>6 DEF StartOf, T
  <2>3. ASSUME NEW i \in 1 .. MaxOps
        PROVE  /\ Ordered(buf)[i].size \in Nat
               /\ StartOf(buf, i + 1) = StartOf(buf, i) + Ordered(buf)[i].size
    <3>1. /\ i - 1 \in Slots /\ (i - 1) + 1 = i /\ (i + 1) - 1 = i
          /\ i \in 1 .. MaxOps + 1 /\ i + 1 \in 1 .. MaxOps + 1
      BY <1>1 DEF Slots
    <3>2. SlotOf(buf, i) = Visited(buf, i - 1)
      <4>1. SlotOf(buf, i) = IF (in + i) - 1 < MaxOps THEN (in + i) - 1
                                                      ELSE ((in + i) - 1) - MaxOps
        BY <1>1, <2>1 DEF SlotOf
      <4>2. Visited(buf, i - 1) = IF (i - 1) + in < MaxOps THEN (i - 1) + in
                                                           ELSE ((i - 1) + in) - MaxOps
        BY <1>1, <3>1, VisitedIs DEF in
      <4>3. (i - 1) + in = (in + i) - 1
        BY <1>1
      <4> QED BY <4>1, <4>2, <4>3
    <3>3. T[i] = T[i - 1] + buf.entry[SlotOf(buf, i)].size
      BY <1>2, <3>1, <3>2
    <3> QED BY <1>3, <1>4, <2>1, <2>2, <3>1, <3>3
  <2>4. StartOf(buf, 1) = 0 /\ StartOf(buf, MaxOps + 1) = T[MaxOps]
    BY <1>1, <1>2, <2>2
  <2>5. \A i \in 1 .. MaxOps + 1 : StartOf(buf, i) \in Nat
    BY <1>2, <2>2
  <2> QED BY <2>1, <2>3, <2>4, <2>5 DEF n, T
<1>7. CASE ~buf.full
  <2>1. n = in /\ buf.out_offs = 0
    BY <1>1, <1>7 DEF n, in, EntryCount, WellFormed
  <2>2. \A i \in 1 .. in + 1 : StartOf(buf, i) = S[i - 1] /\ i - 1 \in 0 .. MaxOps
    BY <1>1, <1>7 DEF StartOf, S
  <2>3. ASSUME NEW i \in 1 .. in
        PROVE  /\ Ordered(buf)[i].size \in Nat
               /\ StartOf(buf, i + 1) = StartOf(buf, i) + Ordered(buf)[i].size
    <3>1. /\ i - 1 \in Slots /\ (i - 1) + 1 = i /\ (i + 1) - 1 = i
          /\ i \in 1 .. in + 1 /\ i + 1 \in 1 .. in + 1
      BY <1>1 DEF Slots
    <3>2. SlotOf(buf, i) = i - 1
      BY <1>1, <2>1 DEF SlotOf
    <3>3. S[i] = S[i - 1] + buf.entry[i - 1].size
      BY <1>2, <3>1
    <3> QED BY <1>3, <1>4, <2>1, <2>2, <3>1, <3>2, <3>3
  <2>4. StartOf(buf, 1) = 0
    BY <1>1, <1>2, <2>2
  <2>5. StartOf(buf, in + 1) = S[in]
    BY <1>1, <2>2
  <2>6. S[in] = S[MaxOps]
    <3> DEFINE Wrong == {i \in in .. MaxOps : S[i] # S[in]}
    <3>1. Wrong = {}
      <4> SUFFICES ASSUME Wrong # {} PROVE FALSE
        OBVIOUS
      <4>1. Wrong \in SUBSET Nat
        BY <1>1
      <4>2. PICK m \in Wrong : \A k \in Wrong : m <= k
        <5> HIDE DEF Wrong
        <5> QED BY <4>1, LeastElement
      <4>3. m - 1 \in Slots /\ m - 1 \notin Wrong /\ (m - 1) + 1 = m /\ m - 1 >= in
        BY <1>1, <4>2 DEF Slots
      <4>4. S[m - 1] = S[in] /\ S[(m - 1) + 1] = S[m - 1] + buf.entry[m - 1].size
        BY <1>1, <1>2, <4>3 DEF Slots
      <4>5. buf.entry[m - 1].size = 0
        BY <1>7, <4>3 DEF WellFormed, NoEntry, in
      <4>6. S[in] \in Nat
        BY <1>1, <1>2
      <4> QED BY <4>2, <4>3, <4>4, <4>5, <4>6
    <3> QED BY <1>1, <3>1
  <2>7. \A i \in 1 .. in + 1 : StartOf(buf, i) \in Nat
    BY <1>2, <2>2
  <2> QED BY <1>5, <2>1, <2>3, <2>4, <2>5, <2>6, <2>7 DEF n, T
<1> QED BY <1>1, <1>6, <1>7

(* What the search finds is the entry whose bytes, in the order of age,    *)
(* the position is among, although it may begin with the empty slots       *)
(* (aesd_circular_buffer_find_entry_offset_for_fpos).                      *)
LEMMA SearchByAge ==
  ASSUME NEW P, NEW buf \in Buffers(P), WellFormed(buf),
         NEW pos \in Nat, pos < TotalByteCount(buf)[MaxOps]
  PROVE  \E k \in 1 .. EntryCount(buf) :
           /\ StartOf(buf, k) <= pos /\ pos < StartOf(buf, k) + Ordered(buf)[k].size
           /\ aesd_circular_buffer_find_entry_offset_for_fpos(buf, pos)
                = [slot |-> SlotOf(buf, k), offset |-> pos - StartOf(buf, k)]
<1> DEFINE T == TotalByteCount(buf)
           S == SlotSums(buf)
           in == buf.in_offs
           n == EntryCount(buf)
           found == aesd_circular_buffer_find_entry_offset_for_fpos(buf, pos)
<1>1. /\ in \in Nat /\ in < MaxOps /\ MaxOps \in Nat /\ in \in 0 .. MaxOps
      /\ buf.full \in BOOLEAN /\ buf.out_offs \in Slots
  BY MaxOpsAssumption DEF Buffers, Slots
<1>2. PICK idx \in Slots :
        /\ T[idx] \in Nat /\ T[idx] <= pos
        /\ pos < T[idx] + buf.entry[Visited(buf, idx)].size
        /\ found = [slot |-> Visited(buf, idx), offset |-> pos - T[idx]]
  BY SearchFinds
<1> DEFINE v == Visited(buf, idx)
<1>3. /\ v \in Slots /\ idx \in Nat /\ idx < MaxOps /\ idx \in 0 .. MaxOps
      /\ v = IF idx + in < MaxOps THEN idx + in ELSE (idx + in) - MaxOps
  <2>1. idx \in Nat /\ idx < MaxOps /\ idx \in 0 .. MaxOps
    BY <1>1 DEF Slots
  <2>2. v \in Slots
    BY VisitedType
  <2>3. v = IF idx + in < MaxOps THEN idx + in ELSE idx + in - MaxOps
    BY VisitedIs
  <2> HIDE DEF v, in
  <2> QED BY <1>1, <2>1, <2>2, <2>3
<1>4. S \in [0 .. MaxOps -> Nat]
  BY SumsOfSizes
<1>5. T[idx] = IF in + idx <= MaxOps THEN S[in + idx] - S[in]
                                     ELSE (S[MaxOps] - S[in]) + S[(in + idx) - MaxOps]
  BY <1>3, RotatedSums
<1>6. \A i \in 1 .. n : Ordered(buf)[i] = buf.entry[SlotOf(buf, i)]
  BY OrderedType
<1>7. CASE buf.full
  <2> DEFINE k == idx + 1
  <2>1. n = MaxOps /\ buf.out_offs = in
    BY <1>7 DEF EntryCount, WellFormed
  <2>2. k \in 1 .. n /\ k - 1 = idx
    BY <1>1, <1>3, <2>1
  <2>3. StartOf(buf, k) = T[idx]
    BY <1>7, <2>2 DEF StartOf
  <2>4. SlotOf(buf, k) = v
    <3>1. SlotOf(buf, k) = IF in + k - 1 < MaxOps THEN in + k - 1 ELSE in + k - 1 - MaxOps
      BY <2>1 DEF SlotOf
    <3> HIDE DEF in, v
    <3> QED BY <1>1, <1>3, <3>1
  <2> HIDE DEF k
  <2> QED BY <1>2, <1>6, <2>2, <2>3, <2>4
<1>8. CASE ~buf.full
  <2> DEFINE k == v + 1
  <2>1. n = in /\ buf.out_offs = 0
    BY <1>1, <1>8 DEF EntryCount, WellFormed
  <2>2. v < in
    <3> SUFFICES ASSUME ~(v < in) PROVE FALSE
      OBVIOUS
    <3>1. v \in Nat
      BY <1>1, <1>3 DEF Slots
    <3>2. v >= in
      <4> HIDE DEF v, in
      <4> QED BY <1>1, <3>1
    <3>3. buf.entry[v] = NoEntry
      BY <1>3, <1>8, <3>2 DEF WellFormed
    <3>4. buf.entry[v].size = 0
      BY <3>3 DEF NoEntry
    <3> HIDE DEF v
    <3> QED BY <1>2, <3>4 DEF v
  <2>3. v \in Nat /\ ~(idx + in < MaxOps) /\ v = (in + idx) - MaxOps /\ v \in 0 .. MaxOps
    <3>1. v \in Nat
      BY <1>1, <1>3 DEF Slots
    <3> HIDE DEF v, in
    <3> QED BY <1>1, <1>3, <2>2, <3>1
  <2>4. S[MaxOps] = S[in]
    <3>1. StartOf(buf, n + 1) = T[MaxOps] /\ T[MaxOps] = S[MaxOps]
      BY StartsByAge, SameTotal
    <3>2. StartOf(buf, n + 1) = S[n]
      <4>1. (n + 1) - 1 = n
        BY <1>1, <2>1
      <4> HIDE DEF n
      <4> QED BY <1>8, <4>1 DEF StartOf
    <3> HIDE DEF S, T, n
    <3> QED BY <2>1, <3>1, <3>2
  <2>5. S[in] \in Nat /\ S[v] \in Nat /\ S[0] = 0
    BY <1>1, <1>4, <2>3, SumsOfSizes
  <2>6. T[idx] = S[v]
    <3> HIDE DEF S, T, v, in
    <3>1. CASE in + idx = MaxOps
      <4>1. v = 0
        BY <1>1, <1>3, <2>3, <3>1
      <4> QED BY <1>1, <1>5, <2>4, <2>5, <3>1, <4>1
    <3>2. CASE in + idx # MaxOps
      <4>1. ~(in + idx <= MaxOps)
        BY <1>1, <1>3, <2>3, <3>2
      <4> QED BY <1>5, <2>3, <2>4, <2>5, <4>1
    <3> QED BY <3>1, <3>2
  <2>7. k \in 1 .. n /\ k - 1 = v
    BY <1>1, <2>1, <2>2, <2>3
  <2>8. StartOf(buf, k) = T[idx]
    BY <1>8, <2>6, <2>7 DEF StartOf
  <2>9. SlotOf(buf, k) = v
    <3>1. SlotOf(buf, k) = IF 0 + k - 1 < MaxOps THEN 0 + k - 1 ELSE 0 + k - 1 - MaxOps
      BY <2>1 DEF SlotOf
    <3>2. v < MaxOps
      BY <1>1, <1>3 DEF Slots
    <3> HIDE DEF v
    <3> QED BY <1>1, <2>3, <3>1, <3>2
  <2> HIDE DEF k
  <2> QED BY <1>2, <1>6, <2>7, <2>8, <2>9
<1> QED BY <1>1, <1>7, <1>8

(* Sizes that are nowhere smaller have sums that are nowhere smaller.      *)
LEMMA PrefixSumsGrow ==
  ASSUME NEW less \in [Slots -> Nat], NEW more \in [Slots -> Nat],
         \A i \in Slots : less[i] <= more[i], NEW n \in 0 .. MaxOps
  PROVE  PrefixSums(less)[n] <= PrefixSums(more)[n]
<1> DEFINE L == PrefixSums(less)
           M == PrefixSums(more)
           Wrong == {i \in 0 .. MaxOps : ~(L[i] <= M[i])}
<1>1. /\ L \in [0 .. MaxOps -> Nat] /\ M \in [0 .. MaxOps -> Nat]
      /\ L[0] = 0 /\ M[0] = 0
      /\ \A i \in Slots : L[i + 1] = L[i] + less[i] /\ M[i + 1] = M[i] + more[i]
  BY PrefixSumsRecursion
<1> HIDE DEF L, M
<1>2. Wrong = {}
  <2> SUFFICES ASSUME Wrong # {} PROVE FALSE
    OBVIOUS
  <2>1. Wrong \in SUBSET Nat
    BY MaxOpsAssumption
  <2>2. PICK m \in Wrong : \A k \in Wrong : m <= k
    <3> HIDE DEF Wrong
    <3> QED BY <2>1, LeastElement
  <2>3. m # 0
    BY <1>1, <2>2
  <2>4. m - 1 \in Slots /\ m - 1 \notin Wrong /\ (m - 1) + 1 = m /\ m - 1 \in 0 .. MaxOps
    BY <2>2, <2>3, MaxOpsAssumption DEF Slots
  <2>5. L[m - 1] <= M[m - 1] /\ L[m - 1] \in Nat /\ M[m - 1] \in Nat
    BY <1>1, <2>4
  <2>6. L[m] = L[m - 1] + less[m - 1] /\ M[m] = M[m - 1] + more[m - 1]
    BY <1>1, <2>4
  <2>7. less[m - 1] \in Nat /\ more[m - 1] \in Nat /\ less[m - 1] <= more[m - 1]
    BY <2>4
  <2> QED BY <2>2, <2>5, <2>6, <2>7
<1> QED BY <1>2 DEF L, M
=============================================================================
