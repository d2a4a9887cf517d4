------------------------- MODULE CircularBufferProofs -------------------------
(***************************************************************************)
(* What holds of a circular buffer that entries are added to, for every    *)
(* number of slots: it stays well formed, it implements the log of the     *)
(* most recent writes, and the search answers what the concatenation of    *)
(* the entries says.                                                       *)
(***************************************************************************)
EXTENDS MCCircularBuffer, CircularBufferLemmas, FlattenLemmas

(* Whatever entries are added, the positions, the flag and the empty slots *)
(* agree (aesd_circular_buffer_add_entry).                                 *)
THEOREM BufferInvariant == Spec => []Inv
<1>1. Init => Inv
  BY InitWellFormed DEF Init, Inv
<1>2. Inv /\ [Next]_vars => Inv'
  <2> SUFFICES ASSUME Inv, [Next]_vars PROVE Inv'
    OBVIOUS
  <2>1. ASSUME NEW e \in [buffptr : Pointers, size : Sizes], AddEntry(e)
        PROVE  Inv'
    <3>1. e \in Entries(Pointers)
      BY UseAssumption DEF Entries
    <3>2. buffer' \in Buffers(Pointers) /\ WellFormed(buffer')
      BY <2>1, <3>1, AddEntryWellFormed DEF Inv, AddEntry
    <3>3. returned' \in Pointers \cup {NULL}
      BY <2>1 DEF Inv, AddEntry, Overwritten, Buffers, Entries
    <3> QED BY <3>2, <3>3 DEF Inv
  <2>2. CASE UNCHANGED vars
    BY <2>2 DEF vars, Inv
  <2> QED BY <2>1, <2>2 DEF Next
<1> QED BY <1>1, <1>2, PTL DEF Spec

(* The circular buffer implements the log of the most recent writes: the   *)
(* entries stay in the order they were added, and the one overwritten and  *)
(* returned is the oldest (aesd_circular_buffer_add_entry).                *)
THEOREM BufferImplementsLog == Spec => LogSpec
<1>1. Init => Log!Init
  <2>1. EntryCount(aesd_circular_buffer_init) = 0
    BY DEF EntryCount, aesd_circular_buffer_init
  <2>2. Ordered(aesd_circular_buffer_init) = <<>>
    BY <2>1 DEF Ordered
  <2> QED BY <2>2 DEF Init, Log!Init
<1>2. Inv /\ [Next]_vars => [Log!Next]_(Log!vars)
  <2> SUFFICES ASSUME Inv, [Next]_vars PROVE [Log!Next]_(Log!vars)
    OBVIOUS
  <2>1. ASSUME NEW e \in [buffptr : Pointers, size : Sizes], AddEntry(e)
        PROVE  Log!Write(e)
    <3>1. e \in Entries(Pointers)
      BY UseAssumption DEF Entries
    <3>2. /\ Len(Ordered(buffer)) \in 0 .. MaxOps
          /\ Len(Ordered(buffer)) = MaxOps <=> buffer.full
      BY OrderedType DEF Inv
    <3>3. Ordered(buffer') = IF buffer.full THEN Append(Tail(Ordered(buffer)), e)
                                            ELSE Append(Ordered(buffer), e)
      BY <2>1, <3>1, AddEntryOrdered DEF Inv, AddEntry
    <3>4. returned' = IF buffer.full THEN Head(Ordered(buffer)).buffptr ELSE NULL
      BY <2>1, OverwrittenIsOldest DEF Inv, AddEntry
    <3> QED BY <3>2, <3>3, <3>4, MaxOpsAssumption DEF Log!Write
  <2>2. CASE UNCHANGED vars
    BY <2>2 DEF vars, Log!vars, Ordered, EntryCount, SlotOf
  <2> QED BY <2>1, <2>2 DEF Next, Log!Next
<1> QED BY <1>1, <1>2, BufferInvariant, PTL DEF Spec, LogSpec, Log!Spec

(* The byte at a position of the concatenation, by the entry it is in.     *)
LEMMA ConcatenationIs ==
  ASSUME Inv
  PROVE  /\ Len(Concatenation) = StartOf(buffer, EntryCount(buffer) + 1)
         /\ \A k \in 1 .. EntryCount(buffer) : \A j \in 1 .. Ordered(buffer)[k].size :
              Concatenation[StartOf(buffer, k) + j]
                = [buffptr |-> Ordered(buffer)[k].buffptr, index |-> j - 1]
<1> DEFINE n == EntryCount(buffer)
           o == Ordered(buffer)
           R == [buffptr : Pointers \cup {NULL}, index : Nat]
           bytes(e) == [i \in 1 .. e.size |-> [buffptr |-> e.buffptr, index |-> i - 1]]
           s == [i \in 1 .. n |-> bytes(o[i])]
<1>1. buffer \in Buffers(Pointers) /\ WellFormed(buffer)
  BY DEF Inv
<1>2. n \in 0 .. MaxOps /\ o \in Seq(Entries(Pointers \cup {NULL})) /\ Len(o) = n
  BY <1>1, OrderedType
<1>3. n \in Nat /\ DOMAIN o = 1 .. n
  <2>1. n \in Nat
    BY <1>2, MaxOpsAssumption
  <2> HIDE DEF n, o
  <2> QED BY <1>2, <2>1, LenProperties
<1>4. Concatenation = FlattenSeq(s)
  <2>1. Concatenation = FlattenSeq([i \in DOMAIN o |-> bytes(o[i])])
    BY DEF Concatenation
  <2> HIDE DEF bytes, n, o
  <2> QED BY <1>3, <2>1
<1>5. ASSUME NEW i \in 1 .. n
      PROVE  /\ o[i].size \in Nat
             /\ bytes(o[i]) \in Seq(R) /\ Len(bytes(o[i])) = o[i].size
             /\ \A j \in 1 .. o[i].size :
                  bytes(o[i])[j] = [buffptr |-> o[i].buffptr, index |-> j - 1]
  <2> DEFINE e == o[i]
             byte(j) == [buffptr |-> e.buffptr, index |-> j - 1]
  <2>1. e \in Entries(Pointers \cup {NULL})
    <3> HIDE DEF n, o
    <3> QED BY <1>2, <1>3, ElementOfSeq
  <2>2. e.size \in Nat /\ e.buffptr \in Pointers \cup {NULL}
    BY <2>1 DEF Entries
  <2> HIDE DEF e
  <2>3. \A j \in 1 .. e.size : byte(j) \in R
    BY <2>2
  <2>4. bytes(e) = [j \in 1 .. e.size |-> byte(j)]
    OBVIOUS
  <2> HIDE DEF byte, R, bytes
  <2>5. bytes(e) \in [1 .. e.size -> R] /\ \A j \in 1 .. e.size : bytes(e)[j] = byte(j)
    BY <2>3, <2>4
  <2>6. bytes(e) \in Seq(R) /\ Len(bytes(e)) = e.size
    BY <2>2, <2>5, FunctionIsSeq
  <2> QED BY <2>2, <2>5, <2>6 DEF e, byte
<1> HIDE DEF R, bytes, o, n
<1>6. s \in Seq(Seq(R)) /\ Len(s) = n /\ \A i \in 1 .. n : s[i] = bytes(o[i])
  <2>1. s \in [1 .. n -> Seq(R)] /\ \A i \in 1 .. n : s[i] = bytes(o[i])
    BY <1>5
  <2> HIDE DEF s
  <2> QED BY <2>1, <1>3, FunctionIsSeq
<1>7. /\ \A i \in 1 .. n + 1 : StartOf(buffer, i) \in Nat
      /\ StartOf(buffer, 1) = 0
      /\ \A i \in 1 .. n : StartOf(buffer, i + 1) = StartOf(buffer, i) + o[i].size
  BY <1>1, StartsByAge DEF n, o
<1> HIDE DEF s
<1>8. PICK start : /\ PieceStarts(s, start)
                   /\ \A i \in 1 .. n + 1 : start[i] = StartOf(buffer, i)
  <2> DEFINE starts == [i \in 1 .. n + 1 |-> StartOf(buffer, i)]
  <2>1. 1 \in 1 .. n + 1 /\ \A i \in 1 .. n : i \in 1 .. n + 1 /\ i + 1 \in 1 .. n + 1
    BY <1>3
  <2>2. \A i \in 1 .. n : Len(s[i]) = o[i].size
    BY <1>5, <1>6
  <2>3. PieceStarts(s, starts)
    BY <1>6, <1>7, <2>1, <2>2 DEF PieceStarts
  <2>4. \A i \in 1 .. n + 1 : starts[i] = StartOf(buffer, i)
    OBVIOUS
  <2> QED BY <2>3, <2>4
<1>9. s \in Seq(Seq(R))
  BY <1>6
<1>10. /\ Len(FlattenSeq(s)) = start[Len(s) + 1]
       /\ \A i \in 1 .. Len(s) : \A j \in 1 .. Len(s[i]) :
            FlattenSeq(s)[start[i] + j] = s[i][j]
  <2>1. Len(FlattenSeq(s)) = start[Len(s) + 1]
    BY <1>8, <1>9, FlattenAt, Zenon
  <2>2. ASSUME NEW i \in 1 .. Len(s), NEW j \in 1 .. Len(s[i])
        PROVE  FlattenSeq(s)[start[i] + j] = s[i][j]
    BY <1>8, <1>9, FlattenAt, SMT
  <2> QED BY <2>1, <2>2
<1>11. Len(Concatenation) = StartOf(buffer, n + 1)
  <2>1. n + 1 \in 1 .. n + 1
    BY <1>3
  <2> QED BY <1>4, <1>6, <1>8, <1>10, <2>1
<1>12. ASSUME NEW k \in 1 .. n, NEW j \in 1 .. o[k].size
       PROVE  Concatenation[StartOf(buffer, k) + j] = [buffptr |-> o[k].buffptr, index |-> j - 1]
  <2>1. k \in 1 .. n + 1
    BY <1>3
  <2>2. j \in 1 .. Len(s[k]) /\ s[k][j] = [buffptr |-> o[k].buffptr, index |-> j - 1]
    BY <1>5, <1>6
  <2>3. FlattenSeq(s)[start[k] + j] = s[k][j]
    BY <1>6, <1>10, <2>2
  <2> QED BY <1>4, <1>8, <2>1, <2>2, <2>3
<1> QED BY <1>11, <1>12 DEF n, o

(* The search finds the byte that stands at the position in the            *)
(* concatenation of the entries, oldest first, and nothing exactly past    *)
(* the end (aesd_circular_buffer_find_entry_offset_for_fpos).              *)
THEOREM SearchIsConcatenation == Spec => []FindAgreesWithConcatenation
<1>1. ASSUME Inv PROVE FindAgreesWithConcatenation
  <2> DEFINE C == Concatenation
             n == EntryCount(buffer)
  <2>1. buffer \in Buffers(Pointers) /\ WellFormed(buffer)
    BY <1>1 DEF Inv
  <2>2. Len(C) = TotalByteCount(buffer)[MaxOps] /\ Len(C) \in Nat
    <3>1. Len(C) = StartOf(buffer, n + 1)
      BY <1>1, ConcatenationIs
    <3>2. StartOf(buffer, n + 1) = TotalByteCount(buffer)[MaxOps]
      BY <2>1, StartsByAge
    <3>3. TotalByteCount(buffer)[MaxOps] \in Nat
      BY <2>1, SumsOfSizes, MaxOpsAssumption
    <3> QED BY <3>1, <3>2, <3>3
  <2> SUFFICES ASSUME NEW pos \in 0 .. Len(C) + 1
               PROVE  LET found == aesd_circular_buffer_find_entry_offset_for_fpos(buffer, pos)
                      IN  IF pos < Len(C)
                          THEN /\ found # NULL
                               /\ C[pos + 1] = [buffptr |-> buffer.entry[found.slot].buffptr,
                                                index |-> found.offset]
                          ELSE found = NULL
    BY DEF FindAgreesWithConcatenation
  <2> DEFINE found == aesd_circular_buffer_find_entry_offset_for_fpos(buffer, pos)
  <2> HIDE DEF C, found
  <2>3. pos \in Nat
    BY <2>2
  <2>4. CASE ~(pos < Len(C))
    BY <2>1, <2>2, <2>3, <2>4, SearchInRange DEF found
  <2>5. CASE pos < Len(C)
    <3>1. found \in [slot : Slots, offset : Nat]
      BY <2>1, <2>2, <2>3, <2>5, SearchInRange DEF found
    <3>2. PICK k \in 1 .. n :
            /\ StartOf(buffer, k) <= pos /\ pos < StartOf(buffer, k) + Ordered(buffer)[k].size
            /\ found = [slot |-> SlotOf(buffer, k), offset |-> pos - StartOf(buffer, k)]
      BY <2>1, <2>2, <2>3, <2>5, SearchByAge DEF found
    <3> DEFINE start == StartOf(buffer, k)
               size  == Ordered(buffer)[k].size
               j     == (pos - start) + 1
    <3>3. start \in Nat /\ size \in Nat
      <4>1. n \in 0 .. MaxOps
        BY <2>1, OrderedType
      <4>2. k \in 1 .. n + 1
        BY <4>1, MaxOpsAssumption
      <4> QED BY <2>1, <4>2, StartsByAge
    <3>4. j \in 1 .. size /\ start + j = pos + 1 /\ j - 1 = pos - start
      <4> HIDE DEF start, size
      <4>1. start <= pos /\ pos < start + size
        BY <3>2 DEF start, size
      <4> QED BY <2>3, <3>3, <4>1
    <3> HIDE DEF j
    <3>5. C[start + j] = [buffptr |-> Ordered(buffer)[k].buffptr, index |-> j - 1]
      BY <1>1, <3>4, ConcatenationIs DEF C
    <3>6. Ordered(buffer)[k] = buffer.entry[SlotOf(buffer, k)]
      BY <2>1, OrderedType
    <3>7. found.slot = SlotOf(buffer, k) /\ found.offset = pos - start
      BY <3>2
    <3>8. C[pos + 1] = [buffptr |-> buffer.entry[found.slot].buffptr, index |-> found.offset]
      BY <3>4, <3>5, <3>6, <3>7
    <3>9. found # NULL
      BY <3>1, UseAssumption
    <3> QED BY <2>5, <3>8, <3>9 DEF found
  <2> QED BY <2>4, <2>5 DEF found
<1>2. Inv => FindAgreesWithConcatenation
  BY <1>1
<1> QED BY <1>2, BufferInvariant, PTL
=============================================================================
