--------------------------- MODULE AesdDriverProofs ---------------------------
(***************************************************************************)
(* What holds of the driver for every number of slots, open files, blocks  *)
(* and payloads.  The inductive invariant IInv adds to the properties of   *)
(* AesdDriver what the calls rely on: a call inside its critical section   *)
(* is the holder of the mutex, and each local exists only there.  The      *)
(* second invariant, PlaceInv, says where the data is, and the last part   *)
(* shows that the driver implements CommandStore.                          *)
(***************************************************************************)
EXTENDS AesdDriver, CircularBufferLemmas

(* A call in its critical section holds the mutex.                         *)
MutexHeld == \A f \in Files : Holding(f) => lock = f

(* aesd_write's l_ent exists from the allocation to the return, and then   *)
(* g_ent is empty; aesd_read's ret_ent and aesd_ioctl's seekto exist only  *)
(* during the call.                                                        *)
LocalsLive == \A f \in Files :
  /\ l_ent[f] # NULL <=> pc[f] \in {"write_copy", "killed"}
  /\ l_ent[f] # NULL => g_ent.buffptr = NULL
  /\ found[f] # NULL => pc[f] = "read_copy"
  /\ seekto[f] # NULL <=> pc[f] \in {"ioctl_lock", "ioctl_seek"}

IInv ==
  /\ TypeOK
  /\ MutexHeld
  /\ LocalsLive
  /\ WellFormed(circ_buff)
  /\ HeapOwned
  /\ SizesMatchData
  /\ CommandsMoveOn
  /\ FoundInRange

-----------------------------------------------------------------------------
(* The initial state satisfies the invariant.                              *)
LEMMA InitIInv == Init => IInv
<1> SUFFICES ASSUME Init PROVE IInv
  OBVIOUS
<1> USE DEF Init
<1>1. circ_buff \in Buffers(Blocks) /\ WellFormed(circ_buff)
  BY InitWellFormed
<1>2. \A i \in Slots : circ_buff.entry[i] = NoEntry
  BY DEF aesd_circular_buffer_init
<1>3. TypeOK
  BY <1>1, DriverAssumption, MaxOpsAssumption DEF TypeOK, Places, NoEntry, Entries, NoScan
<1>4. MutexHeld /\ LocalsLive
  BY DEF MutexHeld, LocalsLive, Holding
<1>5. HeapOwned
  BY <1>2, DriverAssumption DEF HeapOwned, InBuffer, InPending, InWrite, NoEntry
<1>6. SizesMatchData
  BY <1>2 DEF SizesMatchData, PendingBytes, NoEntry
<1>7. CommandsMoveOn /\ FoundInRange
  BY <1>2 DEF CommandsMoveOn, FoundInRange, HasNewline, PendingBytes, NoEntry
<1> QED BY <1>1, <1>3, <1>4, <1>5, <1>6, <1>7 DEF IInv

(* A step is one of the actions of one file.                               *)
LEMMA NextCases ==
  ASSUME [Next]_vars
  PROVE  \/ \E f \in Files :
              \/ Open(f) \/ Release(f)
              \/ ReadCall(f) \/ WriteCall(f) \/ LseekCall(f) \/ IoctlCall(f) \/ IoctlRefused(f)
              \/ ReadLock(f) \/ WriteLock(f) \/ IoctlLock(f) \/ Interrupted(f)
              \/ ReadNothing(f) \/ ReadCopy(f)
              \/ WriteNoMemory(f) \/ WriteAlloc(f) \/ WriteCopy(f) \/ WriteOops(f)
              \/ LseekStep(f) \/ LseekMove(f) \/ IoctlInvalid(f) \/ IoctlSeek(f)
         \/ UNCHANGED vars
BY DEF Next, Call, Acquire, Continue

(* Who holds the mutex and which locals exist follows the calls: the       *)
(* mutex is taken only when free, and given up only by its holder.         *)
LEMMA ControlStep ==
  ASSUME IInv, [Next]_vars
  PROVE  MutexHeld' /\ LocalsLive'
<1> USE DEF MutexHeld, LocalsLive, Holding, Goto, Proceed, Return, UnlockReturn, Lock, shared
<1>0. /\ MutexHeld /\ LocalsLive
      /\ pc \in [Files -> Places] /\ lock \in Files \cup {NULL} /\ NULL \notin Files
      /\ l_ent \in [Files -> Entries(Blocks) \cup {NULL}]
      /\ found \in [Files -> [slot : Slots, offset : Nat] \cup {NULL}]
      /\ seekto \in [Files -> SeekTos \cup {NULL}]
  BY DriverAssumption DEF IInv, TypeOK
<1>1. ASSUME NEW f \in Files, Open(f) PROVE MutexHeld' /\ LocalsLive'
  BY <1>0, <1>1 DEF Open
<1>2. ASSUME NEW f \in Files, Release(f) PROVE MutexHeld' /\ LocalsLive'
  BY <1>0, <1>2 DEF Release
<1>3. ASSUME NEW f \in Files, ReadCall(f) PROVE MutexHeld' /\ LocalsLive'
  BY <1>0, <1>3 DEF ReadCall
<1>4. ASSUME NEW f \in Files, WriteCall(f) PROVE MutexHeld' /\ LocalsLive'
  BY <1>0, <1>4 DEF WriteCall
<1>5. ASSUME NEW f \in Files, LseekCall(f) PROVE MutexHeld' /\ LocalsLive'
  BY <1>0, <1>5 DEF LseekCall
<1>6. ASSUME NEW f \in Files, IoctlCall(f) PROVE MutexHeld' /\ LocalsLive'
  BY <1>0, <1>6, DriverAssumption DEF IoctlCall, SeekTos
<1>7. ASSUME NEW f \in Files, IoctlRefused(f) PROVE MutexHeld' /\ LocalsLive'
  BY <1>0, <1>7 DEF IoctlRefused
<1>8. ASSUME NEW f \in Files, ReadLock(f) PROVE MutexHeld' /\ LocalsLive'
  BY <1>0, <1>8 DEF ReadLock
<1>9. ASSUME NEW f \in Files, WriteLock(f) PROVE MutexHeld' /\ LocalsLive'
  BY <1>0, <1>9 DEF WriteLock
<1>10. ASSUME NEW f \in Files, IoctlLock(f) PROVE MutexHeld' /\ LocalsLive'
  BY <1>0, <1>10 DEF IoctlLock
<1>11. ASSUME NEW f \in Files, Interrupted(f) PROVE MutexHeld' /\ LocalsLive'
  BY <1>0, <1>11 DEF Interrupted
<1>12. ASSUME NEW f \in Files, ReadNothing(f) PROVE MutexHeld' /\ LocalsLive'
  BY <1>0, <1>12 DEF ReadNothing
<1>13. ASSUME NEW f \in Files, ReadCopy(f) PROVE MutexHeld' /\ LocalsLive'
  BY <1>0, <1>13 DEF ReadCopy
<1>14. ASSUME NEW f \in Files, WriteNoMemory(f) PROVE MutexHeld' /\ LocalsLive'
  BY <1>0, <1>14 DEF WriteNoMemory
<1>15. ASSUME NEW f \in Files, WriteAlloc(f) PROVE MutexHeld' /\ LocalsLive'
  BY <1>0, <1>15, DriverAssumption DEF WriteAlloc, PendingTaken, NoEntry, Entries
<1>16. ASSUME NEW f \in Files, WriteCopy(f) PROVE MutexHeld' /\ LocalsLive'
  BY <1>0, <1>16 DEF WriteCopy, Commit, Keep
<1>17. ASSUME NEW f \in Files, WriteOops(f) PROVE MutexHeld' /\ LocalsLive'
  BY <1>0, <1>17 DEF WriteOops
<1>18. ASSUME NEW f \in Files, LseekStep(f) PROVE MutexHeld' /\ LocalsLive'
  BY <1>0, <1>18 DEF LseekStep
<1>19. ASSUME NEW f \in Files, LseekMove(f) PROVE MutexHeld' /\ LocalsLive'
  BY <1>0, <1>19 DEF LseekMove
<1>20. ASSUME NEW f \in Files, IoctlInvalid(f) PROVE MutexHeld' /\ LocalsLive'
  BY <1>0, <1>20 DEF IoctlInvalid
<1>21. ASSUME NEW f \in Files, IoctlSeek(f) PROVE MutexHeld' /\ LocalsLive'
  BY <1>0, <1>21 DEF IoctlSeek
<1>22. CASE UNCHANGED vars
  BY <1>0, <1>22 DEF vars
<1> QED
  BY NextCases, <1>1, <1>2, <1>3, <1>4, <1>5, <1>6, <1>7, <1>8, <1>9, <1>10, <1>11,
     <1>12, <1>13, <1>14, <1>15, <1>16, <1>17, <1>18, <1>19, <1>20, <1>21, <1>22

-----------------------------------------------------------------------------
(* While f holds the mutex, no other file has an l_ent.                    *)
LEMMA OnlyHolderWrites ==
  ASSUME IInv, NEW f \in Files, Holding(f), NEW g \in Files, l_ent[g] # NULL
  PROVE  g = f
BY DEF IInv, MutexHeld, LocalsLive, Holding

(* A pointer the driver keeps refers to an allocated block: its bytes are  *)
(* a sequence.                                                             *)
LEMMA OwnedBytes ==
  ASSUME IInv, NEW b \in Blocks, heap[b] # NULL
  PROVE  heap[b] \in Seq(Byte)
BY DEF IInv, TypeOK

LEMMA PendingBytesType ==
  ASSUME IInv
  PROVE  PendingBytes \in Seq(Byte) /\ Len(PendingBytes) \in Nat
<1>1. CASE g_ent.buffptr = NULL
  BY <1>1, EmptySeq DEF PendingBytes
<1>2. CASE g_ent.buffptr # NULL
  <2>1. g_ent.buffptr \in Blocks
    BY <1>2 DEF IInv, TypeOK, Entries
  <2>2. heap[g_ent.buffptr] # NULL
    BY <2>1 DEF IInv, HeapOwned, InPending
  <2> QED BY <1>2, <2>1, <2>2, OwnedBytes, LenProperties DEF PendingBytes
<1> QED BY <1>1, <1>2

(* Steps outside aesd_write leave memory and its owners alone.             *)
LEMMA HeapFrame ==
  ASSUME IInv, UNCHANGED <<circ_buff, g_ent, heap, l_ent>>
  PROVE  WellFormed(circ_buff)' /\ HeapOwned' /\ SizesMatchData' /\ CommandsMoveOn'
BY DEF IInv, WellFormed, HeapOwned, InBuffer, InPending, InWrite, SizesMatchData,
       CommandsMoveOn, HasNewline, PendingBytes

(* Moving the pending data to a new block keeps memory owned once          *)
(* (aesd_write up to kfree(g_ent->buffptr)).                               *)
LEMMA WriteAllocKeepsHeap ==
  ASSUME IInv, NEW f \in Files, WriteAlloc(f)
  PROVE  WellFormed(circ_buff)' /\ HeapOwned' /\ SizesMatchData' /\ CommandsMoveOn'
<1>1. PICK b \in Blocks :
        /\ heap[b] = NULL
        /\ l_ent' = [l_ent EXCEPT ![f] = [buffptr |-> b, size |-> Len(PendingBytes)]]
        /\ heap' = Freed([heap EXCEPT ![b] = PendingBytes], g_ent.buffptr)
        /\ g_ent' = PendingTaken
        /\ circ_buff' = circ_buff
  BY DEF WriteAlloc
<1>2. /\ circ_buff.entry \in [Slots -> Entries(Blocks \cup {NULL})]
      /\ g_ent.buffptr \in Blocks \cup {NULL}
      /\ heap \in [Blocks -> Seq(Byte) \cup {NULL}]
      /\ l_ent \in [Files -> Entries(Blocks) \cup {NULL}]
      /\ HeapOwned /\ SizesMatchData /\ CommandsMoveOn /\ WellFormed(circ_buff)
      /\ NULL \notin Blocks /\ NULL \notin Seq(Byte)
  BY DriverAssumption DEF IInv, TypeOK, Buffers, Entries
<1>3. \A g \in Files : l_ent[g] = NULL
  <2>1. Holding(f) /\ l_ent[f] = NULL
    BY DEF WriteAlloc, Proceed, Goto, Holding, IInv, LocalsLive
  <2> QED BY <2>1, OnlyHolderWrites
<1>4. PendingBytes \in Seq(Byte) /\ PendingBytes # NULL
  BY <1>2, PendingBytesType
<1>5. g_ent.buffptr # b
  BY <1>1, <1>2 DEF HeapOwned, InPending
<1>6. \A x \in Blocks : heap'[x] = IF x = b THEN PendingBytes
                                   ELSE IF x = g_ent.buffptr THEN NULL ELSE heap[x]
  BY <1>1, <1>2, <1>5 DEF Freed
<1>7. g_ent'.buffptr = NULL /\ g_ent'.size = 0
  BY <1>1, <1>2 DEF PendingTaken, NoEntry, SizesMatchData, PendingBytes
<1>8. \A g \in Files, x \in Blocks : InWrite(g, x)' <=> g = f /\ x = b
  <2>1. l_ent'[f] # NULL
    BY <1>1, <1>2, PendingBytesType, DriverAssumption DEF Entries
  <2> QED BY <2>1, <1>1, <1>2, <1>3 DEF InWrite
<1>9. \A i \in Slots, x \in Blocks : InBuffer(i, x)' <=> InBuffer(i, x)
  BY <1>1 DEF InBuffer
<1>10. \A x \in Blocks : ~InPending(x)'
  BY <1>2, <1>7 DEF InPending
<1>11. HeapOwned'
  <2>1. ASSUME NEW x \in Blocks
        PROVE  heap'[x] # NULL <=> (x = b \/ \E i \in Slots : InBuffer(i, x))
    <3>1. heap[x] # NULL <=> \/ \E i \in Slots : InBuffer(i, x)
                             \/ InPending(x)
      BY <1>2, <1>3 DEF HeapOwned, InWrite
    <3>2. InPending(x) => ~ \E i \in Slots : InBuffer(i, x)
      BY <1>2 DEF HeapOwned
    <3> QED BY <3>1, <3>2, <1>1, <1>4, <1>6 DEF InPending
  <2>2. ~ \E i \in Slots : InBuffer(i, b)
    BY <1>1, <1>2 DEF HeapOwned
  <2>3. \A x \in Blocks : \A i, j \in Slots : InBuffer(i, x) /\ InBuffer(j, x) => i = j
    BY <1>2 DEF HeapOwned
  <2> QED BY <2>1, <2>2, <2>3, <1>8, <1>9, <1>10 DEF HeapOwned
<1>12. SizesMatchData'
  <2>1. ASSUME NEW i \in Slots, circ_buff.entry[i].buffptr # NULL
        PROVE  heap'[circ_buff.entry[i].buffptr] = heap[circ_buff.entry[i].buffptr]
    <3> DEFINE p == circ_buff.entry[i].buffptr
    <3>1. p \in Blocks /\ InBuffer(i, p)
      BY <2>1, <1>2 DEF Entries, InBuffer
    <3>2. p # b /\ p # g_ent.buffptr
      BY <3>1, <1>1, <1>2 DEF HeapOwned, InPending
    <3> QED BY <3>1, <3>2, <1>6
  <2>2. PendingBytes' = <<>>
    BY <1>7 DEF PendingBytes
  <2>3. \A g \in Files : l_ent'[g] # NULL => l_ent'[g].size = Len(heap'[l_ent'[g].buffptr])
    BY <1>1, <1>2, <1>3, <1>6
  <2> QED BY <2>1, <2>2, <2>3, <1>1, <1>2, <1>7 DEF SizesMatchData
<1>13. CommandsMoveOn'
  BY <1>1, <1>2, <1>7 DEF CommandsMoveOn, HasNewline, PendingBytes
<1>14. WellFormed(circ_buff)'
  BY <1>1, <1>2 DEF WellFormed
<1> QED BY <1>11, <1>12, <1>13, <1>14

(* A step of WriteCopy whose choices are made.                             *)
CopyStep(f, d, copied, stray) ==
  LET bytes == heap[l_ent[f].buffptr] \o SubSeq(d, 1, copied)
      ent   == [l_ent[f] EXCEPT !.size = @ + copied]
  IN  /\ UnlockReturn(f, "write_copy", copied, <<>>)
      /\ l_ent[f].size + Len(d) # 0
      /\ f_pos' = [f_pos EXCEPT ![f] = @ + copied]
      /\ \/ (HasNewline(bytes) \/ stray) /\ Commit(ent, bytes)
         \/ ~(HasNewline(bytes) \/ stray) /\ Keep(ent, bytes)
      /\ l_ent' = [l_ent EXCEPT ![f] = NULL]

(* What a step of WriteCopy does, with its data named.                     *)
LEMMA WriteCopyData ==
  ASSUME IInv, NEW f \in Files, WriteCopy(f)
  PROVE  \E bytes \in Seq(Byte), p \in Blocks, n \in Nat :
           /\ l_ent[f].buffptr = p /\ heap[p] # NULL
           /\ \A g \in Files : l_ent[g] # NULL <=> g = f
           /\ g_ent.buffptr = NULL
           /\ n = Len(bytes)
           /\ l_ent' = [l_ent EXCEPT ![f] = NULL]
           /\ \/ n > 0 /\ Commit([buffptr |-> p, size |-> n], bytes)
              \/ ~HasNewline(bytes) /\ Keep([buffptr |-> p, size |-> n], bytes)
           /\ f_pos' \in [Files -> Nat]
           /\ returned' \in [file : Files, value : Int, bytes : Seq(Byte)]
           /\ \E d \in Payloads : \E copied \in 0 .. Len(d) :
                /\ bytes = heap[p] \o SubSeq(d, 1, copied)
                /\ returned' = [file |-> f, value |-> copied, bytes |-> <<>>]
                /\ f_pos' = [f_pos EXCEPT ![f] = @ + copied]
<1>0. PICK d \in Payloads : \E copied \in 0 .. Len(d) :
        \E stray \in StrayNewline(copied = Len(d)) : CopyStep(f, d, copied, stray)
  BY DEF WriteCopy, CopyStep
<1>1. PICK copied \in 0 .. Len(d) :
        \E stray \in BOOLEAN : (stray => copied = Len(d)) /\ CopyStep(f, d, copied, stray)
  BY <1>0 DEF StrayNewline
<1>2. PICK stray \in BOOLEAN : (stray => copied = Len(d)) /\ CopyStep(f, d, copied, stray)
  BY <1>1
<1> USE DEF CopyStep
<1> DEFINE p     == l_ent[f].buffptr
           bytes == heap[p] \o SubSeq(d, 1, copied)
           n     == l_ent[f].size + copied
<1>3. d \in Seq(Byte) /\ Len(d) \in Nat /\ copied \in Nat
  BY DriverAssumption, LenProperties
<1>4. pc[f] = "write_copy" /\ l_ent[f] # NULL /\ g_ent.buffptr = NULL
  BY <1>2 DEF UnlockReturn, Return, Goto, IInv, LocalsLive
<1>5. l_ent[f] \in Entries(Blocks) /\ p \in Blocks /\ l_ent[f].size \in Nat
  BY <1>4 DEF IInv, TypeOK, Entries
<1>6. heap[p] # NULL /\ heap[p] \in Seq(Byte) /\ l_ent[f].size = Len(heap[p])
  <2>1. heap[p] # NULL
    BY <1>4, <1>5 DEF IInv, HeapOwned, InWrite
  <2> QED BY <2>1, <1>4, <1>5, OwnedBytes DEF IInv, SizesMatchData
<1>7. \A g \in Files : l_ent[g] # NULL <=> g = f
  <2>1. Holding(f)
    BY <1>4 DEF Holding
  <2> QED BY <2>1, <1>4, OnlyHolderWrites
<1>8. SubSeq(d, 1, copied) \in Seq(Byte) /\ Len(SubSeq(d, 1, copied)) = copied
  <2>1. \A i \in 1 .. copied : d[i] \in Byte
    BY <1>3, ElementOfSeq
  <2> QED BY <2>1, <1>3, SubSeqProperties
<1>9. bytes \in Seq(Byte) /\ Len(bytes) = n /\ n \in Nat
  <2> DEFINE new == SubSeq(d, 1, copied)
             had == heap[p]
  <2>1. new \in Seq(Byte) /\ Len(new) = copied /\ had \in Seq(Byte) /\ l_ent[f].size = Len(had)
    BY <1>6, <1>8
  <2> HIDE DEF new, had
  <2>2. had \o new \in Seq(Byte) /\ Len(had \o new) = l_ent[f].size + copied
    <3>1. had \o new \in Seq(Byte) /\ Len(had \o new) = Len(had) + Len(new)
      BY <2>1, ConcatProperties
    <3> QED BY <2>1, <3>1
  <2>3. bytes = had \o new /\ n \in Nat
    BY <1>3, <1>5 DEF new, had
  <2> HIDE DEF bytes
  <2> QED BY <2>2, <2>3
<1>10. [l_ent[f] EXCEPT !.size = @ + copied] = [buffptr |-> p, size |-> n]
  <2> DEFINE ent == l_ent[f]
  <2>1. PICK q \in Blocks, m \in Nat : ent = [buffptr |-> q, size |-> m]
    BY <1>5 DEF Entries
  <2> HIDE DEF ent
  <2>2. [ent EXCEPT !.size = @ + copied] = [buffptr |-> ent.buffptr, size |-> ent.size + copied]
    BY <2>1, <1>3
  <2> QED BY <2>2 DEF ent
<1>11. HasNewline(bytes) \/ (stray /\ copied = Len(d)) => n > 0
  <2>1. HasNewline(bytes) => n > 0
    <3> HIDE DEF bytes, n
    <3>1. DOMAIN bytes = 1 .. n
      BY <1>9, LenProperties
    <3> QED BY <3>1, <1>9 DEF HasNewline
  <2> QED BY <2>1, <1>2, <1>3, <1>5
<1>12. f_pos' \in [Files -> Nat]
  BY <1>2, <1>3 DEF IInv, TypeOK
<1>13. returned' \in [file : Files, value : Int, bytes : Seq(Byte)]
  BY <1>2, <1>3, EmptySeq DEF UnlockReturn, Return
<1>15. /\ bytes = heap[p] \o SubSeq(d, 1, copied)
       /\ returned' = [file |-> f, value |-> copied, bytes |-> <<>>]
       /\ f_pos' = [f_pos EXCEPT ![f] = @ + copied]
  BY <1>2 DEF UnlockReturn, Return
<1> HIDE DEF bytes, n, p
<1>14. \/ n > 0 /\ Commit([buffptr |-> p, size |-> n], bytes)
       \/ ~HasNewline(bytes) /\ Keep([buffptr |-> p, size |-> n], bytes)
  BY <1>2, <1>10, <1>11 DEF bytes, p
<1>16. \E d2 \in Payloads : \E taken \in 0 .. Len(d2) :
         /\ bytes = heap[p] \o SubSeq(d2, 1, taken)
         /\ returned' = [file |-> f, value |-> taken, bytes |-> <<>>]
         /\ f_pos' = [f_pos EXCEPT ![f] = @ + taken]
  BY <1>15
<1>17. l_ent[f].buffptr = p /\ l_ent' = [l_ent EXCEPT ![f] = NULL]
  BY <1>2 DEF p
<1> QED BY <1>4, <1>5, <1>6, <1>7, <1>9, <1>12, <1>13, <1>14, <1>16, <1>17

(* Committing a command keeps memory owned once: the overwritten command   *)
(* is freed and nobody else's block is (aesd_write with a newline).        *)
LEMMA CommitKeepsHeap ==
  ASSUME IInv, NEW f \in Files, NEW bytes \in Seq(Byte), NEW p \in Blocks, NEW n \in Nat,
         l_ent[f].buffptr = p, heap[p] # NULL, g_ent.buffptr = NULL, n = Len(bytes), n > 0,
         \A g \in Files : l_ent[g] # NULL <=> g = f,
         l_ent' = [l_ent EXCEPT ![f] = NULL],
         Commit([buffptr |-> p, size |-> n], bytes)
  PROVE  circ_buff' \in Buffers(Blocks) /\ WellFormed(circ_buff)'
           /\ HeapOwned' /\ SizesMatchData' /\ CommandsMoveOn'
<1> DEFINE e   == [buffptr |-> p, size |-> n]
           in  == circ_buff.in_offs
           old == circ_buff.entry[in].buffptr
<1>1. /\ circ_buff' = aesd_circular_buffer_add_entry(circ_buff, e)
      /\ heap' = Freed([heap EXCEPT ![p] = bytes], Overwritten(circ_buff))
      /\ g_ent' = g_ent
  BY DEF Commit
<1>2. /\ circ_buff \in Buffers(Blocks) /\ WellFormed(circ_buff)
      /\ circ_buff.entry \in [Slots -> Entries(Blocks \cup {NULL})]
      /\ in \in Slots /\ circ_buff.full \in BOOLEAN
      /\ heap \in [Blocks -> Seq(Byte) \cup {NULL}]
      /\ l_ent \in [Files -> Entries(Blocks) \cup {NULL}]
      /\ HeapOwned /\ SizesMatchData /\ CommandsMoveOn
      /\ NULL \notin Blocks /\ NULL \notin Seq(Byte) /\ bytes # NULL
  BY DriverAssumption DEF IInv, TypeOK, Buffers
<1>3. e \in Entries(Blocks)
  BY DEF Entries
<1>4. circ_buff' \in Buffers(Blocks) /\ WellFormed(circ_buff')
  BY <1>1, <1>2, <1>3, AddEntryWellFormed
<1>5. \A i \in Slots : circ_buff'.entry[i] = IF i = in THEN e ELSE circ_buff.entry[i]
  BY <1>1, <1>2 DEF aesd_circular_buffer_add_entry
<1>6. Overwritten(circ_buff) = old /\ old \in Blocks \cup {NULL}
  <2>1. old \in Blocks \cup {NULL}
    BY <1>2 DEF Entries
  <2>2. ~circ_buff.full => circ_buff.entry[in] = NoEntry
    BY <1>2, MaxOpsAssumption DEF WellFormed, Slots
  <2> QED BY <2>1, <2>2, <1>2 DEF Overwritten, NoEntry
<1> HIDE DEF e, in, old
<1>7. InWrite(f, p)
  BY DEF InWrite
<1>8. \A i \in Slots : ~InBuffer(i, p)
  BY <1>2, <1>7 DEF HeapOwned
<1>9. old # p
  BY <1>2, <1>8 DEF InBuffer, old
<1>10. \A x \in Blocks : heap'[x] = IF x = p THEN bytes ELSE IF x = old THEN NULL ELSE heap[x]
  <2>1. CASE old = NULL
    BY <2>1, <1>1, <1>2, <1>6 DEF Freed
  <2>2. CASE old \in Blocks
    BY <2>2, <1>1, <1>2, <1>6, <1>9 DEF Freed
  <2> QED BY <2>1, <2>2, <1>6
<1>11. \A i \in Slots, x \in Blocks :
         InBuffer(i, x)' <=> IF i = in THEN x = p ELSE InBuffer(i, x)
  BY <1>5 DEF InBuffer, e
<1>12. \A g \in Files, x \in Blocks : ~InWrite(g, x)'
  BY <1>2 DEF InWrite
<1>13. \A x \in Blocks : ~InPending(x)' /\ ~InPending(x)
  BY <1>1, <1>2 DEF InPending
<1>14. \A x \in Blocks : x = old <=> InBuffer(in, x)
  BY DEF InBuffer, old
<1>15. HeapOwned'
  <2>1. \A x \in Blocks : \A i, j \in Slots : InBuffer(i, x) /\ InBuffer(j, x) => i = j
    BY <1>2 DEF HeapOwned
  <2>2. ASSUME NEW x \in Blocks
        PROVE  heap'[x] # NULL <=> \E i \in Slots : InBuffer(i, x)'
    <3>1. CASE x = p
      BY <3>1, <1>2, <1>10, <1>11
    <3>2. CASE x # p
      <4>1. heap[x] # NULL <=> \E i \in Slots : InBuffer(i, x)
        <5>1. \A g \in Files : ~InWrite(g, x)
          BY <3>2 DEF InWrite
        <5> QED BY <5>1, <1>2, <1>13 DEF HeapOwned
      <4>2. (\E i \in Slots : InBuffer(i, x)') <=> \E i \in Slots : i # in /\ InBuffer(i, x)
        BY <3>2, <1>11
      <4>3. CASE x = old
        BY <4>2, <4>3, <3>2, <2>1, <1>2, <1>10, <1>14
      <4>4. CASE x # old
        BY <4>1, <4>2, <4>4, <3>2, <1>10, <1>14
      <4> QED BY <4>3, <4>4
    <3> QED BY <3>1, <3>2
  <2>3. \A x \in Blocks : \A i, j \in Slots : InBuffer(i, x)' /\ InBuffer(j, x)' => i = j
    BY <2>1, <1>8, <1>11
  <2> QED BY <2>2, <2>3, <1>12, <1>13 DEF HeapOwned
<1>16. SizesMatchData' /\ CommandsMoveOn'
  <2>1. ASSUME NEW i \in Slots
        PROVE  LET c == circ_buff'.entry[i]
               IN  /\ IF c.buffptr = NULL THEN c.size = 0 ELSE c.size = Len(heap'[c.buffptr])
                   /\ c.buffptr # NULL => c.size > 0
    <3>1. CASE i = in
      BY <3>1, <1>2, <1>5, <1>10 DEF e
    <3>2. CASE i # in /\ circ_buff.entry[i].buffptr # NULL
      <4> DEFINE q == circ_buff.entry[i].buffptr
      <4>1. q \in Blocks /\ InBuffer(i, q)
        BY <3>2, <1>2 DEF Entries, InBuffer
      <4>2. q # p /\ q # old
        BY <4>1, <3>2, <1>2, <1>8, <1>14 DEF HeapOwned
      <4>3. heap'[q] = heap[q]
        BY <4>1, <4>2, <1>10
      <4> QED BY <4>3, <3>2, <1>2, <1>5 DEF SizesMatchData, CommandsMoveOn
    <3>3. CASE i # in /\ circ_buff.entry[i].buffptr = NULL
      BY <3>3, <1>2, <1>5 DEF SizesMatchData
    <3> QED BY <3>1, <3>2, <3>3
  <2>2. PendingBytes' = <<>> /\ PendingBytes = <<>>
    BY <1>1 DEF PendingBytes
  <2>3. \A g \in Files : l_ent'[g] = NULL
    BY <1>2
  <2> QED BY <2>1, <2>2, <2>3, <1>1, <1>2 DEF SizesMatchData, CommandsMoveOn
<1> QED BY <1>4, <1>15, <1>16

(* Keeping data without a newline in g_ent keeps memory owned once         *)
(* (aesd_write without a newline).                                         *)
LEMMA KeepKeepsHeap ==
  ASSUME IInv, NEW f \in Files, NEW bytes \in Seq(Byte), NEW p \in Blocks, NEW n \in Nat,
         l_ent[f].buffptr = p, heap[p] # NULL, g_ent.buffptr = NULL, n = Len(bytes),
         ~HasNewline(bytes),
         \A g \in Files : l_ent[g] # NULL <=> g = f,
         l_ent' = [l_ent EXCEPT ![f] = NULL],
         Keep([buffptr |-> p, size |-> n], bytes)
  PROVE  WellFormed(circ_buff)' /\ HeapOwned' /\ SizesMatchData' /\ CommandsMoveOn'
<1>1. /\ circ_buff' = circ_buff
      /\ heap' = [heap EXCEPT ![p] = bytes]
      /\ g_ent' = [buffptr |-> p, size |-> n]
  BY DEF Keep
<1>2. /\ circ_buff.entry \in [Slots -> Entries(Blocks \cup {NULL})]
      /\ WellFormed(circ_buff)
      /\ heap \in [Blocks -> Seq(Byte) \cup {NULL}]
      /\ l_ent \in [Files -> Entries(Blocks) \cup {NULL}]
      /\ HeapOwned /\ SizesMatchData /\ CommandsMoveOn
      /\ NULL \notin Blocks /\ NULL \notin Seq(Byte) /\ bytes # NULL
  BY DriverAssumption DEF IInv, TypeOK, Buffers
<1>3. InWrite(f, p)
  BY DEF InWrite
<1>4. \A x \in Blocks : /\ InPending(x)' <=> x = p
                        /\ ~InPending(x)
                        /\ \A g \in Files : ~InWrite(g, x)'
                        /\ \A g \in Files : InWrite(g, x) <=> g = f /\ x = p
                        /\ \A i \in Slots : InBuffer(i, x)' <=> InBuffer(i, x)
                        /\ heap'[x] = IF x = p THEN bytes ELSE heap[x]
  BY <1>1, <1>2 DEF InPending, InWrite, InBuffer
<1>5. HeapOwned'
  <2>1. ASSUME NEW x \in Blocks
        PROVE  heap'[x] # NULL <=> x = p \/ \E i \in Slots : InBuffer(i, x)
    BY <1>2, <1>4 DEF HeapOwned
  <2>2. \A x \in Blocks : \A i, j \in Slots : InBuffer(i, x) /\ InBuffer(j, x) => i = j
    BY <1>2 DEF HeapOwned
  <2>3. \A i \in Slots : ~InBuffer(i, p)
    BY <1>2, <1>3 DEF HeapOwned
  <2> QED BY <2>1, <2>2, <2>3, <1>4 DEF HeapOwned
<1>6. SizesMatchData'
  <2>1. ASSUME NEW i \in Slots, circ_buff.entry[i].buffptr # NULL
        PROVE  heap'[circ_buff.entry[i].buffptr] = heap[circ_buff.entry[i].buffptr]
    <3> DEFINE q == circ_buff.entry[i].buffptr
    <3>1. q \in Blocks /\ InBuffer(i, q)
      BY <2>1, <1>2 DEF Entries, InBuffer
    <3>2. q # p
      BY <3>1, <1>2, <1>3 DEF HeapOwned
    <3> QED BY <3>1, <3>2, <1>4
  <2>2. PendingBytes' = bytes
    BY <1>1, <1>2 DEF PendingBytes
  <2>3. \A g \in Files : l_ent'[g] = NULL
    BY <1>2
  <2> QED BY <2>1, <2>2, <2>3, <1>1, <1>2 DEF SizesMatchData
<1>7. CommandsMoveOn'
  <2>1. PendingBytes' = bytes
    BY <1>1, <1>2 DEF PendingBytes
  <2> QED BY <2>1, <1>1, <1>2 DEF CommandsMoveOn, HasNewline
<1>8. WellFormed(circ_buff)'
  BY <1>1, <1>2 DEF WellFormed
<1> QED BY <1>5, <1>6, <1>7, <1>8

(* Memory, sizes and newlines through every step.                          *)
LEMMA HeapStep ==
  ASSUME IInv, [Next]_vars
  PROVE  WellFormed(circ_buff)' /\ HeapOwned' /\ SizesMatchData' /\ CommandsMoveOn'
<1>1. ASSUME NEW f \in Files, WriteCopy(f)
      PROVE  WellFormed(circ_buff)' /\ HeapOwned' /\ SizesMatchData' /\ CommandsMoveOn'
  <2>1. PICK bytes \in Seq(Byte), p \in Blocks, n \in Nat :
          /\ l_ent[f].buffptr = p /\ heap[p] # NULL
          /\ \A g \in Files : l_ent[g] # NULL <=> g = f
          /\ g_ent.buffptr = NULL
          /\ n = Len(bytes)
          /\ l_ent' = [l_ent EXCEPT ![f] = NULL]
          /\ \/ n > 0 /\ Commit([buffptr |-> p, size |-> n], bytes)
             \/ ~HasNewline(bytes) /\ Keep([buffptr |-> p, size |-> n], bytes)
    BY <1>1, WriteCopyData
  <2>2. CASE n > 0 /\ Commit([buffptr |-> p, size |-> n], bytes)
    BY <2>1, <2>2, CommitKeepsHeap
  <2>3. CASE ~HasNewline(bytes) /\ Keep([buffptr |-> p, size |-> n], bytes)
    BY <2>1, <2>3, KeepKeepsHeap
  <2> QED BY <2>1, <2>2, <2>3
<1>2. ASSUME NEW f \in Files, WriteAlloc(f)
      PROVE  WellFormed(circ_buff)' /\ HeapOwned' /\ SizesMatchData' /\ CommandsMoveOn'
  BY <1>2, WriteAllocKeepsHeap
<1>3. ASSUME NEW f \in Files,
             \/ Open(f) \/ Release(f)
             \/ ReadCall(f) \/ WriteCall(f) \/ LseekCall(f) \/ IoctlCall(f) \/ IoctlRefused(f)
             \/ ReadLock(f) \/ WriteLock(f) \/ IoctlLock(f) \/ Interrupted(f)
             \/ ReadNothing(f) \/ ReadCopy(f) \/ WriteNoMemory(f) \/ WriteOops(f)
             \/ LseekStep(f) \/ LseekMove(f) \/ IoctlInvalid(f) \/ IoctlSeek(f)
      PROVE  UNCHANGED <<circ_buff, g_ent, heap, l_ent>>
  BY <1>3 DEF Open, Release, ReadCall, WriteCall, LseekCall, IoctlCall, IoctlRefused,
       ReadLock, WriteLock, IoctlLock, Interrupted, ReadNothing, ReadCopy, WriteNoMemory,
       WriteOops, LseekStep, LseekMove, IoctlInvalid, IoctlSeek, shared
<1>4. CASE UNCHANGED vars
  BY <1>4, HeapFrame DEF vars
<1> QED BY <1>1, <1>2, <1>3, <1>4, HeapFrame, NextCases

-----------------------------------------------------------------------------
(* The sums aesd_llseek and aesd_adjust_file_offset compute are sizes.     *)
LEMMA SumTypes ==
  ASSUME NEW buf \in Buffers(Blocks)
  PROVE  /\ SizeBefore(buf) \in [0 .. MaxOps -> Nat]
         /\ TotalSize(buf) \in Nat
         /\ \A i \in Slots : CountedSize(buf.entry[i]) \in Nat
         /\ \A to \in SeekTos : TotalOffset(buf, to) \in Nat
<1> DEFINE size == [i \in Slots |-> CountedSize(buf.entry[i])]
<1>1. \A i \in Slots : CountedSize(buf.entry[i]) \in Nat
  BY DEF CountedSize, Buffers, Entries
<1>2. SizeBefore(buf) \in [0 .. MaxOps -> Nat]
  <2>1. size \in [Slots -> Nat]
    BY <1>1
  <2> HIDE DEF size
  <2>2. PrefixSums(size) \in [0 .. MaxOps -> Nat]
    BY <2>1, PrefixSumsRecursion
  <2> QED BY <2>2 DEF SizeBefore, size
<1>3. TotalSize(buf) \in Nat
  BY <1>2, MaxOpsAssumption DEF TotalSize
<1>4. ASSUME NEW to \in SeekTos PROVE TotalOffset(buf, to) \in Nat
  <2> DEFINE cmd   == to.write_cmd
             Stops == {i \in 0 .. MaxOps : i = MaxOps \/ i = cmd \/ buf.entry[i].buffptr = NULL}
  <2>1. Stops \in SUBSET Nat /\ Stops # {}
    BY MaxOpsAssumption
  <2>2. PICK i \in Stops : \A k \in Stops : i <= k
    <3> HIDE DEF Stops
    <3> QED BY <2>1, LeastElement
  <2>3. \E k \in 0 .. MaxOps :
          /\ \A j \in 0 .. k - 1 : j # cmd /\ buf.entry[j].buffptr # NULL
          /\ k = MaxOps \/ k = cmd \/ buf.entry[k].buffptr = NULL
    <3>1. ASSUME NEW j \in 0 .. i - 1 PROVE j # cmd /\ buf.entry[j].buffptr # NULL
      <4>1. j \in 0 .. MaxOps /\ j < i
        BY <2>2, MaxOpsAssumption
      <4>2. j \notin Stops
        BY <4>1, <2>2, MaxOpsAssumption
      <4> QED BY <4>1, <4>2
    <3> QED BY <2>2, <3>1
  <2>4. StopIndex(buf, cmd) \in 0 .. MaxOps
    <3> HIDE DEF cmd
    <3> QED BY <2>3, Zenon DEF StopIndex
  <2>5. SizeBefore(buf)[StopIndex(buf, cmd)] \in Nat /\ to.write_cmd_offset \in Nat
    BY <1>2, <2>4 DEF SeekTos
  <2> HIDE DEF cmd
  <2> QED BY <2>5 DEF TotalOffset, cmd
<1> QED BY <1>1, <1>2, <1>3, <1>4

(* A seek leaves f_pos a position and returns one or an error              *)
(* (fixed_size_llseek, called by aesd_llseek).                             *)
LEMMA SeekTypes ==
  ASSUME NEW pos \in Nat, NEW offset \in Int, NEW size \in Nat,
         NEW whence \in {"SEEK_SET", "SEEK_CUR", "SEEK_END"}
  PROVE  /\ fixed_size_llseek(pos, offset, whence, size) \in Int
         /\ Moved(pos, fixed_size_llseek(pos, offset, whence, size)) \in Nat
<1>1. SeekPosition(pos, offset, whence, size) \in Int
  BY DEF SeekPosition
<1>2. SeekAllowed(pos, offset, whence, size) => SeekPosition(pos, offset, whence, size) \in Nat
  BY DEF SeekAllowed, SeekPosition
<1> QED BY <1>1, <1>2 DEF fixed_size_llseek, Moved, EINVAL

(* The bytes aesd_read copies are bytes of the command it found.           *)
LEMMA ReadCopyType ==
  ASSUME IInv, NEW f \in Files, ReadCopy(f)
  PROVE  /\ f_pos' \in [Files -> Nat]
         /\ returned' \in [file : Files, value : Int, bytes : Seq(Byte)]
<1> DEFINE ent    == circ_buff.entry[found[f].slot]
           offset == found[f].offset
           data   == heap[ent.buffptr]
<1>1. PICK copied \in 0 .. ent.size - offset :
        /\ returned' = [file |-> f, value |-> copied,
                        bytes |-> SubSeq(data, offset + 1, offset + copied)]
        /\ f_pos' = [f_pos EXCEPT ![f] = @ + copied]
  BY DEF ReadCopy, UnlockReturn, Return
<1>2. /\ found[f].slot \in Slots /\ offset \in Nat /\ offset < ent.size
      /\ ent \in Entries(Blocks \cup {NULL})
  BY DEF ReadCopy, IInv, TypeOK, Buffers, FoundInRange
<1>3. ent.size \in Nat /\ ent.buffptr \in Blocks /\ ent.size = Len(data)
  BY <1>2 DEF Entries, IInv, SizesMatchData
<1>4. data \in Seq(Byte)
  <2>1. heap[ent.buffptr] # NULL
    BY <1>2, <1>3 DEF IInv, HeapOwned, InBuffer
  <2> QED BY <2>1, <1>3, OwnedBytes
<1> HIDE DEF ent, offset, data
<1>5. copied \in Nat /\ offset + copied \in Nat /\ offset + copied <= Len(data)
  BY <1>2, <1>3
<1>6. SubSeq(data, offset + 1, offset + copied) \in Seq(Byte)
  <2>1. \A i \in offset + 1 .. offset + copied : data[i] \in Byte
    BY <1>2, <1>4, <1>5, ElementOfSeq
  <2>2. offset + 1 \in Int /\ offset + copied \in Int
    BY <1>2, <1>5
  <2> QED BY <2>1, <2>2, SubSeqProperties
<1> QED BY <1>1, <1>5, <1>6 DEF IInv, TypeOK

(* A write leaves every variable with a value of its type.                 *)
LEMMA WriteCopyType ==
  ASSUME IInv, NEW f \in Files, WriteCopy(f)
  PROVE  TypeOK'
<1>1. PICK bytes \in Seq(Byte), p \in Blocks, n \in Nat :
        /\ l_ent[f].buffptr = p /\ heap[p] # NULL
        /\ \A g \in Files : l_ent[g] # NULL <=> g = f
        /\ g_ent.buffptr = NULL
        /\ n = Len(bytes)
        /\ l_ent' = [l_ent EXCEPT ![f] = NULL]
        /\ \/ n > 0 /\ Commit([buffptr |-> p, size |-> n], bytes)
           \/ ~HasNewline(bytes) /\ Keep([buffptr |-> p, size |-> n], bytes)
        /\ f_pos' \in [Files -> Nat]
        /\ returned' \in [file : Files, value : Int, bytes : Seq(Byte)]
  BY WriteCopyData
<1> DEFINE e == [buffptr |-> p, size |-> n]
<1>5. n > 0 /\ Commit(e, bytes) => circ_buff' \in Buffers(Blocks)
  BY <1>1, CommitKeepsHeap
<1> USE DriverAssumption DEF TypeOK, IInv
<1>2. e \in Entries(Blocks \cup {NULL}) /\ e.buffptr \in Blocks
  BY DEF Entries
<1> HIDE DEF e
<1>6. /\ lock' \in Files \cup {NULL} /\ pc' \in [Files -> Places]
      /\ l_ent' \in [Files -> Entries(Blocks) \cup {NULL}]
  BY <1>1 DEF WriteCopy, UnlockReturn, Return, Goto, Places
<1>7. UNCHANGED <<found, scan, seekto>>
  BY DEF WriteCopy
<1>3. CASE n > 0 /\ Commit(e, bytes)
  <2>1. circ_buff' \in Buffers(Blocks)
    BY <1>3, <1>5
  <2>2. heap' \in [Blocks -> Seq(Byte) \cup {NULL}] /\ g_ent' = g_ent
    BY <1>3 DEF Commit, Freed
  <2> QED BY <2>1, <2>2, <1>1, <1>6, <1>7
<1>4. CASE Keep(e, bytes)
  <2>1. /\ heap' \in [Blocks -> Seq(Byte) \cup {NULL}]
        /\ g_ent' \in Entries(Blocks \cup {NULL})
        /\ circ_buff' = circ_buff
    BY <1>2, <1>4 DEF Keep
  <2> QED BY <2>1, <1>1, <1>6, <1>7
<1> QED BY <1>1, <1>3, <1>4 DEF e

(* Every step leaves every variable with a value of its type.              *)
LEMMA TypeStep ==
  ASSUME IInv, [Next]_vars
  PROVE  TypeOK'
<1> USE EmptySeq, MaxOpsAssumption, DriverAssumption
    DEF TypeOK, Places, shared, Goto, Proceed, Return, Lock, UnlockReturn
<1>0. TypeOK
  BY DEF IInv
<1>1. ASSUME NEW f \in Files, Open(f) PROVE TypeOK'
  BY <1>0, <1>1 DEF Open
<1>2. ASSUME NEW f \in Files, Release(f) PROVE TypeOK'
  BY <1>0, <1>2 DEF Release
<1>3. ASSUME NEW f \in Files, ReadCall(f) \/ WriteCall(f) \/ LseekCall(f) PROVE TypeOK'
  BY <1>0, <1>3 DEF ReadCall, WriteCall, LseekCall
<1>4. ASSUME NEW f \in Files, IoctlCall(f) PROVE TypeOK'
  BY <1>0, <1>4 DEF IoctlCall, SeekTos
<1>5. ASSUME NEW f \in Files, IoctlRefused(f) PROVE TypeOK'
  BY <1>0, <1>5 DEF IoctlRefused, ENOTTY, EFAULT, EINVAL
<1>6. ASSUME NEW f \in Files, ReadLock(f) PROVE TypeOK'
  <2>1. aesd_circular_buffer_find_entry_offset_for_fpos(circ_buff, f_pos[f])
          \in [slot : Slots, offset : Nat] \cup {NULL}
    BY <1>0, SearchInRange
  <2> QED BY <2>1, <1>0, <1>6 DEF ReadLock
<1>7. ASSUME NEW f \in Files, WriteLock(f) \/ IoctlLock(f) PROVE TypeOK'
  BY <1>0, <1>7 DEF WriteLock, IoctlLock
<1>8. ASSUME NEW f \in Files, Interrupted(f) PROVE TypeOK'
  BY <1>0, <1>8 DEF Interrupted, ERESTARTSYS
<1>9. ASSUME NEW f \in Files, ReadNothing(f) PROVE TypeOK'
  BY <1>0, <1>9 DEF ReadNothing
<1>10. ASSUME NEW f \in Files, ReadCopy(f) PROVE TypeOK'
  BY <1>0, <1>10, ReadCopyType DEF ReadCopy
<1>11. ASSUME NEW f \in Files, WriteNoMemory(f) PROVE TypeOK'
  BY <1>0, <1>11 DEF WriteNoMemory, ENOMEM
<1>12. ASSUME NEW f \in Files, WriteAlloc(f) PROVE TypeOK'
  <2>1. PendingBytes \in Seq(Byte) /\ Len(PendingBytes) \in Nat
    BY PendingBytesType
  <2>2. PendingTaken \in Entries(Blocks \cup {NULL})
    BY <1>0 DEF PendingTaken, NoEntry, Entries
  <2>3. heap' \in [Blocks -> Seq(Byte) \cup {NULL}]
    <3>1. PICK b \in Blocks : heap' = Freed([heap EXCEPT ![b] = PendingBytes], g_ent.buffptr)
      BY <1>12 DEF WriteAlloc
    <3>2. [heap EXCEPT ![b] = PendingBytes] \in [Blocks -> Seq(Byte) \cup {NULL}]
      BY <2>1, <1>0
    <3> QED BY <3>1, <3>2 DEF Freed
  <2>4. l_ent' \in [Files -> Entries(Blocks) \cup {NULL}]
    BY <2>1, <1>0, <1>12 DEF WriteAlloc, Entries
  <2> QED BY <2>2, <2>3, <2>4, <1>0, <1>12 DEF WriteAlloc
<1>13. ASSUME NEW f \in Files, WriteOops(f) PROVE TypeOK'
  BY <1>0, <1>13 DEF WriteOops
<1>14. ASSUME NEW f \in Files, LseekStep(f) PROVE TypeOK'
  <2>1. scan[f].index \in Slots /\ scan[f].index + 1 \in 0 .. MaxOps /\ scan[f].total \in Nat
    BY <1>0, <1>14 DEF LseekStep, Slots
  <2>2. CountedSize(circ_buff.entry[scan[f].index]) \in Nat
    BY <2>1, <1>0, SumTypes
  <2>3. scan' \in [Files -> [index : 0 .. MaxOps, total : Nat]]
    BY <2>1, <2>2, <1>0, <1>14 DEF LseekStep
  <2> QED BY <2>3, <1>0, <1>14 DEF LseekStep
<1>15. ASSUME NEW f \in Files, LseekMove(f) PROVE TypeOK'
  <2>1. PICK offset \in Offsets, whence \in {"SEEK_SET", "SEEK_CUR", "SEEK_END"} :
          LET result == fixed_size_llseek(f_pos[f], offset, whence, scan[f].total)
          IN  /\ Return(f, "llseek", result, <<>>)
              /\ f_pos' = [f_pos EXCEPT ![f] = Moved(@, result)]
              /\ scan' = [scan EXCEPT ![f] = NoScan]
              /\ UNCHANGED <<shared, l_ent, found, seekto>>
    BY <1>15, Zenon DEF LseekMove
  <2> DEFINE result == fixed_size_llseek(f_pos[f], offset, whence, scan[f].total)
  <2>2. result \in Int /\ Moved(f_pos[f], result) \in Nat
    BY <1>0, SeekTypes
  <2>3. NoScan \in [index : 0 .. MaxOps, total : Nat]
    BY DEF NoScan
  <2> HIDE DEF result
  <2> QED BY <2>1, <2>2, <2>3, <1>0 DEF result
<1>16. ASSUME NEW f \in Files, IoctlInvalid(f) PROVE TypeOK'
  BY <1>0, <1>16 DEF IoctlInvalid, EINVAL
<1>17. ASSUME NEW f \in Files, IoctlSeek(f) PROVE TypeOK'
  <2> DEFINE offset == TotalOffset(circ_buff, seekto[f])
             result == fixed_size_llseek(f_pos[f], offset, "SEEK_SET", TotalSize(circ_buff))
  <2>1. seekto[f] \in SeekTos
    BY <1>0, <1>17 DEF IoctlSeek, IInv, LocalsLive
  <2>2. offset \in Nat /\ TotalSize(circ_buff) \in Nat
    BY <2>1, <1>0, SumTypes
  <2>3. result \in Int /\ Moved(f_pos[f], result) \in Nat
    <3> HIDE DEF offset
    <3>1. offset \in Int /\ f_pos[f] \in Nat
      BY <2>2, <1>0
    <3> QED BY <3>1, <2>2, SeekTypes
  <2>4. /\ UnlockReturn(f, "ioctl_seek", result, <<>>)
        /\ f_pos' = [f_pos EXCEPT ![f] = Moved(@, result)]
        /\ seekto' = [seekto EXCEPT ![f] = NULL]
        /\ UNCHANGED <<circ_buff, g_ent, heap, l_ent, found, scan>>
    BY <1>17 DEF IoctlSeek
  <2> HIDE DEF result
  <2> QED BY <2>3, <2>4, <1>0
<1>18. CASE UNCHANGED vars
  BY <1>0, <1>18 DEF vars
<1> QED
  BY NextCases, WriteCopyType, <1>1, <1>2, <1>3, <1>4, <1>5, <1>6, <1>7, <1>8, <1>9,
     <1>10, <1>11, <1>12, <1>13, <1>14, <1>15, <1>16, <1>17, <1>18

(* What aesd_read found stays in the buffer until it has copied it: only   *)
(* a writer that holds the mutex changes the buffer.                       *)
LEMMA FoundStep ==
  ASSUME IInv, [Next]_vars
  PROVE  FoundInRange'
<1>1. FoundInRange /\ \A f \in Files : found[f] # NULL => pc[f] = "read_copy"
  BY DEF IInv, LocalsLive
<1>2. ASSUME NEW f \in Files, WriteCopy(f) PROVE FoundInRange'
  <2>1. Holding(f) /\ pc[f] # "read_copy" /\ UNCHANGED found
    BY <1>2 DEF WriteCopy, UnlockReturn, Return, Goto, Holding
  <2>2. \A g \in Files : found[g] = NULL
    BY <2>1, <1>1 DEF IInv, MutexHeld, Holding
  <2> QED BY <2>1, <2>2 DEF FoundInRange
<1>3. ASSUME NEW f \in Files, ReadLock(f) PROVE FoundInRange'
  <2> DEFINE answer == aesd_circular_buffer_find_entry_offset_for_fpos(circ_buff, f_pos[f])
  <2>1. answer = NULL \/ answer.offset < circ_buff.entry[answer.slot].size
    BY SearchInRange DEF IInv, TypeOK
  <2>2. found' = [found EXCEPT ![f] = answer] /\ circ_buff' = circ_buff
    BY <1>3 DEF ReadLock
  <2>3. found \in [Files -> [slot : Slots, offset : Nat] \cup {NULL}]
    BY DEF IInv, TypeOK
  <2> HIDE DEF answer
  <2> QED BY <2>1, <2>2, <2>3, <1>1 DEF FoundInRange
<1>4. ASSUME NEW f \in Files,
             \/ Open(f) \/ Release(f)
             \/ ReadCall(f) \/ WriteCall(f) \/ LseekCall(f) \/ IoctlCall(f) \/ IoctlRefused(f)
             \/ WriteLock(f) \/ IoctlLock(f) \/ Interrupted(f)
             \/ ReadNothing(f) \/ WriteNoMemory(f) \/ WriteAlloc(f) \/ WriteOops(f)
             \/ LseekStep(f) \/ LseekMove(f) \/ IoctlInvalid(f) \/ IoctlSeek(f)
      PROVE  UNCHANGED <<circ_buff, found>>
  BY <1>4 DEF Open, Release, ReadCall, WriteCall, LseekCall, IoctlCall, IoctlRefused,
       WriteLock, IoctlLock, Interrupted, ReadNothing, WriteNoMemory, WriteAlloc,
       WriteOops, LseekStep, LseekMove, IoctlInvalid, IoctlSeek, shared
<1>5. ASSUME NEW f \in Files, ReadCopy(f) PROVE FoundInRange'
  BY <1>1, <1>5 DEF ReadCopy, FoundInRange, IInv, TypeOK
<1>6. CASE UNCHANGED vars
  BY <1>1, <1>6 DEF vars, FoundInRange
<1>7. UNCHANGED <<circ_buff, found>> => FoundInRange'
  BY <1>1 DEF FoundInRange
<1> QED BY NextCases, <1>2, <1>3, <1>4, <1>5, <1>6, <1>7

-----------------------------------------------------------------------------
(* IInv holds of every reachable state of the driver: values are of their  *)
(* types, every allocated block has exactly one owner and every owner an   *)
(* allocated block, sizes count the bytes, no newline waits in g_ent, and  *)
(* what aesd_read found stays in range.                                    *)
THEOREM DriverInvariant == Spec => []IInv
<1>1. IInv /\ [Next]_vars => IInv'
  BY ControlStep, HeapStep, TypeStep, FoundStep DEF IInv
<1> QED BY InitIInv, <1>1, PTL DEF Spec

(* Type correctness of every variable of the driver.                       *)
THEOREM DriverTypes == Spec => []TypeOK
<1>1. IInv => TypeOK
  BY DEF IInv
<1> QED BY <1>1, DriverInvariant, PTL

(* Memory is owned once, for every number of slots, files and blocks: no   *)
(* leak, no pointer to freed memory, no block with two owners (kmalloc and *)
(* kfree in aesd_write).                                                   *)
THEOREM MemoryOwnedOnce == Spec => []HeapOwned
<1>1. IInv => HeapOwned
  BY DEF IInv
<1> QED BY <1>1, DriverInvariant, PTL

(* Every recorded size is the number of bytes behind the pointer, and no   *)
(* finished command waits in g_ent or is empty in the buffer (aesd_write). *)
THEOREM DataIsWhole == Spec => [](SizesMatchData /\ CommandsMoveOn)
<1>1. IInv => SizesMatchData /\ CommandsMoveOn
  BY DEF IInv
<1> QED BY <1>1, DriverInvariant, PTL

(* A command moves on as soon as its newline arrives: none waits in g_ent  *)
(* and no entry in use is empty, whatever blocks were extended or lost     *)
(* (aesd_write).                                                           *)
THEOREM CommandsComplete == Spec => []CommandsMoveOn
<1>1. IInv => CommandsMoveOn
  BY DEF IInv
<1> QED BY <1>1, DriverInvariant, PTL

(* The subtraction ret_ent->size - ret_offset of aesd_read never wraps.    *)
THEOREM ReadStaysInEntry == Spec => []FoundInRange
<1>1. IInv => FoundInRange
  BY DEF IInv
<1> QED BY <1>1, DriverInvariant, PTL

(* Only the ioctl that ends in -EINVAL inside the loop of                  *)
(* aesd_adjust_file_offset returns with the mutex locked.                  *)
THEOREM MutexKeptOnlyByInvalidSeek == Spec => OnlyInvalidSeekKeepsMutex
<1>1. ASSUME IInv, Next
      PROVE  \A f \in Files :
               Holding(f) /\ ~Holding(f)' => lock = f /\ (lock' = NULL \/ IoctlInvalid(f))
  <2> SUFFICES ASSUME NEW f \in Files, Holding(f), ~Holding(f)'
               PROVE  lock = f /\ (lock' = NULL \/ IoctlInvalid(f))
    OBVIOUS
  <2>1. lock = f /\ pc \in [Files -> Places]
    BY <1>1 DEF IInv, MutexHeld, TypeOK
  <2>2. PICK g \in Files : Call(g) \/ Acquire(g) \/ Continue(g) \/ Interrupted(g)
    BY <1>1 DEF Next
  <2>3. \A h \in Files : h # g => pc'[h] = pc[h]
    BY <2>1, <2>2 DEF Call, Acquire, Continue, Open, Release, ReadCall, WriteCall, LseekCall,
         IoctlCall, IoctlRefused, ReadLock, WriteLock, IoctlLock, Interrupted, ReadNothing,
         ReadCopy, WriteNoMemory, WriteAlloc, WriteCopy, WriteOops, LseekStep, LseekMove,
         IoctlInvalid, IoctlSeek, Goto, Proceed, Return, Lock, UnlockReturn
  <2>4. g = f
    BY <2>3 DEF Holding
  <2>5. ~Call(f) /\ ~Acquire(f) /\ ~Interrupted(f) /\ ~LseekStep(f) /\ ~LseekMove(f)
    BY DEF Holding, Call, Acquire, Open, Release, ReadCall, WriteCall, LseekCall, IoctlCall,
       IoctlRefused, ReadLock, WriteLock, IoctlLock, Interrupted, LseekStep, LseekMove,
       Goto, Proceed, Return, Lock
  <2>6. ~WriteAlloc(f) /\ ~WriteOops(f)
    BY <2>1 DEF Holding, WriteAlloc, WriteOops, Goto, Proceed
  <2> QED
    BY <2>1, <2>2, <2>4, <2>5, <2>6
       DEF Continue, ReadNothing, ReadCopy, WriteNoMemory, WriteCopy, IoctlSeek, UnlockReturn
<1>2. IInv /\ [Next]_vars =>
        [\A f \in Files : Holding(f) /\ ~Holding(f)' =>
            lock = f /\ (lock' = NULL \/ IoctlInvalid(f))]_vars
  BY <1>1
<1> QED BY <1>2, DriverInvariant, PTL DEF Spec, OnlyInvalidSeekKeepsMutex

-----------------------------------------------------------------------------
(* The second invariant is about where the data is: the slots in use hold  *)
(* commands, what aesd_read found is what a search would still find, and   *)
(* the sums of aesd_llseek lag behind the sizes until the first wrap.      *)
SlotsFilled == \A i \in Slots :
  circ_buff.full \/ i < circ_buff.in_offs => circ_buff.entry[i].buffptr # NULL

FoundIsCurrent == \A f \in Files : pc[f] = "read_copy" =>
  found[f] = aesd_circular_buffer_find_entry_offset_for_fpos(circ_buff, f_pos[f])

PlaceInv == SlotsFilled /\ FoundIsCurrent /\ ScanWithinSize

(* Only a write that completes a command changes the buffer, and it adds   *)
(* the command as one entry.                                               *)
LEMMA BufferStep ==
  ASSUME IInv, [Next]_vars
  PROVE  \/ circ_buff' = circ_buff
         \/ \E f \in Files, p \in Blocks, n \in Nat :
              /\ WriteCopy(f)
              /\ circ_buff' = aesd_circular_buffer_add_entry(circ_buff,
                                [buffptr |-> p, size |-> n])
<1>1. ASSUME NEW f \in Files, WriteCopy(f)
      PROVE  \/ circ_buff' = circ_buff
             \/ \E p \in Blocks, n \in Nat :
                  circ_buff' = aesd_circular_buffer_add_entry(circ_buff,
                                 [buffptr |-> p, size |-> n])
  <2>1. \E bytes \in Seq(Byte), p \in Blocks, n \in Nat :
          Commit([buffptr |-> p, size |-> n], bytes) \/ Keep([buffptr |-> p, size |-> n], bytes)
    BY <1>1, WriteCopyData
  <2> QED BY <2>1 DEF Commit, Keep
<1>2. ASSUME NEW f \in Files,
             \/ Open(f) \/ Release(f)
             \/ ReadCall(f) \/ WriteCall(f) \/ LseekCall(f) \/ IoctlCall(f) \/ IoctlRefused(f)
             \/ ReadLock(f) \/ WriteLock(f) \/ IoctlLock(f) \/ Interrupted(f)
             \/ ReadNothing(f) \/ ReadCopy(f) \/ WriteNoMemory(f) \/ WriteAlloc(f) \/ WriteOops(f)
             \/ LseekStep(f) \/ LseekMove(f) \/ IoctlInvalid(f) \/ IoctlSeek(f)
      PROVE  circ_buff' = circ_buff
  BY <1>2 DEF Open, Release, ReadCall, WriteCall, LseekCall, IoctlCall, IoctlRefused,
       ReadLock, WriteLock, IoctlLock, Interrupted, ReadNothing, ReadCopy, WriteNoMemory,
       WriteAlloc, WriteOops, LseekStep, LseekMove, IoctlInvalid, IoctlSeek, shared
<1>3. UNCHANGED vars => circ_buff' = circ_buff
  BY DEF vars
<1> QED BY <1>1, <1>2, <1>3, NextCases

(* The sums of aesd_llseek are the sums of the sizes in slot order.        *)
LEMMA SumsAgree ==
  ASSUME IInv
  PROVE  /\ SizeBefore(circ_buff) = SlotSums(circ_buff)
         /\ TotalSize(circ_buff) = TotalByteCount(circ_buff)[MaxOps]
<1>1. \A i \in Slots : CountedSize(circ_buff.entry[i]) = circ_buff.entry[i].size
  BY DEF CountedSize, IInv, SizesMatchData
<1>2. [i \in Slots |-> CountedSize(circ_buff.entry[i])] = [i \in Slots |-> circ_buff.entry[i].size]
  BY <1>1
<1>3. SizeBefore(circ_buff) = SlotSums(circ_buff)
  BY <1>2 DEF SizeBefore, SlotSums
<1>4. circ_buff \in Buffers(Blocks)
  BY DEF IInv, TypeOK
<1> QED BY <1>3, <1>4, SameTotal DEF TotalSize

(* The slots in use stay in use: an entry is added behind them and has     *)
(* memory (aesd_circular_buffer_add_entry).                                *)
LEMMA FilledStep ==
  ASSUME IInv, SlotsFilled, [Next]_vars
  PROVE  SlotsFilled'
<1>1. CASE circ_buff' = circ_buff
  BY <1>1 DEF SlotsFilled
<1>2. ASSUME NEW p \in Blocks, NEW n \in Nat,
             circ_buff' = aesd_circular_buffer_add_entry(circ_buff, [buffptr |-> p, size |-> n])
      PROVE  SlotsFilled'
  <2> DEFINE in == circ_buff.in_offs
             e  == [buffptr |-> p, size |-> n]
  <2>1. /\ circ_buff.entry \in [Slots -> Entries(Blocks \cup {NULL})]
        /\ in \in Slots /\ circ_buff.full \in BOOLEAN /\ NULL \notin Blocks
    BY DriverAssumption DEF IInv, TypeOK, Buffers
  <2>2. \A i \in Slots : circ_buff'.entry[i] = IF i = in THEN e ELSE circ_buff.entry[i]
    BY <1>2, <2>1 DEF aesd_circular_buffer_add_entry
  <2>3. circ_buff'.in_offs = NextIn(circ_buff) /\ circ_buff'.full = FullAfter(circ_buff)
    BY <1>2 DEF aesd_circular_buffer_add_entry
  <2>4. ASSUME NEW i \in Slots, circ_buff'.full \/ i < circ_buff'.in_offs, i # in
        PROVE  circ_buff.full \/ i < in
    BY <2>1, <2>3, <2>4, MaxOpsAssumption DEF NextIn, FullAfter, Slots
  <2>5. e.buffptr # NULL
    BY <2>1
  <2> HIDE DEF e, in
  <2> QED BY <2>2, <2>4, <2>5 DEF SlotsFilled, in
<1> QED BY <1>1, <1>2, BufferStep

(* Between the search and the copy nothing moves f_pos or the buffer.      *)
LEMMA CurrentStep ==
  ASSUME IInv, FoundIsCurrent, [Next]_vars
  PROVE  FoundIsCurrent'
<1>0. /\ pc \in [Files -> Places] /\ f_pos \in [Files -> Nat]
      /\ found \in [Files -> [slot : Slots, offset : Nat] \cup {NULL}]
  BY DEF IInv, TypeOK
<1>1. ASSUME NEW f \in Files, WriteCopy(f) PROVE FoundIsCurrent'
  <2>1. Holding(f) /\ pc' = [pc EXCEPT ![f] = "idle"]
    BY <1>1 DEF WriteCopy, UnlockReturn, Return, Goto, Holding
  <2>2. \A g \in Files : pc[g] # "read_copy" \/ g = f
    BY <2>1 DEF IInv, MutexHeld, Holding
  <2>3. \A g \in Files : pc'[g] # "read_copy"
    BY <1>0, <2>1, <2>2
  <2> QED BY <2>3 DEF FoundIsCurrent
<1>2. ASSUME NEW f \in Files, ReadLock(f) PROVE FoundIsCurrent'
  <2> DEFINE found1(g) == aesd_circular_buffer_find_entry_offset_for_fpos(circ_buff, f_pos[g])
  <2>1. /\ found' = [found EXCEPT ![f] = found1(f)]
        /\ pc' = [pc EXCEPT ![f] = "read_copy"]
        /\ circ_buff' = circ_buff /\ f_pos' = f_pos
    BY <1>2 DEF ReadLock, Lock, Proceed, Goto
  <2>2. \A g \in Files : pc[g] = "read_copy" => found[g] = found1(g)
    BY DEF FoundIsCurrent
  <2>3. \A g \in Files : pc'[g] = "read_copy" => found'[g] = found1(g)
    <3> HIDE DEF found1
    <3> QED BY <1>0, <2>1, <2>2
  <2> QED BY <2>1, <2>3 DEF FoundIsCurrent
<1>3. ASSUME NEW f \in Files,
             \/ Open(f) \/ Release(f)
             \/ ReadCall(f) \/ WriteCall(f) \/ LseekCall(f) \/ IoctlCall(f) \/ IoctlRefused(f)
             \/ WriteLock(f) \/ IoctlLock(f) \/ Interrupted(f)
             \/ ReadNothing(f) \/ ReadCopy(f) \/ WriteNoMemory(f) \/ WriteAlloc(f) \/ WriteOops(f)
             \/ LseekStep(f) \/ LseekMove(f) \/ IoctlInvalid(f) \/ IoctlSeek(f)
      PROVE  /\ circ_buff' = circ_buff
             /\ \A g \in Files : pc'[g] = "read_copy" =>
                  pc[g] = "read_copy" /\ found'[g] = found[g] /\ f_pos'[g] = f_pos[g]
  <2> USE <1>0 DEF shared, Goto, Proceed, Return, UnlockReturn, Lock
  <2>1. CASE \/ Open(f) \/ Release(f) \/ ReadCall(f) \/ WriteCall(f) \/ LseekCall(f)
             \/ IoctlCall(f) \/ IoctlRefused(f)
    BY <2>1 DEF Open, Release, ReadCall, WriteCall, LseekCall, IoctlCall, IoctlRefused
  <2>2. CASE WriteLock(f) \/ IoctlLock(f) \/ Interrupted(f)
    BY <2>2 DEF WriteLock, IoctlLock, Interrupted
  <2>3. CASE ReadNothing(f) \/ ReadCopy(f)
    BY <2>3 DEF ReadNothing, ReadCopy
  <2>4. CASE WriteNoMemory(f) \/ WriteAlloc(f) \/ WriteOops(f)
    BY <2>4 DEF WriteNoMemory, WriteAlloc, WriteOops
  <2>5. CASE LseekStep(f) \/ LseekMove(f)
    BY <2>5 DEF LseekStep, LseekMove
  <2>6. CASE IoctlInvalid(f) \/ IoctlSeek(f)
    BY <2>6 DEF IoctlInvalid, IoctlSeek
  <2> QED BY <1>3, <2>1, <2>2, <2>3, <2>4, <2>5, <2>6
<1>4. CASE UNCHANGED vars
  BY <1>4 DEF vars, FoundIsCurrent
<1>5. (/\ circ_buff' = circ_buff
       /\ \A g \in Files : pc'[g] = "read_copy" =>
            pc[g] = "read_copy" /\ found'[g] = found[g] /\ f_pos'[g] = f_pos[g])
      => FoundIsCurrent'
  BY DEF FoundIsCurrent
<1> QED BY <1>1, <1>2, <1>3, <1>4, <1>5, NextCases

(* A scan of aesd_llseek counts no more than the slots it has passed hold, *)
(* through every step until the first wrap: an entry is added to a slot    *)
(* that was empty, so no sum becomes smaller.                              *)
LEMMA ScanStep ==
  ASSUME IInv, ScanWithinSize, [Next]_vars
  PROVE  ScanWithinSize'
<1>0. /\ circ_buff \in Buffers(Blocks) /\ WellFormed(circ_buff)
      /\ scan \in [Files -> [index : 0 .. MaxOps, total : Nat]]
      /\ SizeBefore(circ_buff) \in [0 .. MaxOps -> Nat]
      /\ SizeBefore(circ_buff)[0] = 0
      /\ \A i \in Slots : SizeBefore(circ_buff)[i + 1]
                            = SizeBefore(circ_buff)[i] + CountedSize(circ_buff.entry[i])
  <2>1. /\ circ_buff \in Buffers(Blocks) /\ WellFormed(circ_buff)
        /\ scan \in [Files -> [index : 0 .. MaxOps, total : Nat]]
    BY DEF IInv, TypeOK
  <2>2. \A i \in Slots : CountedSize(circ_buff.entry[i]) = circ_buff.entry[i].size
    BY DEF CountedSize, IInv, SizesMatchData
  <2> QED BY <2>1, <2>2, SumsAgree, SumsOfSizes
<1>1. ASSUME NEW f \in Files, WriteCopy(f), circ_buff' # circ_buff PROVE ScanWithinSize'
  <2>1. scan' = scan
    BY <1>1 DEF WriteCopy
  <2>2. PICK p \in Blocks, n \in Nat :
          circ_buff' = aesd_circular_buffer_add_entry(circ_buff, [buffptr |-> p, size |-> n])
    BY <1>1, BufferStep
  <2> DEFINE in == circ_buff.in_offs
             e  == [buffptr |-> p, size |-> n]
             less == [i \in Slots |-> CountedSize(circ_buff.entry[i])]
             more == [i \in Slots |-> CountedSize(circ_buff'.entry[i])]
  <2>3. circ_buff' \in Buffers(Blocks)
    <3>1. e \in Entries(Blocks)
      BY DEF Entries
    <3> QED BY <2>2, <3>1, <1>0, AddEntryWellFormed
  <2>4. SUFFICES ASSUME NEW g \in Files, ~circ_buff'.full
                 PROVE  scan[g].total <= SizeBefore(circ_buff')[scan[g].index]
    BY <2>1 DEF ScanWithinSize
  <2>5. ~circ_buff.full /\ in \in Slots /\ circ_buff.entry[in] = NoEntry
    BY <2>2, <2>4, <1>0, MaxOpsAssumption
       DEF aesd_circular_buffer_add_entry, FullAfter, WellFormed, Buffers, Slots
  <2>6. \A i \in Slots : circ_buff'.entry[i] = IF i = in THEN e ELSE circ_buff.entry[i]
    BY <2>2, <1>0 DEF aesd_circular_buffer_add_entry, Buffers
  <2>7. less \in [Slots -> Nat] /\ more \in [Slots -> Nat]
    BY <1>0, <2>3, SumTypes
  <2>8. \A i \in Slots : less[i] <= more[i]
    <3> TAKE i \in Slots
    <3>1. less[i] \in Nat /\ more[i] \in Nat
      BY <2>7
    <3>2. less[i] = CountedSize(circ_buff.entry[i]) /\ more[i] = CountedSize(circ_buff'.entry[i])
      OBVIOUS
    <3>3. i = in => less[i] = 0
      BY <2>5, <3>2 DEF CountedSize, NoEntry
    <3>4. i # in => less[i] = more[i]
      BY <2>6, <3>2
    <3> HIDE DEF less, more, in
    <3> QED BY <3>1, <3>3, <3>4
  <2>9. SizeBefore(circ_buff) = PrefixSums(less) /\ SizeBefore(circ_buff') = PrefixSums(more)
    BY DEF SizeBefore
  <2> HIDE DEF less, more
  <2>10. scan[g].index \in 0 .. MaxOps /\ scan[g].total \in Nat
    BY <1>0
  <2>11. PrefixSums(less)[scan[g].index] <= PrefixSums(more)[scan[g].index]
    BY <2>7, <2>8, <2>10, PrefixSumsGrow
  <2>12. scan[g].total <= PrefixSums(less)[scan[g].index]
    BY <2>5, <2>9 DEF ScanWithinSize
  <2>13. /\ PrefixSums(less)[scan[g].index] \in Nat
         /\ PrefixSums(more)[scan[g].index] \in Nat
    BY <2>7, <2>10, PrefixSumsRecursion
  <2> QED BY <2>9, <2>10, <2>11, <2>12, <2>13
<1>2. ASSUME NEW f \in Files, LseekStep(f) PROVE ScanWithinSize'
  <2> DEFINE i == scan[f].index
             S == SizeBefore(circ_buff)
             c == CountedSize(circ_buff.entry[i])
  <2>1. /\ circ_buff' = circ_buff
        /\ scan' = [scan EXCEPT ![f] = [index |-> i + 1, total |-> scan[f].total + c]]
    BY <1>0, <1>2 DEF LseekStep, shared
  <2>2. i \in Slots /\ scan[f].total \in Nat /\ c \in Nat /\ S[i] \in Nat
    <3>1. i \in 0 .. MaxOps /\ scan[f].total \in Nat /\ i < MaxOps
      BY <1>0, <1>2 DEF LseekStep
    <3>2. i \in Slots
      BY <3>1, MaxOpsAssumption DEF Slots
    <3>3. c \in Nat
      BY <1>0, <3>2, SumTypes
    <3> QED BY <1>0, <3>1, <3>2, <3>3
  <2>3. S[i + 1] = S[i] + c
    BY <1>0, <2>2
  <2>4. ~circ_buff.full => scan[f].total <= S[i]
    BY DEF ScanWithinSize
  <2>5. ~circ_buff.full => scan[f].total + c <= S[i + 1]
    <3> HIDE DEF S, c, i
    <3> QED BY <2>2, <2>3, <2>4
  <2>6. scan'[f].index = i + 1 /\ scan'[f].total = scan[f].total + c
        /\ \A g \in Files : g # f => scan'[g] = scan[g]
    BY <1>0, <2>1
  <2>7. \A g \in Files : ~circ_buff.full => scan'[g].total <= S[scan'[g].index]
    <3> TAKE g \in Files
    <3>1. CASE g = f
      BY <2>5, <2>6, <3>1
    <3>2. CASE g # f
      BY <2>6, <3>2 DEF ScanWithinSize
    <3> QED BY <3>1, <3>2
  <2> QED BY <2>1, <2>7 DEF ScanWithinSize
<1>3. ASSUME NEW f \in Files, LseekMove(f) PROVE ScanWithinSize'
  <2>1. circ_buff' = circ_buff /\ scan' = [scan EXCEPT ![f] = NoScan]
    BY <1>3 DEF LseekMove, shared
  <2> QED BY <1>0, <2>1 DEF ScanWithinSize, NoScan
<1>4. ASSUME NEW f \in Files,
             \/ Open(f) \/ Release(f)
             \/ ReadCall(f) \/ WriteCall(f) \/ LseekCall(f) \/ IoctlCall(f) \/ IoctlRefused(f)
             \/ ReadLock(f) \/ WriteLock(f) \/ IoctlLock(f) \/ Interrupted(f)
             \/ ReadNothing(f) \/ ReadCopy(f) \/ WriteNoMemory(f) \/ WriteAlloc(f) \/ WriteOops(f)
             \/ IoctlInvalid(f) \/ IoctlSeek(f)
      PROVE  circ_buff' = circ_buff /\ scan' = scan
  BY <1>4 DEF Open, Release, ReadCall, WriteCall, LseekCall, IoctlCall, IoctlRefused,
       ReadLock, WriteLock, IoctlLock, Interrupted, ReadNothing, ReadCopy, WriteNoMemory,
       WriteAlloc, WriteOops, IoctlInvalid, IoctlSeek, shared
<1>5. ASSUME NEW f \in Files, WriteCopy(f), circ_buff' = circ_buff
      PROVE  circ_buff' = circ_buff /\ scan' = scan
  BY <1>5 DEF WriteCopy
<1>6. UNCHANGED vars => circ_buff' = circ_buff /\ scan' = scan
  BY DEF vars
<1>7. circ_buff' = circ_buff /\ scan' = scan => ScanWithinSize'
  BY DEF ScanWithinSize
<1> QED BY <1>1, <1>2, <1>3, <1>4, <1>5, <1>6, <1>7, NextCases

-----------------------------------------------------------------------------
(* PlaceInv holds of every reachable state beside IInv: what aesd_read     *)
(* found in one step is still what the search finds when it copies, and    *)
(* the slots before the insertion position all hold commands.              *)
THEOREM PlaceInvariant == Spec => [](IInv /\ PlaceInv)
<1>1. Init => PlaceInv
  <2> SUFFICES ASSUME Init PROVE PlaceInv
    OBVIOUS
  <2>1. ~circ_buff.full /\ circ_buff.in_offs = 0 /\ \A i \in Slots : ~(i < 0)
    BY MaxOpsAssumption DEF Init, aesd_circular_buffer_init, Slots
  <2>2. SlotsFilled
    BY <2>1 DEF SlotsFilled
  <2>3. FoundIsCurrent
    BY DEF Init, FoundIsCurrent
  <2>4. ScanWithinSize
    <3>1. SizeBefore(circ_buff)[0] = 0
      BY InitIInv, SumsAgree, SumsOfSizes DEF IInv, TypeOK
    <3>2. \A f \in Files : scan[f].index = 0 /\ scan[f].total = 0
      BY DEF Init, NoScan
    <3> QED BY <3>1, <3>2 DEF ScanWithinSize
  <2> QED BY <2>2, <2>3, <2>4 DEF PlaceInv
<1>2. IInv /\ PlaceInv /\ [Next]_vars => PlaceInv'
  BY FilledStep, CurrentStep, ScanStep DEF PlaceInv
<1>3. Spec => []IInv
  BY DriverInvariant
<1> QED BY <1>1, <1>2, <1>3, PTL DEF Spec

(* Until the first wrap SEEK_END lands inside the data, whatever is        *)
(* written while aesd_llseek adds up the sizes without the mutex.          *)
THEOREM SeekEndInside == Spec => []ScanWithinSize
<1>1. PlaceInv => ScanWithinSize
  BY DEF PlaceInv
<1> QED BY <1>1, PlaceInvariant, PTL

(* aesd_read says there is nothing to read only past the last byte.        *)
THEOREM EndOnlyAtEnd == Spec => NothingOnlyAtEnd
<1>1. ASSUME IInv, PlaceInv, NEW f \in Files, ReadNothing(f)
      PROVE  f_pos[f] >= TotalSize(circ_buff)
  <2>1. pc[f] = "read_copy" /\ found[f] = NULL
    BY <1>1 DEF ReadNothing, UnlockReturn, Return, Goto
  <2>2. aesd_circular_buffer_find_entry_offset_for_fpos(circ_buff, f_pos[f]) = NULL
    BY <1>1, <2>1 DEF PlaceInv, FoundIsCurrent
  <2>3. circ_buff \in Buffers(Blocks) /\ f_pos[f] \in Nat
    BY <1>1 DEF IInv, TypeOK
  <2>4. TotalSize(circ_buff) \in Nat /\ TotalSize(circ_buff) = TotalByteCount(circ_buff)[MaxOps]
    BY <1>1, <2>3, SumTypes, SumsAgree
  <2>5. ASSUME f_pos[f] < TotalByteCount(circ_buff)[MaxOps] PROVE FALSE
    <3>1. aesd_circular_buffer_find_entry_offset_for_fpos(circ_buff, f_pos[f])
            \in [slot : Slots, offset : Nat]
      BY <2>3, <2>5, SearchInRange
    <3> QED BY <2>2, <3>1, DriverAssumption
  <2> QED BY <2>3, <2>4, <2>5
<1>2. IInv /\ PlaceInv /\ [Next]_vars =>
        [\A f \in Files : ReadNothing(f) => f_pos[f] >= TotalSize(circ_buff)]_vars
  BY <1>1
<1> QED BY <1>2, PlaceInvariant, PTL DEF Spec, NothingOnlyAtEnd

(* The loop of aesd_adjust_file_offset stops at slot write_cmd when the    *)
(* slots up to it are in use.                                              *)
LEMMA StopsAtCommand ==
  ASSUME NEW buf, NEW cmd \in Slots, \A i \in 0 .. cmd : buf.entry[i].buffptr # NULL
  PROVE  Reached(buf, cmd) /\ StopIndex(buf, cmd) = cmd
<1> DEFINE Stop(i) == /\ \A j \in 0 .. i - 1 : j # cmd /\ buf.entry[j].buffptr # NULL
                      /\ i = MaxOps \/ i = cmd \/ buf.entry[i].buffptr = NULL
<1>1. cmd \in Nat /\ cmd < MaxOps /\ MaxOps \in Nat /\ cmd \in 0 .. MaxOps
  BY MaxOpsAssumption DEF Slots
<1>2. Reached(buf, cmd)
  BY <1>1 DEF Reached
<1>3. Stop(cmd)
  BY <1>1
<1>4. \A i \in 0 .. MaxOps : Stop(i) => i = cmd
  <2> TAKE i \in 0 .. MaxOps
  <2>1. i < cmd => ~Stop(i)
    BY <1>1
  <2>2. cmd < i => ~Stop(i)
    <3>1. cmd < i => cmd \in 0 .. i - 1
      BY <1>1
    <3> QED BY <3>1
  <2> HIDE DEF Stop
  <2> QED BY <1>1, <2>1, <2>2
<1>5. StopIndex(buf, cmd) = CHOOSE i \in 0 .. MaxOps : Stop(i)
  BY DEF StopIndex
<1> HIDE DEF Stop
<1> QED BY <1>1, <1>2, <1>3, <1>4, <1>5

(* Until the first wrap, a seek that names a byte of a command the buffer  *)
(* holds puts f_pos where aesd_read finds this byte: the slot order of the *)
(* loop is then the order of age.                                          *)
THEOREM SeekExact == Spec => SeekExactBeforeWrap
<1> DEFINE Exact(f) ==
      LET to == seekto[f]
      IN  (/\ IoctlSeek(f)
           /\ ~circ_buff.full
           /\ to.write_cmd < circ_buff.in_offs)
          => aesd_circular_buffer_find_entry_offset_for_fpos(circ_buff, f_pos'[f])
               = [slot |-> to.write_cmd, offset |-> to.write_cmd_offset]
<1>1. ASSUME IInv, PlaceInv, NEW f \in Files PROVE Exact(f)
  <2> DEFINE cmd == seekto[f].write_cmd
             off == seekto[f].write_cmd_offset
             in  == circ_buff.in_offs
             S   == SlotSums(circ_buff)
             pos == TotalOffset(circ_buff, seekto[f])
             n   == EntryCount(circ_buff)
  <2> SUFFICES ASSUME IoctlSeek(f), ~circ_buff.full, cmd < in
               PROVE  aesd_circular_buffer_find_entry_offset_for_fpos(circ_buff, f_pos'[f])
                        = [slot |-> cmd, offset |-> off]
    OBVIOUS
  <2>1. /\ circ_buff \in Buffers(Blocks) /\ WellFormed(circ_buff)
        /\ f_pos \in [Files -> Nat] /\ in \in Slots /\ circ_buff.out_offs \in Slots
    BY <1>1 DEF IInv, TypeOK, Buffers
  <2>2. seekto[f] \in SeekTos
    BY <1>1 DEF IInv, TypeOK, LocalsLive, IoctlSeek, UnlockReturn, Return, Goto
  <2>3. cmd \in Nat /\ off \in Nat /\ cmd \in Slots /\ in \in Nat /\ in < MaxOps
    BY <2>1, <2>2, MaxOpsAssumption DEF SeekTos, Slots
  <2>4. \A i \in 0 .. cmd : i \in Slots /\ circ_buff.entry[i].buffptr # NULL
    BY <1>1, <2>3, MaxOpsAssumption DEF PlaceInv, SlotsFilled, Slots
  <2>5. Reached(circ_buff, cmd) /\ StopIndex(circ_buff, cmd) = cmd
    BY <2>3, <2>4, StopsAtCommand
  <2>6. /\ S \in [0 .. MaxOps -> Nat] /\ S[0] = 0
        /\ \A i \in Slots : S[i + 1] = S[i] + circ_buff.entry[i].size
    BY <2>1, SumsOfSizes
  <2>7. pos = S[cmd] + off /\ S[cmd] \in Nat
    <3>1. S[cmd] \in Nat
      BY <2>3, <2>6, MaxOpsAssumption DEF Slots
    <3>2. SizeBefore(circ_buff) = S
      BY <1>1, SumsAgree
    <3> QED BY <2>5, <3>1, <3>2 DEF TotalOffset
  <2>8. off < circ_buff.entry[cmd].size /\ circ_buff.entry[cmd].size \in Nat
    <3>1. circ_buff.entry[cmd].size \in Nat
      BY <2>1, <2>3 DEF Buffers, Entries
    <3>2. ~SeekInvalid(circ_buff, seekto[f])
      BY DEF IoctlSeek
    <3>3. ~(off >= circ_buff.entry[cmd].size)
      BY <2>5, <3>2 DEF SeekInvalid
    <3> HIDE DEF off, cmd
    <3> QED BY <2>3, <3>1, <3>3
  <2>9. pos \in Nat /\ S[cmd] <= pos /\ pos < S[cmd + 1]
        /\ S[cmd + 1] = S[cmd] + circ_buff.entry[cmd].size
    <3>1. S[cmd + 1] = S[cmd] + circ_buff.entry[cmd].size
      BY <2>3, <2>6
    <3> HIDE DEF S, pos, off, cmd
    <3> QED BY <2>3, <2>7, <2>8, <3>1
  <2>10. /\ \A i, j \in 0 .. MaxOps : i <= j => S[i] <= S[j]
         /\ TotalByteCount(circ_buff)[MaxOps] = S[MaxOps] /\ TotalSize(circ_buff) = S[MaxOps]
    <3>1. [i \in Slots |-> circ_buff.entry[i].size] \in [Slots -> Nat]
      BY <2>1 DEF Buffers, Entries
    <3>2. \A i, j \in 0 .. MaxOps : i <= j => S[i] <= S[j]
      <4> TAKE i, j \in 0 .. MaxOps
      <4> HAVE i <= j
      <4>1. j \in i .. MaxOps
        BY MaxOpsAssumption
      <4> QED BY <3>1, <4>1, PrefixSumsMonotone DEF SlotSums
    <3> QED BY <1>1, <2>1, <3>2, SameTotal, SumsAgree
  <2>11. pos < S[MaxOps] /\ S[MaxOps] \in Nat
    <3>1. cmd + 1 \in 0 .. MaxOps /\ MaxOps \in 0 .. MaxOps /\ cmd + 1 <= MaxOps
      BY <2>3, MaxOpsAssumption DEF Slots
    <3>2. S[cmd + 1] <= S[MaxOps] /\ S[cmd + 1] \in Nat /\ S[MaxOps] \in Nat
      BY <2>6, <2>10, <3>1
    <3> HIDE DEF S, pos, cmd
    <3> QED BY <2>9, <3>2
  <2>12. f_pos'[f] = pos
    <3> DEFINE result == fixed_size_llseek(f_pos[f], pos, "SEEK_SET", TotalSize(circ_buff))
    <3>1. f_pos' = [f_pos EXCEPT ![f] = Moved(@, result)]
      BY DEF IoctlSeek
    <3>2. result = pos
      <4>1. pos \in 0 .. TotalSize(circ_buff)
        <5>1. pos <= TotalSize(circ_buff) /\ TotalSize(circ_buff) \in Nat
          <6> HIDE DEF pos
          <6> QED BY <2>9, <2>10, <2>11
        <5> HIDE DEF pos
        <5> QED BY <2>9, <5>1
      <4> HIDE DEF pos
      <4> QED BY <4>1 DEF fixed_size_llseek, SeekAllowed, SeekPosition
    <3> HIDE DEF result, pos
    <3>3. Moved(f_pos[f], pos) = pos
      BY <2>9 DEF Moved
    <3> QED BY <2>1, <3>1, <3>2, <3>3
  <2>13. PICK k \in 1 .. n :
           /\ StartOf(circ_buff, k) <= pos
           /\ pos < StartOf(circ_buff, k) + Ordered(circ_buff)[k].size
           /\ aesd_circular_buffer_find_entry_offset_for_fpos(circ_buff, pos)
                = [slot |-> SlotOf(circ_buff, k), offset |-> pos - StartOf(circ_buff, k)]
    <3> HIDE DEF pos, n
    <3>1. pos < TotalByteCount(circ_buff)[MaxOps]
      BY <2>10, <2>11
    <3> QED BY <2>1, <2>9, <3>1, SearchByAge DEF n
  <2>14. n = in /\ circ_buff.out_offs = 0
    BY <2>1, <2>3 DEF EntryCount, WellFormed
  <2>15. /\ k \in Nat /\ k - 1 \in Nat /\ k - 1 \in Slots /\ (k - 1) + 1 = k /\ k <= MaxOps
         /\ k - 1 \in 0 .. MaxOps /\ k \in 0 .. MaxOps
    BY <2>3, <2>14, MaxOpsAssumption DEF Slots
  <2>16. SlotOf(circ_buff, k) = k - 1 /\ StartOf(circ_buff, k) = S[k - 1]
    <3>1. SlotOf(circ_buff, k) = IF 0 + k - 1 < MaxOps THEN 0 + k - 1 ELSE 0 + k - 1 - MaxOps
      BY <2>14 DEF SlotOf
    <3>2. StartOf(circ_buff, k) = S[k - 1]
      BY DEF StartOf
    <3> QED BY <2>15, <3>1, <3>2, MaxOpsAssumption
  <2>17. Ordered(circ_buff)[k] = circ_buff.entry[k - 1]
    <3>1. Ordered(circ_buff)[k] = circ_buff.entry[SlotOf(circ_buff, k)]
      BY <2>1, OrderedType
    <3> QED BY <2>16, <3>1
  <2>18. S[k - 1] <= pos /\ pos < S[k]
    <3>1. S[k] = S[k - 1] + circ_buff.entry[k - 1].size
      BY <2>6, <2>15
    <3> HIDE DEF S, pos
    <3> QED BY <2>13, <2>16, <2>17, <3>1
  <2>19. k - 1 = cmd
    <3>0. cmd + 1 \in 0 .. MaxOps /\ cmd \in 0 .. MaxOps
      BY <2>3, MaxOpsAssumption DEF Slots
    <3>1. /\ cmd + 1 \in 0 .. MaxOps /\ cmd \in 0 .. MaxOps
          /\ S[cmd] \in Nat /\ S[cmd + 1] \in Nat /\ S[k - 1] \in Nat /\ S[k] \in Nat
      BY <3>0, <2>6, <2>15
    <3> HIDE DEF S, pos, cmd
    <3>2. ~(k <= cmd)
      BY <2>9, <2>10, <2>15, <2>18, <3>1
    <3>3. ~(cmd + 1 <= k - 1)
      BY <2>9, <2>10, <2>15, <2>18, <3>1
    <3> QED BY <2>3, <2>15, <3>2, <3>3
  <2>20. pos - S[cmd] = off
    <3> HIDE DEF S, pos, off
    <3> QED BY <2>3, <2>7
  <2> HIDE DEF S, pos, off, cmd
  <2> QED BY <2>12, <2>13, <2>16, <2>19, <2>20
<1>2. IInv /\ PlaceInv /\ [Next]_vars => [\A f \in Files : Exact(f)]_vars
  BY <1>1
<1> QED BY <1>2, PlaceInvariant, PTL DEF Spec, SeekExactBeforeWrap

-----------------------------------------------------------------------------
(* The driver implements CommandStore.                                     *)

LEMMA CountIsNat ==
  ASSUME NEW P, NEW buf \in Buffers(P), WellFormed(buf)
  PROVE  EntryCount(buf) \in Nat
<1>1. EntryCount(buf) \in 0 .. MaxOps
  BY OrderedType
<1> QED BY <1>1, MaxOpsAssumption

(* The bytes of a buffer's entries, oldest first, when memory holds h.     *)
Stored(buf, h) == [i \in 1 .. EntryCount(buf) |-> h[Ordered(buf)[i].buffptr]]

LEMMA StoredSeq ==
  ASSUME NEW P, NEW buf \in Buffers(P), WellFormed(buf), NEW h, NEW S,
         \A k \in 1 .. EntryCount(buf) : h[Ordered(buf)[k].buffptr] \in S
  PROVE  /\ Stored(buf, h) \in Seq(S)
         /\ Len(Stored(buf, h)) = EntryCount(buf)
         /\ \A k \in 1 .. EntryCount(buf) : Stored(buf, h)[k] = h[Ordered(buf)[k].buffptr]
<1> DEFINE n == EntryCount(buf)
           at(k) == h[Ordered(buf)[k].buffptr]
<1>1. n \in Nat
  BY CountIsNat
<1>2. Stored(buf, h) = [i \in 1 .. n |-> at(i)]
  BY DEF Stored
<1>3. \A k \in 1 .. n : at(k) \in S
  OBVIOUS
<1> HIDE DEF n, at
<1>4. Stored(buf, h) \in [1 .. n -> S] /\ \A k \in 1 .. n : Stored(buf, h)[k] = at(k)
  BY <1>2, <1>3
<1> QED BY <1>1, <1>4, FunctionIsSeq DEF n, at

(* Memory h2 has the bytes that h has for the entries that an addition     *)
(* leaves in the buffer.                                                   *)
KeepsBytes(buf, h, h2) == \A k \in 1 .. EntryCount(buf) :
  ~buf.full \/ k # 1 => h2[Ordered(buf)[k].buffptr] = h[Ordered(buf)[k].buffptr]

HasBytes(buf, h) == \A k \in 1 .. EntryCount(buf) : h[Ordered(buf)[k].buffptr] \in Seq(Byte)

(* The last MaxOps commands.                                               *)
Recent(commands) == IF Len(commands) > MaxOps THEN Tail(commands) ELSE commands

(* Adding an entry appends its bytes, and drops the bytes of the oldest    *)
(* when the buffer is full.                                                *)
LEMMA StoredAppend ==
  ASSUME NEW P, NEW buf \in Buffers(P), WellFormed(buf), NEW e \in Entries(P),
         NEW h, NEW h2, HasBytes(buf, h), h2[e.buffptr] \in Seq(Byte), KeepsBytes(buf, h, h2)
  PROVE  Stored(aesd_circular_buffer_add_entry(buf, e), h2) =
           Recent(Append(Stored(buf, h), h2[e.buffptr]))
<1> DEFINE new == aesd_circular_buffer_add_entry(buf, e)
           old == Ordered(buf)
           n   == EntryCount(buf)
           E   == Entries(P \cup {NULL})
           log == Stored(buf, h)
           all == Append(log, h2[e.buffptr])
           S   == Seq(Byte)
<1>1. /\ n \in 0 .. MaxOps /\ n \in Nat /\ (n = MaxOps <=> buf.full)
      /\ old \in Seq(E) /\ Len(old) = n
  BY OrderedType, CountIsNat
<1>2. log \in Seq(S) /\ Len(log) = n /\ \A k \in 1 .. n : log[k] = h[old[k].buffptr]
  BY StoredSeq DEF HasBytes
<1>3. new \in Buffers(P) /\ WellFormed(new)
  BY AddEntryWellFormed
<1>4. Ordered(new) = IF buf.full THEN Append(Tail(old), e) ELSE Append(old, e)
  BY AddEntryOrdered
<1>5. Len(Ordered(new)) = EntryCount(new) /\ EntryCount(new) \in Nat
  BY <1>3, OrderedType, CountIsNat
<1>6. e \in E
  BY DEF Entries
<1>7. \A k \in 1 .. n : ~buf.full \/ k # 1 => h2[old[k].buffptr] = log[k] /\ log[k] \in S
  BY <1>2 DEF KeepsBytes
<1>8. /\ all \in Seq(S) /\ Len(all) = n + 1
      /\ \A k \in 1 .. n : all[k] = log[k]
      /\ all[n + 1] = h2[e.buffptr]
  BY <1>1, <1>2, AppendProperties
<1>9. Stored(new, h2) = [i \in 1 .. EntryCount(new) |-> h2[Ordered(new)[i].buffptr]]
  BY DEF Stored
<1> HIDE DEF new, old, n, E, log, all, S
<1>10. CASE ~buf.full
  <2>1. ~(Len(all) > MaxOps)
    BY <1>1, <1>8, <1>10, MaxOpsAssumption
  <2>2. /\ Len(Ordered(new)) = n + 1
        /\ \A k \in 1 .. n : Ordered(new)[k] = old[k]
        /\ Ordered(new)[n + 1] = e
    BY <1>1, <1>4, <1>6, <1>10, AppendProperties
  <2>3. EntryCount(new) = n + 1
    BY <1>5, <2>2
  <2>4. \A i \in 1 .. n + 1 : h2[Ordered(new)[i].buffptr] = all[i]
    <3> TAKE i \in 1 .. n + 1
    <3>1. CASE i = n + 1
      BY <3>1, <2>2, <1>8
    <3>2. CASE i # n + 1
      <4>1. i \in 1 .. n
        BY <3>2, <1>1
      <4> QED BY <4>1, <2>2, <1>7, <1>8, <1>10
    <3> QED BY <3>1, <3>2
  <2>5. Stored(new, h2) = [i \in 1 .. n + 1 |-> all[i]]
    BY <1>9, <2>3, <2>4
  <2>6. all = [i \in 1 .. n + 1 |-> all[i]]
    BY <1>8, LenProperties
  <2>7. Stored(new, h2) = all
    BY <2>5, <2>6
  <2> QED BY <2>1, <2>7 DEF new, all, log, Recent
<1>11. CASE buf.full
  <2>0. n = MaxOps /\ MaxOps \in Nat \ {0}
    BY <1>1, <1>11, MaxOpsAssumption
  <2>1. Len(all) > MaxOps /\ Len(all) = MaxOps + 1
    BY <1>8, <2>0
  <2>2. old # <<>> /\ all # <<>>
    BY <1>1, <2>0, <2>1
  <2>3. /\ Tail(old) \in Seq(E) /\ Len(Tail(old)) = MaxOps - 1
        /\ \A i \in 1 .. MaxOps - 1 : Tail(old)[i] = old[i + 1]
    BY <1>1, <2>0, <2>2, HeadTailProperties
  <2>4. /\ Tail(all) \in Seq(S) /\ Len(Tail(all)) = MaxOps
        /\ \A i \in 1 .. MaxOps : Tail(all)[i] = all[i + 1]
    <3>1. /\ Tail(all) \in Seq(S) /\ Len(Tail(all)) = Len(all) - 1
          /\ \A i \in 1 .. Len(Tail(all)) : Tail(all)[i] = all[i + 1]
      BY <1>8, <2>2, HeadTailProperties
    <3> QED BY <3>1, <2>0, <2>1
  <2>5. /\ Len(Ordered(new)) = MaxOps
        /\ \A i \in 1 .. MaxOps - 1 : Ordered(new)[i] = old[i + 1]
        /\ Ordered(new)[MaxOps] = e
    <3>1. Ordered(new) = Append(Tail(old), e)
      BY <1>4, <1>11
    <3>2. /\ Len(Append(Tail(old), e)) = (MaxOps - 1) + 1
          /\ \A i \in 1 .. MaxOps - 1 : Append(Tail(old), e)[i] = Tail(old)[i]
          /\ Append(Tail(old), e)[(MaxOps - 1) + 1] = e
      BY <2>0, <2>3, <1>6, AppendProperties
    <3>3. (MaxOps - 1) + 1 = MaxOps
      BY <2>0
    <3> QED BY <3>1, <3>2, <3>3, <2>3
  <2>6. EntryCount(new) = MaxOps
    BY <1>5, <2>5
  <2>7. \A i \in 1 .. MaxOps : h2[Ordered(new)[i].buffptr] = Tail(all)[i]
    <3> TAKE i \in 1 .. MaxOps
    <3>1. CASE i = MaxOps
      BY <3>1, <2>0, <2>4, <2>5, <1>8
    <3>2. CASE i # MaxOps
      <4>1. i \in 1 .. MaxOps - 1 /\ i + 1 \in 1 .. n /\ i + 1 # 1
        BY <3>2, <2>0
      <4>2. h2[old[i + 1].buffptr] = all[i + 1]
        BY <4>1, <1>7, <1>8
      <4> QED BY <4>1, <4>2, <2>4, <2>5
    <3> QED BY <3>1, <3>2
  <2>8. Stored(new, h2) = [i \in 1 .. MaxOps |-> Tail(all)[i]]
    BY <1>9, <2>6, <2>7
  <2>9. Tail(all) = [i \in 1 .. MaxOps |-> Tail(all)[i]]
    BY <2>4, LenProperties
  <2>10. Stored(new, h2) = Tail(all)
    BY <2>8, <2>9
  <2> QED BY <2>1, <2>10 DEF new, all, log, Recent
<1> QED BY <1>10, <1>11

(* The stored commands are the bytes of the entries, as long as these say. *)
LEMMA StoredCommandsAre ==
  ASSUME IInv, SlotsFilled
  PROVE  /\ StoredCommands = Stored(circ_buff, heap)
         /\ StoredCommands \in Seq(Seq(Byte))
         /\ Len(StoredCommands) = EntryCount(circ_buff)
         /\ \A k \in 1 .. EntryCount(circ_buff) :
              /\ Ordered(circ_buff)[k].buffptr \in Blocks
              /\ InBuffer(SlotOf(circ_buff, k), Ordered(circ_buff)[k].buffptr)
              /\ StoredCommands[k] = heap[Ordered(circ_buff)[k].buffptr]
              /\ StoredCommands[k] \in Seq(Byte)
              /\ Len(StoredCommands[k]) = Ordered(circ_buff)[k].size
<1> DEFINE n == EntryCount(circ_buff)
<1>1. circ_buff \in Buffers(Blocks) /\ WellFormed(circ_buff)
  BY DEF IInv, TypeOK
<1>2. \A k \in 1 .. n : /\ SlotOf(circ_buff, k) \in Slots
                        /\ Ordered(circ_buff)[k] = circ_buff.entry[SlotOf(circ_buff, k)]
  BY <1>1, OrderedType
<1>3. ASSUME NEW k \in 1 .. n
      PROVE  circ_buff.entry[SlotOf(circ_buff, k)].buffptr # NULL
  <2>1. CASE circ_buff.full
    BY <1>2, <2>1 DEF SlotsFilled
  <2>2. CASE ~circ_buff.full
    <3>1. circ_buff.out_offs = 0 /\ n = circ_buff.in_offs
          /\ circ_buff.in_offs \in Nat /\ circ_buff.in_offs < MaxOps
      BY <1>1, <2>2, MaxOpsAssumption DEF WellFormed, EntryCount, Buffers, Slots
    <3>2. SlotOf(circ_buff, k) = k - 1
      <4> HIDE DEF n
      <4>1. k \in Nat /\ k - 1 < MaxOps /\ 0 + k - 1 = k - 1
        BY <3>1, MaxOpsAssumption
      <4> QED BY <3>1, <4>1 DEF SlotOf
    <3>3. SlotOf(circ_buff, k) < circ_buff.in_offs
      <4> HIDE DEF n
      <4> QED BY <3>1, <3>2
    <3> QED BY <1>2, <3>3 DEF SlotsFilled
  <2> QED BY <1>1, <2>1, <2>2 DEF Buffers
<1>4. ASSUME NEW k \in 1 .. n
      PROVE  /\ Ordered(circ_buff)[k].buffptr \in Blocks
             /\ InBuffer(SlotOf(circ_buff, k), Ordered(circ_buff)[k].buffptr)
             /\ heap[Ordered(circ_buff)[k].buffptr] \in Seq(Byte)
             /\ Len(heap[Ordered(circ_buff)[k].buffptr]) = Ordered(circ_buff)[k].size
  <2> DEFINE i == SlotOf(circ_buff, k)
             q == circ_buff.entry[i].buffptr
  <2>1. i \in Slots /\ Ordered(circ_buff)[k] = circ_buff.entry[i] /\ q # NULL
    BY <1>2, <1>3
  <2>2. q \in Blocks
    BY <1>1, <2>1 DEF Buffers, Entries
  <2>3. InBuffer(i, q)
    BY DEF InBuffer
  <2>4. heap[q] # NULL
    BY <2>1, <2>2, <2>3 DEF IInv, HeapOwned
  <2>5. Len(heap[q]) = circ_buff.entry[i].size
    BY <2>1 DEF IInv, SizesMatchData
  <2> HIDE DEF i, q
  <2> QED BY <2>1, <2>2, <2>3, <2>4, <2>5, OwnedBytes DEF q, i
<1>5. StoredCommands = Stored(circ_buff, heap)
  BY DEF StoredCommands, Stored
<1>6. /\ Stored(circ_buff, heap) \in Seq(Seq(Byte))
      /\ Len(Stored(circ_buff, heap)) = n
      /\ \A k \in 1 .. n : Stored(circ_buff, heap)[k] = heap[Ordered(circ_buff)[k].buffptr]
  BY <1>1, <1>4, StoredSeq
<1> QED BY <1>4, <1>5, <1>6

(* Where CommandStore says a command starts is where the search looks.     *)
LEMMA StartIs ==
  ASSUME IInv, SlotsFilled
  PROVE  \A k \in 1 .. EntryCount(circ_buff) : Store!Start[k] = StartOf(circ_buff, k)
<1> DEFINE n   == EntryCount(circ_buff)
           log == StoredCommands
           body(g) == [k \in 1 .. Len(log) |-> IF k = 1 THEN 0 ELSE g[k - 1] + Len(log[k - 1])]
           start == Store!Start
<1>1. /\ n \in Nat /\ Len(log) = n
      /\ \A k \in 1 .. n : Len(log[k]) = Ordered(circ_buff)[k].size
  BY CountIsNat, StoredCommandsAre DEF IInv, TypeOK
<1>2. \E g : g = body(g)
  <2> DEFINE size == [i \in 0 .. n |-> Len(log[i + 1])]
  <2>1. PICK g : g = [i \in 0 .. n |-> IF i = 0 THEN 0 ELSE g[i - 1] + size[i - 1]]
    BY <1>1, PrefixSumsExist
  <2> DEFINE h == [k \in 1 .. n |-> g[k - 1]]
  <2>2. ASSUME NEW k \in 1 .. n
        PROVE  h[k] = IF k = 1 THEN 0 ELSE h[k - 1] + Len(log[k - 1])
    <3>1. k - 1 \in 0 .. n /\ h[k] = g[k - 1]
      BY <1>1
    <3>2. g[k - 1] = IF k - 1 = 0 THEN 0 ELSE g[(k - 1) - 1] + size[(k - 1) - 1]
      BY <2>1, <3>1
    <3>3. CASE k = 1
      BY <3>1, <3>2, <3>3
    <3>4. CASE k # 1
      <4>1. k - 1 \in 1 .. n /\ (k - 1) - 1 \in 0 .. n /\ ((k - 1) - 1) + 1 = k - 1 /\ k - 1 # 0
        BY <1>1, <3>4
      <4>2. h[k - 1] = g[(k - 1) - 1] /\ size[(k - 1) - 1] = Len(log[k - 1])
        BY <4>1
      <4> HIDE DEF h, size, log
      <4> QED BY <3>1, <3>2, <3>4, <4>1, <4>2
    <3> QED BY <3>3, <3>4
  <2>3. h = [k \in 1 .. n |-> IF k = 1 THEN 0 ELSE h[k - 1] + Len(log[k - 1])]
    <3> DEFINE val(k) == IF k = 1 THEN 0 ELSE h[k - 1] + Len(log[k - 1])
    <3>1. \A k \in 1 .. n : h[k] = val(k)
      BY <2>2
    <3>2. h = [k \in 1 .. n |-> h[k]]
      OBVIOUS
    <3> HIDE DEF h, val
    <3>3. h = [k \in 1 .. n |-> val(k)]
      BY <3>1, <3>2
    <3> QED BY <3>3 DEF val
  <2>4. h = body(h)
    <3> HIDE DEF h, n, log
    <3> QED BY <1>1, <2>3
  <2> HIDE DEF body, h
  <2> QED BY <2>4
<1>3. start = CHOOSE g : g = body(g)
  BY DEF Store!Start
<1>4. start = body(start)
  <2> HIDE DEF body, start
  <2> QED BY <1>2, <1>3, Zenon
<1>5. \A k \in 1 .. n : start[k] = IF k = 1 THEN 0 ELSE start[k - 1] + Len(log[k - 1])
  <2> HIDE DEF start, log, n
  <2> QED BY <1>1, <1>4
<1>6. /\ StartOf(circ_buff, 1) = 0
      /\ \A k \in 1 .. n : StartOf(circ_buff, k + 1)
                             = StartOf(circ_buff, k) + Ordered(circ_buff)[k].size
  BY StartsByAge DEF IInv, TypeOK
<1> DEFINE Wrong == {k \in 1 .. n : start[k] # StartOf(circ_buff, k)}
<1> HIDE DEF start, log, n, body
<1>7. Wrong = {}
  <2> SUFFICES ASSUME Wrong # {} PROVE FALSE
    OBVIOUS
  <2>1. Wrong \in SUBSET Nat
    BY <1>1
  <2>2. PICK m \in Wrong : \A k \in Wrong : m <= k
    <3> HIDE DEF Wrong
    <3> QED BY <2>1, LeastElement
  <2>3. m # 1
    BY <1>5, <1>6, <2>2
  <2>4. m - 1 \in 1 .. n /\ (m - 1) + 1 = m /\ start[m - 1] = StartOf(circ_buff, m - 1)
    BY <1>1, <2>2, <2>3
  <2>5. start[m] = start[m - 1] + Len(log[m - 1])
    BY <1>5, <2>2, <2>3
  <2>6. StartOf(circ_buff, m) = StartOf(circ_buff, m - 1) + Ordered(circ_buff)[m - 1].size
    BY <1>6, <2>4
  <2>7. Len(log[m - 1]) = Ordered(circ_buff)[m - 1].size
    BY <1>1, <2>4
  <2> QED BY <2>2, <2>4, <2>5, <2>6, <2>7
<1> QED BY <1>7 DEF start, n

(* While a write runs, the unfinished command is in its block.             *)
LEMMA UnfinishedIs ==
  ASSUME IInv
  PROVE  /\ (\A f \in Files : l_ent[f] = NULL) => UnfinishedCommand = PendingBytes
         /\ \A f \in Files : l_ent[f] # NULL => UnfinishedCommand = heap[l_ent[f].buffptr]
<1>1. (\A f \in Files : l_ent[f] = NULL) => UnfinishedCommand = PendingBytes
  BY DEF UnfinishedCommand
<1>2. ASSUME NEW f \in Files, l_ent[f] # NULL
      PROVE  UnfinishedCommand = heap[l_ent[f].buffptr]
  <2> DEFINE g == CHOOSE g \in Files : l_ent[g] # NULL
  <2>1. g \in Files /\ l_ent[g] # NULL
    BY <1>2
  <2>2. Holding(f)
    BY <1>2 DEF IInv, LocalsLive, Holding
  <2>3. g = f
    BY <2>1, <2>2, OnlyHolderWrites
  <2> QED BY <1>2, <2>3 DEF UnfinishedCommand
<1> QED BY <1>1, <1>2

(* Steps that move no bytes are steps of CommandStore about nothing but a  *)
(* position.                                                               *)
LEMMA StoreOther ==
  ASSUME IInv, NEW f \in Files,
         \/ Open(f) \/ Release(f)
         \/ ReadCall(f) \/ WriteCall(f) \/ LseekCall(f) \/ IoctlCall(f) \/ IoctlRefused(f)
         \/ ReadLock(f) \/ WriteLock(f) \/ IoctlLock(f) \/ Interrupted(f)
         \/ ReadNothing(f) \/ WriteNoMemory(f) \/ WriteOops(f)
         \/ LseekStep(f) \/ LseekMove(f) \/ IoctlInvalid(f) \/ IoctlSeek(f)
  PROVE  Store!Other(f)
<1> USE DEF shared, Goto, Proceed, Return, UnlockReturn, Lock
<1>1. UNCHANGED <<circ_buff, g_ent, heap, l_ent>>
  BY DEF Open, Release, ReadCall, WriteCall, LseekCall, IoctlCall, IoctlRefused, ReadLock,
         WriteLock, IoctlLock, Interrupted, ReadNothing, WriteNoMemory, WriteOops,
         LseekStep, LseekMove, IoctlInvalid, IoctlSeek
<1>2. \/ returned' = NULL
      \/ \E value : returned' = [file |-> f, value |-> value, bytes |-> <<>>]
  BY DEF Open, Release, ReadCall, WriteCall, LseekCall, IoctlCall, IoctlRefused, ReadLock,
         WriteLock, IoctlLock, Interrupted, ReadNothing, WriteNoMemory, WriteOops,
         LseekStep, LseekMove, IoctlInvalid, IoctlSeek
<1>3. \E p : f_pos' = [f_pos EXCEPT ![f] = p]
  <2>0. f_pos \in [Files -> Nat]
    BY DEF IInv, TypeOK
  <2>1. CASE f_pos' = f_pos
    <3>1. f_pos' = [f_pos EXCEPT ![f] = f_pos[f]]
      BY <2>0, <2>1
    <3> QED BY <3>1
  <2>2. CASE Open(f) \/ Release(f) \/ LseekMove(f) \/ IoctlSeek(f)
    BY <2>2 DEF Open, Release, LseekMove, IoctlSeek
  <2> QED BY <2>1, <2>2
          DEF ReadCall, WriteCall, LseekCall, IoctlCall, IoctlRefused, ReadLock, WriteLock,
              IoctlLock, Interrupted, ReadNothing, WriteNoMemory, WriteOops, LseekStep,
              IoctlInvalid
<1>4. f_pos \in [Files -> Nat] /\ f_pos' \in [Files -> Nat]
  <2>1. [Next]_vars
    BY DEF Next, Call, Acquire, Continue
  <2> QED BY <2>1, TypeStep DEF IInv, TypeOK
<1>5. f_pos' = [f_pos EXCEPT ![f] = f_pos'[f]] /\ f_pos'[f] \in Nat
  BY <1>3, <1>4
<1>6. StoredCommands' = StoredCommands
  BY <1>1 DEF StoredCommands, Ordered, EntryCount, SlotOf
<1>7. UnfinishedCommand' = UnfinishedCommand
  BY <1>1 DEF UnfinishedCommand, PendingBytes
<1>8. returned' # NULL => returned'.file = f /\ returned'.bytes = <<>>
  BY <1>2
<1> QED BY <1>5, <1>6, <1>7, <1>8 DEF Store!Other

(* Moving the pending data to a new block changes nothing for the users.   *)
LEMMA StoreAlloc ==
  ASSUME IInv, SlotsFilled, NEW f \in Files, WriteAlloc(f)
  PROVE  Store!Other(f)
<1>1. PICK b \in Blocks :
        /\ heap[b] = NULL
        /\ l_ent' = [l_ent EXCEPT ![f] = [buffptr |-> b, size |-> Len(PendingBytes)]]
        /\ heap' = Freed([heap EXCEPT ![b] = PendingBytes], g_ent.buffptr)
        /\ circ_buff' = circ_buff
  BY DEF WriteAlloc
<1>2. /\ heap \in [Blocks -> Seq(Byte) \cup {NULL}]
      /\ l_ent \in [Files -> Entries(Blocks) \cup {NULL}]
      /\ f_pos \in [Files -> Nat] /\ HeapOwned
      /\ g_ent.buffptr \in Blocks \cup {NULL} /\ NULL \notin Blocks
  BY DriverAssumption DEF IInv, TypeOK, Entries
<1>3. \A g \in Files : l_ent[g] = NULL
  <2>1. Holding(f) /\ l_ent[f] = NULL
    BY DEF WriteAlloc, Proceed, Goto, Holding, IInv, LocalsLive
  <2> QED BY <2>1, OnlyHolderWrites
<1>4. g_ent.buffptr # b
  BY <1>1, <1>2 DEF HeapOwned, InPending
<1>5. \A x \in Blocks : heap'[x] = IF x = b THEN PendingBytes
                                   ELSE IF x = g_ent.buffptr THEN NULL ELSE heap[x]
  BY <1>1, <1>2, <1>4 DEF Freed
<1>6. UnfinishedCommand = PendingBytes
  BY <1>3, UnfinishedIs
<1>7. UnfinishedCommand' = PendingBytes
  <2>1. \A g \in Files : l_ent'[g] # NULL <=> g = f
    BY <1>1, <1>2, <1>3, PendingBytesType, DriverAssumption DEF Entries
  <2>2. (CHOOSE g \in Files : l_ent'[g] # NULL) = f
    BY <2>1
  <2>3. l_ent'[f].buffptr = b
    BY <1>1, <1>2
  <2>4. UnfinishedCommand' = heap'[b]
    BY <2>1, <2>2, <2>3 DEF UnfinishedCommand
  <2> QED BY <1>5, <2>4
<1>8. StoredCommands' = StoredCommands
  <2>1. \A k \in 1 .. EntryCount(circ_buff) :
          heap'[Ordered(circ_buff)[k].buffptr] = heap[Ordered(circ_buff)[k].buffptr]
    <3> TAKE k \in 1 .. EntryCount(circ_buff)
    <3> DEFINE q == Ordered(circ_buff)[k].buffptr
               i == SlotOf(circ_buff, k)
    <3>1. q \in Blocks /\ InBuffer(i, q) /\ i \in Slots
      BY StoredCommandsAre, OrderedType DEF IInv, TypeOK
    <3> HIDE DEF q, i
    <3>2. q # b /\ q # g_ent.buffptr
      BY <1>1, <1>2, <3>1 DEF HeapOwned, InPending
    <3>3. heap'[q] = heap[q]
      BY <1>5, <3>1, <3>2
    <3> QED BY <3>3 DEF q
  <2>2. Stored(circ_buff, heap') = Stored(circ_buff, heap)
    BY <2>1 DEF Stored
  <2>3. StoredCommands' = Stored(circ_buff', heap') /\ StoredCommands = Stored(circ_buff, heap)
    BY DEF StoredCommands, Stored
  <2> QED BY <1>1, <2>2, <2>3
<1>9. returned' = NULL /\ f_pos' = f_pos
  BY DEF WriteAlloc, Proceed
<1>10. f_pos' = [f_pos EXCEPT ![f] = f_pos'[f]] /\ f_pos'[f] \in Nat
  BY <1>2, <1>9
<1> QED BY <1>6, <1>7, <1>8, <1>9, <1>10 DEF Store!Other

(* A write that completes appends what it took to the unfinished command,  *)
(* and completes the command when that has a newline.                      *)
LEMMA StoreWrite ==
  ASSUME IInv, SlotsFilled, NEW f \in Files, WriteCopy(f)
  PROVE  Store!Write(f)
<1>1. PICK bytes \in Seq(Byte), p \in Blocks, n \in Nat :
        /\ l_ent[f].buffptr = p /\ heap[p] # NULL
        /\ \A g \in Files : l_ent[g] # NULL <=> g = f
        /\ g_ent.buffptr = NULL
        /\ n = Len(bytes)
        /\ l_ent' = [l_ent EXCEPT ![f] = NULL]
        /\ \/ n > 0 /\ Commit([buffptr |-> p, size |-> n], bytes)
           \/ ~HasNewline(bytes) /\ Keep([buffptr |-> p, size |-> n], bytes)
        /\ f_pos' \in [Files -> Nat]
        /\ returned' \in [file : Files, value : Int, bytes : Seq(Byte)]
        /\ \E d \in Payloads : \E copied \in 0 .. Len(d) :
             /\ bytes = heap[p] \o SubSeq(d, 1, copied)
             /\ returned' = [file |-> f, value |-> copied, bytes |-> <<>>]
             /\ f_pos' = [f_pos EXCEPT ![f] = @ + copied]
  BY WriteCopyData
<1>2. PICK d \in Payloads : \E copied \in 0 .. Len(d) :
        /\ bytes = heap[p] \o SubSeq(d, 1, copied)
        /\ returned' = [file |-> f, value |-> copied, bytes |-> <<>>]
        /\ f_pos' = [f_pos EXCEPT ![f] = @ + copied]
  BY <1>1
<1>3. PICK copied \in 0 .. Len(d) :
        /\ bytes = heap[p] \o SubSeq(d, 1, copied)
        /\ returned' = [file |-> f, value |-> copied, bytes |-> <<>>]
        /\ f_pos' = [f_pos EXCEPT ![f] = @ + copied]
  BY <1>2
<1>4. /\ circ_buff \in Buffers(Blocks) /\ WellFormed(circ_buff)
      /\ heap \in [Blocks -> Seq(Byte) \cup {NULL}]
      /\ l_ent \in [Files -> Entries(Blocks) \cup {NULL}]
      /\ HeapOwned /\ NULL \notin Blocks
  BY DriverAssumption DEF IInv, TypeOK
<1>5. UnfinishedCommand = heap[p]
  BY <1>1, UnfinishedIs
<1>6. \A g \in Files : l_ent'[g] = NULL
  BY <1>1, <1>4
<1>7. UnfinishedCommand' = PendingBytes'
  BY <1>6 DEF UnfinishedCommand
<1>8. \A i \in Slots : ~InBuffer(i, p)
  <2>1. InWrite(f, p)
    BY <1>1 DEF InWrite
  <2> QED BY <2>1, <1>4 DEF HeapOwned
<1>9. \A k \in 1 .. EntryCount(circ_buff) :
        /\ SlotOf(circ_buff, k) \in Slots
        /\ Ordered(circ_buff)[k] = circ_buff.entry[SlotOf(circ_buff, k)]
        /\ Ordered(circ_buff)[k].buffptr \in Blocks
        /\ Ordered(circ_buff)[k].buffptr # p
        /\ heap[Ordered(circ_buff)[k].buffptr] \in Seq(Byte)
  <2> TAKE k \in 1 .. EntryCount(circ_buff)
  <2>1. /\ SlotOf(circ_buff, k) \in Slots
        /\ Ordered(circ_buff)[k] = circ_buff.entry[SlotOf(circ_buff, k)]
    BY <1>4, OrderedType
  <2>2. /\ Ordered(circ_buff)[k].buffptr \in Blocks
        /\ InBuffer(SlotOf(circ_buff, k), Ordered(circ_buff)[k].buffptr)
        /\ heap[Ordered(circ_buff)[k].buffptr] \in Seq(Byte)
    BY StoredCommandsAre
  <2>3. Ordered(circ_buff)[k].buffptr # p
    BY <1>8, <2>1, <2>2
  <2> QED BY <2>1, <2>2, <2>3
<1>10. /\ StoredCommands' = Stored(circ_buff', heap')
       /\ StoredCommands = Stored(circ_buff, heap)
  BY DEF StoredCommands, Stored
<1>11. CASE n > 0 /\ Commit([buffptr |-> p, size |-> n], bytes)
  <2> DEFINE e   == [buffptr |-> p, size |-> n]
             old == Overwritten(circ_buff)
  <2>1. /\ circ_buff' = aesd_circular_buffer_add_entry(circ_buff, e)
        /\ heap' = Freed([heap EXCEPT ![p] = bytes], old)
        /\ g_ent' = g_ent
    BY <1>11 DEF Commit
  <2>2. e \in Entries(Blocks) /\ e.buffptr = p
    BY DEF Entries
  <2>3. /\ old \in Blocks \cup {NULL} /\ old # p
        /\ old # NULL => circ_buff.full /\ InBuffer(circ_buff.in_offs, old)
        /\ circ_buff.in_offs \in Slots
    BY <1>4, <1>8 DEF Overwritten, InBuffer, Buffers, Entries
  <2> HIDE DEF e, old
  <2>4. \A x \in Blocks : heap'[x] = IF x = p THEN bytes ELSE IF x = old THEN NULL ELSE heap[x]
    <3>1. CASE old = NULL
      BY <3>1, <2>1, <1>4 DEF Freed
    <3>2. CASE old \in Blocks
      BY <3>2, <2>1, <2>3, <1>4 DEF Freed
    <3> QED BY <3>1, <3>2, <2>3
  <2>5. ASSUME NEW k \in 1 .. EntryCount(circ_buff), ~circ_buff.full \/ k # 1
        PROVE  heap'[Ordered(circ_buff)[k].buffptr] = heap[Ordered(circ_buff)[k].buffptr]
    <3> DEFINE q == Ordered(circ_buff)[k].buffptr
               i == SlotOf(circ_buff, k)
    <3>1. q \in Blocks /\ q # p /\ i \in Slots /\ InBuffer(i, q)
      BY <1>9 DEF InBuffer
    <3>2. circ_buff.full => i # circ_buff.in_offs
      <4> SUFFICES ASSUME circ_buff.full PROVE i # circ_buff.in_offs
        OBVIOUS
      <4>1. EntryCount(circ_buff) = MaxOps /\ circ_buff.out_offs = circ_buff.in_offs
        BY <1>4 DEF EntryCount, WellFormed
      <4>2. k \in 2 .. MaxOps /\ circ_buff.in_offs \in 0 .. MaxOps - 1
        BY <2>3, <2>5, <4>1, MaxOpsAssumption DEF Slots
      <4> QED BY <4>1, <4>2, MaxOpsAssumption DEF SlotOf
    <3> HIDE DEF q, i
    <3>3. q # old
      BY <1>4, <2>3, <3>1, <3>2 DEF HeapOwned
    <3>4. heap'[q] = heap[q]
      BY <2>4, <3>1, <3>3
    <3> QED BY <3>4 DEF q
  <2>6. heap'[e.buffptr] = bytes /\ bytes \in Seq(Byte)
    BY <2>2, <2>4
  <2>7. StoredCommands' = Recent(Append(StoredCommands, bytes))
    <3>1. HasBytes(circ_buff, heap)
      BY <1>9 DEF HasBytes
    <3>2. KeepsBytes(circ_buff, heap, heap')
      BY <2>5 DEF KeepsBytes
    <3>3. Stored(aesd_circular_buffer_add_entry(circ_buff, e), heap') =
            Recent(Append(Stored(circ_buff, heap), heap'[e.buffptr]))
      BY <1>4, <2>2, <2>6, <3>1, <3>2, StoredAppend
    <3> QED BY <3>3, <2>1, <2>6, <1>10
  <2>8. UnfinishedCommand' = <<>>
    BY <1>1, <1>7, <2>1 DEF PendingBytes
  <2>9. bytes # <<>>
    BY <1>1, <1>11
  <2>10. StoredCommands' = Store!KeepRecent(Append(StoredCommands, bytes))
    BY <2>7 DEF Store!KeepRecent, Recent
  <2> HIDE DEF Store!KeepRecent
  <2> QED BY <1>3, <1>5, <2>8, <2>9, <2>10 DEF Store!Write, Store!Answer
<1>12. CASE ~HasNewline(bytes) /\ Keep([buffptr |-> p, size |-> n], bytes)
  <2>1. /\ circ_buff' = circ_buff
        /\ heap' = [heap EXCEPT ![p] = bytes]
        /\ g_ent' = [buffptr |-> p, size |-> n]
    BY <1>12 DEF Keep
  <2>2. UnfinishedCommand' = bytes
    BY <1>4, <1>7, <2>1 DEF PendingBytes
  <2>3. \A k \in 1 .. EntryCount(circ_buff) :
          heap'[Ordered(circ_buff)[k].buffptr] = heap[Ordered(circ_buff)[k].buffptr]
    BY <1>4, <1>9, <2>1
  <2>4. Stored(circ_buff, heap') = Stored(circ_buff, heap)
    BY <2>3 DEF Stored
  <2>5. StoredCommands' = StoredCommands
    BY <1>10, <2>1, <2>4
  <2>6. ~Store!Complete(bytes)
    BY <1>12 DEF Store!Complete, HasNewline
  <2> QED BY <1>3, <1>5, <2>2, <2>5, <2>6 DEF Store!Write, Store!Answer
<1> QED BY <1>1, <1>11, <1>12

(* A read returns bytes of the command its position is in: what the search *)
(* found before the copy is still what it would find.                      *)
LEMMA StoreRead ==
  ASSUME IInv, PlaceInv, NEW f \in Files, ReadCopy(f)
  PROVE  Store!Read(f)
<1> DEFINE slot   == found[f].slot
           offset == found[f].offset
           ent    == circ_buff.entry[slot]
           pos    == f_pos[f]
           log    == StoredCommands
<1>1. PICK copied \in 0 .. ent.size - offset :
        /\ returned' = [file |-> f, value |-> copied,
                        bytes |-> SubSeq(heap[ent.buffptr], offset + 1, offset + copied)]
        /\ f_pos' = [f_pos EXCEPT ![f] = @ + copied]
  BY DEF ReadCopy, UnlockReturn, Return
<1>2. pc[f] = "read_copy" /\ found[f] # NULL /\ UNCHANGED <<circ_buff, g_ent, heap, l_ent>>
  BY DEF ReadCopy, UnlockReturn, Return, Goto
<1>3. /\ circ_buff \in Buffers(Blocks) /\ WellFormed(circ_buff) /\ SlotsFilled
      /\ pos \in Nat
  BY DEF IInv, TypeOK, PlaceInv
<1>4. found[f] = aesd_circular_buffer_find_entry_offset_for_fpos(circ_buff, pos)
  BY <1>2 DEF PlaceInv, FoundIsCurrent
<1>5. pos < TotalByteCount(circ_buff)[MaxOps]
  BY <1>2, <1>3, <1>4, SearchInRange
<1>6. PICK k \in 1 .. EntryCount(circ_buff) :
        /\ StartOf(circ_buff, k) <= pos
        /\ pos < StartOf(circ_buff, k) + Ordered(circ_buff)[k].size
        /\ found[f] = [slot |-> SlotOf(circ_buff, k), offset |-> pos - StartOf(circ_buff, k)]
  BY <1>3, <1>4, <1>5, SearchByAge
<1>7. ent = Ordered(circ_buff)[k] /\ offset = pos - StartOf(circ_buff, k)
  <2>1. Ordered(circ_buff)[k] = circ_buff.entry[SlotOf(circ_buff, k)]
    BY <1>3, OrderedType
  <2>2. slot = SlotOf(circ_buff, k) /\ offset = pos - StartOf(circ_buff, k)
    BY <1>6
  <2> HIDE DEF slot, offset, pos
  <2> QED BY <2>1, <2>2
<1>8. /\ k \in 1 .. Len(log)
      /\ log[k] = heap[ent.buffptr] /\ log[k] \in Seq(Byte) /\ Len(log[k]) = ent.size
  <2>1. /\ Len(log) = EntryCount(circ_buff)
        /\ log[k] = heap[Ordered(circ_buff)[k].buffptr] /\ log[k] \in Seq(Byte)
        /\ Len(log[k]) = Ordered(circ_buff)[k].size
    BY <1>3, StoredCommandsAre
  <2> HIDE DEF log, ent
  <2> QED BY <2>1, <1>7
<1>9. Store!Start[k] = StartOf(circ_buff, k)
  BY <1>3, StartIs
<1>10. StartOf(circ_buff, k) \in Nat
  <2>1. k \in 1 .. EntryCount(circ_buff) + 1
    BY <1>3, CountIsNat
  <2> QED BY <2>1, <1>3, StartsByAge
<1> DEFINE start == Store!Start[k]
           first == pos - start + 1
<1> HIDE DEF slot, offset, ent, pos, log, start
<1>11. /\ start \in Nat /\ start <= pos /\ pos < start + ent.size /\ offset = pos - start
  BY <1>6, <1>7, <1>9, <1>10 DEF start, pos
<1>12. Len(log[k]) \in Nat
  BY <1>8, LenProperties
<1>13. /\ copied \in 0 .. Len(log[k]) /\ first \in 1 .. Len(log[k])
       /\ first + copied - 1 <= Len(log[k])
       /\ first = offset + 1 /\ first + copied - 1 = offset + copied
  <2>1. Len(log[k]) = ent.size /\ ent.size \in Nat /\ pos \in Nat /\ offset \in Nat
    BY <1>3, <1>8, <1>11, <1>12
  <2>2. copied \in 0 .. ent.size - offset
    BY <1>1, <2>1, <1>11
  <2> QED BY <1>11, <2>1, <2>2
<1>14. returned' = [file |-> f, value |-> copied,
                    bytes |-> SubSeq(log[k], first, first + copied - 1)]
  BY <1>1, <1>8, <1>13
<1>15. StoredCommands' = StoredCommands
  BY <1>2 DEF StoredCommands, Ordered, EntryCount, SlotOf
<1>16. UnfinishedCommand' = UnfinishedCommand
  BY <1>2 DEF UnfinishedCommand, PendingBytes
<1> HIDE DEF first
<1>17. Store!Read(f)
  <2>1. first = f_pos[f] - Store!Start[k] + 1
    BY DEF first, start, pos
  <2> HIDE DEF Store!Start
  <2> QED BY <1>1, <1>8, <1>13, <1>14, <1>15, <1>16, <2>1 DEF Store!Read, Store!Answer, log
<1> QED BY <1>17

(* The driver implements CommandStore, for every number of slots, files,   *)
(* blocks and payloads: every read and write takes effect at one moment,   *)
(* commands stay whole and in order, and a read returns bytes of the       *)
(* command its position is in (aesd_read, aesd_write, aesd_llseek,         *)
(* aesd_ioctl).                                                            *)
THEOREM ImplementsStore == Spec => StoreSpec
<1>1. Init => Store!Init
  <2> SUFFICES ASSUME Init PROVE Store!Init
    OBVIOUS
  <2>1. EntryCount(circ_buff) = 0
    BY DEF Init, EntryCount, aesd_circular_buffer_init
  <2>2. StoredCommands = <<>>
    BY <2>1 DEF StoredCommands
  <2>3. UnfinishedCommand = <<>>
    BY DEF Init, UnfinishedCommand, PendingBytes, NoEntry
  <2> QED BY <2>2, <2>3 DEF Init, Store!Init
<1>2. IInv /\ PlaceInv /\ [Next]_vars => [Store!Next]_(Store!vars)
  <2> SUFFICES ASSUME IInv, PlaceInv, [Next]_vars PROVE [Store!Next]_(Store!vars)
    OBVIOUS
  <2>1. ASSUME NEW f \in Files,
               \/ Open(f) \/ Release(f)
               \/ ReadCall(f) \/ WriteCall(f) \/ LseekCall(f) \/ IoctlCall(f) \/ IoctlRefused(f)
               \/ ReadLock(f) \/ WriteLock(f) \/ IoctlLock(f) \/ Interrupted(f)
               \/ ReadNothing(f) \/ WriteNoMemory(f) \/ WriteOops(f)
               \/ LseekStep(f) \/ LseekMove(f) \/ IoctlInvalid(f) \/ IoctlSeek(f)
        PROVE  Store!Next
    BY <2>1, StoreOther DEF Store!Next
  <2>2. ASSUME NEW f \in Files, WriteAlloc(f) PROVE Store!Next
    BY <2>2, StoreAlloc DEF Store!Next, PlaceInv
  <2>3. ASSUME NEW f \in Files, WriteCopy(f) PROVE Store!Next
    BY <2>3, StoreWrite DEF Store!Next, PlaceInv
  <2>4. ASSUME NEW f \in Files, ReadCopy(f) PROVE Store!Next
    BY <2>4, StoreRead DEF Store!Next
  <2>5. CASE UNCHANGED vars
    <3>1. UNCHANGED <<StoredCommands, UnfinishedCommand, f_pos, returned>>
      BY <2>5 DEF vars, StoredCommands, UnfinishedCommand, PendingBytes, Ordered, EntryCount,
                  SlotOf
    <3> QED BY <3>1 DEF Store!vars
  <2> QED BY <2>1, <2>2, <2>3, <2>4, <2>5, NextCases
<1> QED BY <1>1, <1>2, PlaceInvariant, PTL DEF Spec, StoreSpec, Store!Spec
=============================================================================
