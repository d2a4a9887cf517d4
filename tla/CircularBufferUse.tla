-------------------------- MODULE CircularBufferUse --------------------------
(***************************************************************************)
(* A circular buffer and the caller that adds entries to it, one at a time *)
(* (any necessary locking is the caller's: module AesdDriver).             *)
(***************************************************************************)
EXTENDS CircularBuffer

CONSTANTS Pointers,  \* the memory entries can refer to
          Sizes      \* the sizes of entries

ASSUME UseAssumption ==
  /\ NULL \notin Pointers
  /\ NULL \notin [slot : Slots, offset : Nat]
  /\ Sizes \subseteq Nat

VARIABLES buffer,    \* the struct aesd_circular_buffer
          returned   \* what the last aesd_circular_buffer_add_entry returned

vars == <<buffer, returned>>

Init == buffer = aesd_circular_buffer_init /\ returned = NULL

AddEntry(e) ==
  /\ buffer' = aesd_circular_buffer_add_entry(buffer, e)
  /\ returned' = Overwritten(buffer)

Next == \E e \in [buffptr : Pointers, size : Sizes] : AddEntry(e)

Spec == Init /\ [][Next]_vars

-----------------------------------------------------------------------------
(* The buffer is a value of its C type and its positions, flag and empty   *)
(* slots agree (aesd_circular_buffer_add_entry).                           *)
Inv == /\ buffer \in Buffers(Pointers)
       /\ returned \in Pointers \cup {NULL}
       /\ WellFormed(buffer)

(* The buffer implements the log of the most recent writes: entries are    *)
(* kept in order and the oldest is the one overwritten and returned.       *)
Log == INSTANCE RecentWrites
         WITH Capacity <- MaxOps, Entry <- [buffptr : Pointers, size : Sizes],
              log <- Ordered(buffer), dropped <- returned
LogSpec == Log!Spec
=============================================================================
