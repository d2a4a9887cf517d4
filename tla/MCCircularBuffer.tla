-------------------------- MODULE MCCircularBuffer --------------------------
(***************************************************************************)
(* The instance of CircularBufferUse that TLC checks, and the reference    *)
(* definition of the search, which needs the concatenation of the entries. *)
(***************************************************************************)
EXTENDS CircularBufferUse, SequencesExt

MCSizes == 0 .. 2

(* "all buffer strings concatenated end to end": the bytes in the buffer,  *)
(* each one named by its entry's memory and its index there.               *)
Concatenation ==
  LET bytes(e) == [i \in 1 .. e.size |-> [buffptr |-> e.buffptr, index |-> i - 1]]
  IN  FlattenSeq([i \in DOMAIN Ordered(buffer) |-> bytes(Ordered(buffer)[i])])

(* The search, which never builds the concatenation, starts at in_offs     *)
(* whether or not the buffer is full, and compares with <= at both ends,   *)
(* finds the byte that stands at the position in the concatenation of the  *)
(* entries, and finds none exactly when the position is past the end       *)
(* (aesd_circular_buffer_find_entry_offset_for_fpos).                      *)
FindAgreesWithConcatenation ==
  \A pos \in 0 .. Len(Concatenation) + 1 :
    LET found == aesd_circular_buffer_find_entry_offset_for_fpos(buffer, pos)
    IN  IF pos < Len(Concatenation)
        THEN /\ found # NULL
             /\ Concatenation[pos + 1]
                  = [buffptr |-> buffer.entry[found.slot].buffptr, index |-> found.offset]
        ELSE found = NULL
=============================================================================
