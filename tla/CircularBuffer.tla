---------------------------- MODULE CircularBuffer ----------------------------
(***************************************************************************)
(* The circular buffer of the character driver,                            *)
(* aesd-char-driver/aesd-circular-buffer.c and .h: the last MaxOps entries *)
(* written, in an array whose slots are reused from the oldest on.  The    *)
(* three functions of the C file are operators here that take the value    *)
(* of a struct aesd_circular_buffer and return its new value or the        *)
(* answer; the callers' modules hold the buffer in a variable.             *)
(*                                                                         *)
(* buffptr is the identity of the memory an entry refers to (or NULL): the *)
(* buffer itself never looks at the bytes behind it.                       *)
(***************************************************************************)
EXTENDS Integers, Sequences

CONSTANTS MaxOps,    \* AESDCHAR_MAX_WRITE_OPERATIONS_SUPPORTED
          NULL       \* the null pointer

ASSUME MaxOpsAssumption == MaxOps \in Nat \ {0}

(* The indexes of the array entry[].                                       *)
Slots == 0 .. MaxOps - 1

(* The value memset leaves in a struct aesd_buffer_entry.                  *)
NoEntry == [buffptr |-> NULL, size |-> 0]

(* The entries a caller can pass whose memory is one of pointers.          *)
Entries(pointers) == [buffptr : pointers, size : Nat]

(* The values of a struct aesd_circular_buffer.                            *)
Buffers(pointers) ==
  [entry    : [Slots -> Entries(pointers \cup {NULL})],
   in_offs  : Slots,
   out_offs : Slots,
   full     : BOOLEAN]

-----------------------------------------------------------------------------
aesd_circular_buffer_init ==
  [entry    |-> [i \in Slots |-> NoEntry],
   in_offs  |-> 0,
   out_offs |-> 0,
   full     |-> FALSE]

(* Bug: the write position runs past the last slot.                        *)
NextInNoWrap(buffer) == buffer.in_offs + 1

(* The write position after one more entry.                                *)
NextIn(buffer) == IF buffer.in_offs = MaxOps - 1 THEN 0 ELSE buffer.in_offs + 1

(* Whether the buffer is full after one more entry: full is never reset.   *)
FullAfter(buffer) == buffer.full \/ buffer.in_offs = MaxOps - 1

(* Bug: out_offs stays behind when the oldest entry is overwritten.        *)
NextOutStuck(buffer) == buffer.out_offs

(* Where the oldest entry is after one more: out_offs moves only when the  *)
(* buffer is full.                                                         *)
NextOut(buffer) ==
  IF FullAfter(buffer) THEN NextIn(buffer) ELSE buffer.out_offs

(* What aesd_circular_buffer_add_entry leaves in the buffer.               *)
aesd_circular_buffer_add_entry(buffer, add_entry) ==
  [entry    |-> [buffer.entry EXCEPT ![buffer.in_offs] = add_entry],
   in_offs  |-> NextIn(buffer),
   out_offs |-> NextOut(buffer),
   full     |-> FullAfter(buffer)]

(* What it returns: the memory of the entry it overwrites, which the       *)
(* caller has to free, or NULL.                                            *)
Overwritten(buffer) ==
  IF buffer.full THEN buffer.entry[buffer.in_offs].buffptr ELSE NULL

-----------------------------------------------------------------------------
(* The search of aesd_circular_buffer_find_entry_offset_for_fpos visits    *)
(* every slot once, from in_offs on: the oldest entry first when the       *)
(* buffer is full, the empty slots first when it is not.                   *)
Visited(buffer, idx) == (idx + buffer.in_offs) % MaxOps

(* The sums of the first 0, 1, ... MaxOps values of size.                  *)
PrefixSums(size) ==
  LET sum[n \in 0 .. MaxOps] == IF n = 0 THEN 0 ELSE sum[n - 1] + size[n - 1]
  IN  sum

(* total_byte_count when the loop reaches its pass idx.                    *)
TotalByteCount(buffer) ==
  PrefixSums([idx \in Slots |-> buffer.entry[Visited(buffer, idx)].size])

(* Bug: the last byte of an entry is not in it.                            *)
HitShort(buffer, char_offset, idx) ==
  LET total    == TotalByteCount(buffer)[idx]
      char_num == char_offset + 1
  IN  /\ total <= char_num
      /\ char_num < total + buffer.entry[Visited(buffer, idx)].size

(* The test of the loop at pass idx.                                       *)
Hit(buffer, char_offset, idx) ==
  LET total    == TotalByteCount(buffer)[idx]
      char_num == char_offset + 1
  IN  /\ total <= char_num
      /\ char_num <= total + buffer.entry[Visited(buffer, idx)].size

Hits(buffer, char_offset) == {idx \in Slots : Hit(buffer, char_offset, idx)}

(* The answer: the slot of the entry and the byte in it, or NULL.          *)
aesd_circular_buffer_find_entry_offset_for_fpos(buffer, char_offset) ==
  IF Hits(buffer, char_offset) = {} THEN NULL
  ELSE LET first == CHOOSE idx \in Hits(buffer, char_offset) :
                      \A other \in Hits(buffer, char_offset) : idx <= other
       IN  [slot   |-> Visited(buffer, first),
            offset |-> char_offset - TotalByteCount(buffer)[first]]

-----------------------------------------------------------------------------
(* How a reader of the code sees the buffer.                               *)

(* How many entries the buffer holds.                                      *)
EntryCount(buffer) ==
  IF buffer.full THEN MaxOps ELSE buffer.in_offs - buffer.out_offs

(* The slot of the i-th oldest entry, i from 1 on.                         *)
SlotOf(buffer, i) ==
  IF buffer.out_offs + i - 1 < MaxOps THEN buffer.out_offs + i - 1
                                      ELSE buffer.out_offs + i - 1 - MaxOps

(* The entries the buffer holds, oldest first.                             *)
Ordered(buffer) ==
  [i \in 1 .. EntryCount(buffer) |-> buffer.entry[SlotOf(buffer, i)]]

(* What every operation keeps true of a buffer: the positions agree with   *)
(* full, and before the first wrap the slots from in_offs on are empty.    *)
WellFormed(buffer) ==
  /\ buffer.full  => buffer.out_offs = buffer.in_offs
  /\ ~buffer.full => /\ buffer.out_offs = 0
                     /\ \A i \in Slots : i >= buffer.in_offs => buffer.entry[i] = NoEntry
=============================================================================
