------------------------------ MODULE AesdDriver ------------------------------
(***************************************************************************)
(* The character driver /dev/aesdchar, aesd-char-driver/main.c: open files *)
(* that read, write, seek and issue the AESDCHAR_IOCSEEKTO ioctl on one    *)
(* device.  A write without a newline is kept in g_ent and the next write  *)
(* is appended to it; a write that brings a newline moves the whole        *)
(* command into the circular buffer and frees the command it overwrites.   *)
(*                                                                         *)
(* An actor is an open file used by one thread, so its name also stands    *)
(* for the thread in lock.  read, write and ioctl run under the device     *)
(* mutex; llseek does not, and sums the entry sizes one slot at a time.    *)
(* An entry's two fields are changed in one step: llseek adds an entry's   *)
(* size only if its buffptr is set, so a half-written slot counts as the   *)
(* slot before or after the write.                                         *)
(***************************************************************************)
EXTENDS CircularBuffer

CONSTANTS Files,      \* the open files
          Blocks,     \* what kmalloc can return for the bytes of a command
          Byte, NL,   \* the bytes and the newline among them
          Payloads,   \* the data of one write call
          Offsets,    \* the offset argument of lseek
          CmdOffsets, \* the write_cmd_offset of the ioctl
          MaxPos,     \* bound: the file position a write can advance to
          MaxPending  \* bound: the bytes a command or its beginning can have

(* The values of a struct aesd_seekto.                                     *)
SeekTos == [write_cmd : Nat, write_cmd_offset : Nat]

ASSUME DriverAssumption ==
  /\ NULL \notin Files \cup Blocks
  /\ NULL \notin Seq(Byte)
  /\ NULL \notin Entries(Blocks)
  /\ NULL \notin [slot : Slots, offset : Nat] \cup SeekTos
  /\ NL \in Byte
  /\ Payloads \subseteq Seq(Byte)
  /\ Offsets \subseteq Int
  /\ CmdOffsets \subseteq Nat
  /\ MaxPos \in Nat
  /\ MaxPending \in Nat

(* The errors of linux/errno.h that the driver returns.                    *)
EFAULT      == 14
ENOMEM      == 12
EINVAL      == 22
ENOTTY      == 25
ERESTARTSYS == 512

VARIABLES
  circ_buff,  \* dev->circ_buff
  g_ent,      \* *dev->g_ent, the command that still lacks its newline
  lock,       \* dev->lock: the file whose call holds it, or NULL
  heap,       \* the bytes in each allocated block, NULL for a free one
  pc,         \* where each file's call is
  f_pos,      \* filp->f_pos
  l_ent,      \* aesd_write's *l_ent, NULL when there is none
  found,      \* aesd_read's ret_ent and ret_offset, NULL when there is none
  scan,       \* aesd_llseek's index and total_buffer_size
  seekto,     \* aesd_ioctl's seekto, NULL when there is none
  returned    \* what the step returned to its caller, NULL if it ended no call

shared == <<circ_buff, g_ent, lock, heap>>
vars   == <<circ_buff, g_ent, lock, heap, pc, f_pos, l_ent, found, scan, seekto, returned>>

NoScan  == [index |-> 0, total |-> 0]

Init ==
  /\ circ_buff = aesd_circular_buffer_init
  /\ g_ent = NoEntry
  /\ lock = NULL
  /\ heap = [b \in Blocks |-> NULL]
  /\ pc = [f \in Files |-> "closed"]
  /\ f_pos = [f \in Files |-> 0]
  /\ l_ent = [f \in Files |-> NULL]
  /\ found = [f \in Files |-> NULL]
  /\ scan = [f \in Files |-> NoScan]
  /\ seekto = [f \in Files |-> NULL]
  /\ returned = NULL

-----------------------------------------------------------------------------
(* Steps that many calls share.                                            *)

Goto(f, from, to) == pc[f] = from /\ pc' = [pc EXCEPT ![f] = to]

(* A step within a call, or one that begins a call.                        *)
Proceed(f, from, to) == Goto(f, from, to) /\ returned' = NULL

(* A call returns value, and bytes is what it copied to the user.          *)
Return(f, from, value, bytes) ==
  /\ Goto(f, from, "idle")
  /\ returned' = [file |-> f, value |-> value, bytes |-> bytes]

(* Bug: the return of mutex_lock_interruptible is taken for the mutex.     *)
LockAnyway(f, from, to) == Proceed(f, from, to) /\ lock' = f

(* mutex_lock_interruptible when the mutex is free.                        *)
Lock(f, from, to) == Proceed(f, from, to) /\ lock = NULL /\ lock' = f

UnlockReturn(f, from, value, bytes) ==
  Return(f, from, value, bytes) /\ lock' = NULL

(* aesd_open: f_pos of a new struct file is 0, the mutex is not taken.     *)
Open(f) ==
  /\ Proceed(f, "closed", "idle")
  /\ f_pos' = [f_pos EXCEPT ![f] = 0]
  /\ UNCHANGED <<shared, l_ent, found, scan, seekto>>

(* aesd_release; the struct file is gone.                                  *)
Release(f) ==
  /\ Proceed(f, "idle", "closed")
  /\ f_pos' = [f_pos EXCEPT ![f] = 0]
  /\ UNCHANGED <<shared, l_ent, found, scan, seekto>>

(* mutex_lock_interruptible returns an error: a signal arrives while       *)
(* another call holds the mutex.                                           *)
Interrupted(f) ==
  /\ lock # NULL
  /\ pc[f] \in {"read_lock", "write_lock", "ioctl_lock"}
  /\ Return(f, pc[f], -ERESTARTSYS, <<>>)
  /\ seekto' = [seekto EXCEPT ![f] = NULL]
  /\ UNCHANGED <<shared, f_pos, l_ent, found, scan>>

-----------------------------------------------------------------------------
(* aesd_read.                                                              *)

ReadCall(f) ==
  /\ Proceed(f, "idle", "read_lock")
  /\ UNCHANGED <<shared, f_pos, l_ent, found, scan, seekto>>

(* Take the mutex and look up the entry at f_pos.                          *)
ReadLock(f) ==
  /\ Lock(f, "read_lock", "read_copy")
  /\ found' = [found EXCEPT ![f] =
                 aesd_circular_buffer_find_entry_offset_for_fpos(circ_buff, f_pos[f])]
  /\ UNCHANGED <<circ_buff, g_ent, heap, f_pos, l_ent, scan, seekto>>

(* Bug: the return on NULL comes before the mutex_unlock.                  *)
ReadNothingNoUnlock(f) ==
  /\ found[f] = NULL
  /\ Return(f, "read_copy", 0, <<>>)
  /\ UNCHANGED <<shared, f_pos, l_ent, found, scan, seekto>>

(* Bug: wait for data at f_pos with the mutex held.                        *)
ReadNothingWaits(f) ==
  /\ found[f] = NULL
  /\ Proceed(f, "read_copy", "read_copy")
  /\ UNCHANGED <<shared, f_pos, l_ent, found, scan, seekto>>

(* Nothing at f_pos: return 0.                                             *)
ReadNothing(f) ==
  /\ found[f] = NULL
  /\ UnlockReturn(f, "read_copy", 0, <<>>)
  /\ UNCHANGED <<circ_buff, g_ent, heap, f_pos, l_ent, found, scan, seekto>>

(* Copy at most the rest of the entry to the user.  copied is what is left *)
(* of that after count and a copy_to_user that faults midway.              *)
ReadCopy(f) ==
  /\ found[f] # NULL
  /\ LET ret_ent    == circ_buff.entry[found[f].slot]
         ret_offset == found[f].offset
     IN  \E copied \in 0 .. ret_ent.size - ret_offset :
           /\ UnlockReturn(f, "read_copy", copied,
                SubSeq(heap[ret_ent.buffptr], ret_offset + 1, ret_offset + copied))
           /\ f_pos' = [f_pos EXCEPT ![f] = @ + copied]
  /\ found' = [found EXCEPT ![f] = NULL]
  /\ UNCHANGED <<circ_buff, g_ent, heap, l_ent, scan, seekto>>

-----------------------------------------------------------------------------
(* aesd_write.                                                             *)

WriteCall(f) ==
  /\ Proceed(f, "idle", "write_lock")
  /\ UNCHANGED <<shared, f_pos, l_ent, found, scan, seekto>>

WriteLock(f) ==
  /\ Lock(f, "write_lock", "write_alloc")
  /\ UNCHANGED <<circ_buff, g_ent, heap, f_pos, l_ent, found, scan, seekto>>

(* Either kmalloc fails: the pending data stays in g_ent.                  *)
WriteNoMemory(f) ==
  /\ UnlockReturn(f, "write_alloc", -ENOMEM, <<>>)
  /\ UNCHANGED <<circ_buff, g_ent, heap, f_pos, l_ent, found, scan, seekto>>

(* kfree(p), which accepts the null pointer.                               *)
Freed(h, p) == IF p = NULL THEN h ELSE [h EXCEPT ![p] = NULL]

(* The bytes of the pending data.                                          *)
PendingBytes == IF g_ent.buffptr = NULL THEN <<>> ELSE heap[g_ent.buffptr]

(* Bug: g_ent->size keeps counting the data that has moved.                *)
PendingTakenSizeKept == [g_ent EXCEPT !.buffptr = NULL]

(* g_ent once its data has moved to l_ent.                                 *)
PendingTaken == IF g_ent.buffptr = NULL THEN g_ent ELSE NoEntry

(* Allocate block b for the pending data and the new data, copy the        *)
(* pending data there and free the block it was in.                        *)
WriteAlloc(f) == \E b \in Blocks :
  /\ Proceed(f, "write_alloc", "write_copy")
  /\ heap[b] = NULL
  /\ l_ent' = [l_ent EXCEPT ![f] = [buffptr |-> b, size |-> Len(PendingBytes)]]
  /\ heap' = Freed([heap EXCEPT ![b] = PendingBytes], g_ent.buffptr)
  /\ g_ent' = PendingTaken
  /\ UNCHANGED <<circ_buff, lock, f_pos, found, scan, seekto>>

HasNewline(bytes) == \E i \in DOMAIN bytes : bytes[i] = NL

(* Bug: what copy_from_user did not fill is not zeroed either.             *)
StrayNewlineAlways(filled) == BOOLEAN

(* The scan for a newline also looks at the byte behind the data (i <=     *)
(* size), which can hold anything when copy_from_user filled the block to  *)
(* its end, and is 0 when copy_from_user stopped early.                    *)
StrayNewline(filled) == IF filled THEN BOOLEAN ELSE {FALSE}

(* Bug: what aesd_circular_buffer_add_entry returns is not freed.          *)
CommitNoFree(ent, bytes) ==
  /\ circ_buff' = aesd_circular_buffer_add_entry(circ_buff, ent)
  /\ heap' = [heap EXCEPT ![ent.buffptr] = bytes]
  /\ g_ent' = g_ent

(* newline_found: the command moves to the circular buffer and the memory  *)
(* of the command it overwrites is freed.                                  *)
Commit(ent, bytes) ==
  /\ circ_buff' = aesd_circular_buffer_add_entry(circ_buff, ent)
  /\ heap' = Freed([heap EXCEPT ![ent.buffptr] = bytes], Overwritten(circ_buff))
  /\ g_ent' = g_ent

(* No newline: the data waits in g_ent for the next write.                 *)
Keep(ent, bytes) ==
  /\ ent.size <= MaxPending
  /\ g_ent' = ent
  /\ heap' = [heap EXCEPT ![ent.buffptr] = bytes]
  /\ circ_buff' = circ_buff

(* Copy the first copied bytes of d behind the pending data, advance f_pos *)
(* and dispose of the result.  d is what the user wrote, all of it is      *)
(* copied unless copy_from_user faults midway.                             *)
WriteCopy(f) == \E d \in Payloads : \E copied \in 0 .. Len(d) :
  LET bytes == heap[l_ent[f].buffptr] \o SubSeq(d, 1, copied)
      ent   == [l_ent[f] EXCEPT !.size = @ + copied]
  IN  /\ UnlockReturn(f, "write_copy", copied, <<>>)
      /\ l_ent[f].size + Len(d) # 0
      /\ copied = 0 \/ f_pos[f] + copied <= MaxPos
      /\ f_pos' = [f_pos EXCEPT ![f] = @ + copied]
      /\ \E stray \in StrayNewline(copied = Len(d)) :
           \/ (HasNewline(bytes) \/ stray) /\ Commit(ent, bytes)
           \/ ~(HasNewline(bytes) \/ stray) /\ Keep(ent, bytes)
      /\ l_ent' = [l_ent EXCEPT ![f] = NULL]
      /\ UNCHANGED <<found, scan, seekto>>

(* A write of no bytes with nothing pending: kmalloc(0) returns a pointer  *)
(* to no memory, the scan dereferences it, and the kernel kills the thread *)
(* where it stands, mutex and all.                                         *)
WriteOops(f) ==
  /\ <<>> \in Payloads
  /\ Proceed(f, "write_copy", "killed")
  /\ l_ent[f].size = 0
  /\ UNCHANGED <<shared, f_pos, l_ent, found, scan, seekto>>

-----------------------------------------------------------------------------
(* aesd_llseek, which takes no lock.                                       *)

(* What an entry adds to total_buffer_size.                                *)
CountedSize(ent) == IF ent.buffptr = NULL THEN 0 ELSE ent.size

(* The sum of the sizes in the slots before i.                             *)
SizeBefore(buf) == PrefixSums([i \in Slots |-> CountedSize(buf.entry[i])])

TotalSize(buf) == SizeBefore(buf)[MaxOps]

(* fixed_size_llseek of the kernel: the position it asks for, and whether  *)
(* it moves there.  SEEK_CUR by nothing returns f_pos unchecked.           *)
SeekPosition(pos, offset, whence, size) ==
  CASE whence = "SEEK_SET" -> offset
    [] whence = "SEEK_CUR" -> pos + offset
    [] whence = "SEEK_END" -> size + offset

SeekAllowed(pos, offset, whence, size) ==
  \/ SeekPosition(pos, offset, whence, size) \in 0 .. size
  \/ whence = "SEEK_CUR" /\ offset = 0

fixed_size_llseek(pos, offset, whence, size) ==
  IF SeekAllowed(pos, offset, whence, size)
  THEN SeekPosition(pos, offset, whence, size) ELSE -EINVAL

(* f_pos after a seek that returned result.                                *)
Moved(pos, result) == IF result < 0 THEN pos ELSE result

LseekCall(f) ==
  /\ Proceed(f, "idle", "llseek")
  /\ UNCHANGED <<shared, f_pos, l_ent, found, scan, seekto>>

(* Bug: every entry is counted one byte longer.                            *)
LseekStepLong(f) ==
  /\ Proceed(f, "llseek", "llseek")
  /\ scan[f].index < MaxOps
  /\ scan' = [scan EXCEPT ![f] =
       [index |-> @.index + 1,
        total |-> @.total + CountedSize(circ_buff.entry[@.index]) + 1]]
  /\ UNCHANGED <<shared, f_pos, l_ent, found, seekto>>

(* Bug: the index wraps and the loop never ends.                           *)
LseekStepWraps(f) ==
  /\ Proceed(f, "llseek", "llseek")
  /\ scan' = [scan EXCEPT ![f].index = (@ + 1) % MaxOps]
  /\ UNCHANGED <<shared, f_pos, l_ent, found, seekto>>

(* One pass of the loop over the slots.                                    *)
LseekStep(f) ==
  /\ Proceed(f, "llseek", "llseek")
  /\ scan[f].index < MaxOps
  /\ scan' = [scan EXCEPT ![f] =
       [index |-> @.index + 1,
        total |-> @.total + CountedSize(circ_buff.entry[@.index])]]
  /\ UNCHANGED <<shared, f_pos, l_ent, found, seekto>>

(* The call's offset and whence are used here for the first time.          *)
LseekMove(f) ==
  \E offset \in Offsets, whence \in {"SEEK_SET", "SEEK_CUR", "SEEK_END"} :
    LET result == fixed_size_llseek(f_pos[f], offset, whence, scan[f].total)
    IN  /\ scan[f].index = MaxOps
        /\ Return(f, "llseek", result, <<>>)
        /\ f_pos' = [f_pos EXCEPT ![f] = Moved(@, result)]
        /\ scan' = [scan EXCEPT ![f] = NoScan]
        /\ UNCHANGED <<shared, l_ent, found, seekto>>

-----------------------------------------------------------------------------
(* aesd_ioctl and aesd_adjust_file_offset.                                 *)

(* The ioctl returns before the mutex is taken: the wrong command          *)
(* (-ENOTTY), an argument that cannot be read (EFAULT, without the minus   *)
(* of the other errors), or a write_cmd above the number of slots.         *)
IoctlRefused(f) ==
  /\ \E error \in {-ENOTTY, EFAULT, -EINVAL} : Return(f, "idle", error, <<>>)
  /\ UNCHANGED <<shared, f_pos, l_ent, found, scan, seekto>>

(* The check of the command number admits one more than there are slots.   *)
IoctlCall(f) ==
  /\ Proceed(f, "idle", "ioctl_lock")
  /\ \E cmd \in 0 .. MaxOps, offset \in CmdOffsets :
       seekto' = [seekto EXCEPT ![f] = [write_cmd |-> cmd, write_cmd_offset |-> offset]]
  /\ UNCHANGED <<shared, f_pos, l_ent, found, scan>>

IoctlLock(f) ==
  /\ Lock(f, "ioctl_lock", "ioctl_seek")
  /\ UNCHANGED <<circ_buff, g_ent, heap, f_pos, l_ent, found, scan, seekto>>

(* The loop runs in slot order, from slot 0 whatever out_offs is, and gets *)
(* to slot write_cmd unless it meets an empty slot before.                 *)
Reached(buf, cmd) ==
  cmd < MaxOps /\ \A i \in 0 .. cmd - 1 : buf.entry[i].buffptr # NULL

(* The slots the loop adds up: those before write_cmd or the first empty   *)
(* slot.                                                                   *)
StopIndex(buf, cmd) ==
  CHOOSE i \in 0 .. MaxOps :
    /\ \A j \in 0 .. i - 1 : j # cmd /\ buf.entry[j].buffptr # NULL
    /\ i = MaxOps \/ i = cmd \/ buf.entry[i].buffptr = NULL

(* Bug: an offset of the size of the command is taken for valid.           *)
SeekInvalidOffByOne(buf, to) ==
  /\ Reached(buf, to.write_cmd)
  /\ LET ent == buf.entry[to.write_cmd]
     IN  ent.buffptr = NULL \/ to.write_cmd_offset > ent.size

(* The loop ends in -EINVAL: slot write_cmd is empty or too short.         *)
SeekInvalid(buf, to) ==
  /\ Reached(buf, to.write_cmd)
  /\ LET ent == buf.entry[to.write_cmd]
     IN  ent.buffptr = NULL \/ to.write_cmd_offset >= ent.size

(* total_offset after the loop otherwise.                                  *)
TotalOffset(buf, to) ==
  SizeBefore(buf)[StopIndex(buf, to.write_cmd)]
    + IF Reached(buf, to.write_cmd) THEN to.write_cmd_offset ELSE 0

(* Return -EINVAL from within the loop.  There is no mutex_unlock on this  *)
(* path: the mutex stays locked when the call has returned.                *)
IoctlInvalid(f) ==
  /\ Return(f, "ioctl_seek", -EINVAL, <<>>)
  /\ SeekInvalid(circ_buff, seekto[f])
  /\ seekto' = [seekto EXCEPT ![f] = NULL]
  /\ UNCHANGED <<shared, f_pos, l_ent, found, scan>>

(* Seek to total_offset with aesd_llseek and return what that returns; the *)
(* mutex is held, so its loop sees the buffer at one moment.               *)
IoctlSeek(f) ==
  LET offset == TotalOffset(circ_buff, seekto[f])
      result == fixed_size_llseek(f_pos[f], offset, "SEEK_SET", TotalSize(circ_buff))
  IN  /\ UnlockReturn(f, "ioctl_seek", result, <<>>)
      /\ ~SeekInvalid(circ_buff, seekto[f])
      /\ f_pos' = [f_pos EXCEPT ![f] = Moved(@, result)]
      /\ seekto' = [seekto EXCEPT ![f] = NULL]
      /\ UNCHANGED <<circ_buff, g_ent, heap, l_ent, found, scan>>

-----------------------------------------------------------------------------
(* A call that waits for the mutex, and one that holds it and has to get   *)
(* on with it (or is in aesd_llseek).                                      *)
Acquire(f)  == ReadLock(f) \/ WriteLock(f) \/ IoctlLock(f)
Continue(f) ==
  \/ ReadNothing(f) \/ ReadCopy(f)
  \/ WriteNoMemory(f) \/ WriteAlloc(f) \/ WriteCopy(f) \/ WriteOops(f)
  \/ LseekStep(f) \/ LseekMove(f)
  \/ IoctlInvalid(f) \/ IoctlSeek(f)

(* What the user decides.                                                  *)
Call(f) ==
  \/ Open(f) \/ Release(f)
  \/ ReadCall(f) \/ WriteCall(f) \/ LseekCall(f) \/ IoctlCall(f) \/ IoctlRefused(f)

Next == \E f \in Files : Call(f) \/ Acquire(f) \/ Continue(f) \/ Interrupted(f)

Spec == Init /\ [][Next]_vars

(* A thread inside the driver is scheduled again (weak fairness); the      *)
(* mutex is handed to its first waiter, so no waiter is passed over for    *)
(* ever (strong fairness).  Users and signals owe nothing.                 *)
Fairness == \A f \in Files : WF_vars(Continue(f)) /\ SF_vars(Acquire(f))

FairSpec == Spec /\ Fairness

-----------------------------------------------------------------------------
(* What the driver keeps true.                                             *)

(* Where a file's call can be.                                             *)
Places ==
  {"closed", "idle", "read_lock", "read_copy", "write_lock", "write_alloc",
   "write_copy", "killed", "llseek", "ioctl_lock", "ioctl_seek"}

(* Every variable holds values of its C type.                              *)
TypeOK ==
  /\ circ_buff \in Buffers(Blocks)
  /\ g_ent \in Entries(Blocks \cup {NULL})
  /\ lock \in Files \cup {NULL}
  /\ heap \in [Blocks -> Seq(Byte) \cup {NULL}]
  /\ pc \in [Files -> Places]
  /\ f_pos \in [Files -> Nat]
  /\ l_ent \in [Files -> Entries(Blocks) \cup {NULL}]
  /\ found \in [Files -> [slot : Slots, offset : Nat] \cup {NULL}]
  /\ scan \in [Files -> [index : 0 .. MaxOps, total : Nat]]
  /\ seekto \in [Files -> SeekTos \cup {NULL}]
  /\ returned \in [file : Files, value : Int, bytes : Seq(Byte)] \cup {NULL}

(* Where the calls of f hold the mutex.                                    *)
Holding(f) == pc[f] \in {"read_copy", "write_alloc", "write_copy", "killed", "ioctl_seek"}

(* An ioctl of f left the mutex locked when it returned.                   *)
Leaked(f) == lock = f /\ ~Holding(f)

(* The pointers the driver keeps.                                          *)
InBuffer(i, b)  == circ_buff.entry[i].buffptr = b
InPending(b)    == g_ent.buffptr = b
InWrite(f, b)   == l_ent[f] # NULL /\ l_ent[f].buffptr = b

(* Memory is owned once: every allocated block is the memory of exactly    *)
(* one entry of the circular buffer, of g_ent or of a running aesd_write,  *)
(* so nothing leaks, and none of these refers to a freed block or to       *)
(* another's (kmalloc and kfree in aesd_write, with the pointer that       *)
(* aesd_circular_buffer_add_entry hands back).                             *)
HeapOwned == \A b \in Blocks :
  /\ heap[b] # NULL <=> \/ \E i \in Slots : InBuffer(i, b)
                        \/ InPending(b)
                        \/ \E f \in Files : InWrite(f, b)
  /\ \A i, j \in Slots : InBuffer(i, b) /\ InBuffer(j, b) => i = j
  /\ \A f, g \in Files : InWrite(f, b) /\ InWrite(g, b) => f = g
  /\ ~ \E i \in Slots : InBuffer(i, b) /\ (InPending(b) \/ \E f \in Files : InWrite(f, b))
  /\ ~ \E f \in Files : InWrite(f, b) /\ InPending(b)

(* The size an entry records is the number of bytes behind its pointer,    *)
(* for the commands in the buffer, the pending data and the data of a      *)
(* running write (l_ent->size, g_ent->size in aesd_write).                 *)
SizesMatchData ==
  /\ \A i \in Slots : LET e == circ_buff.entry[i] IN
       IF e.buffptr = NULL THEN e.size = 0 ELSE e.size = Len(heap[e.buffptr])
  /\ g_ent.size = Len(PendingBytes)
  /\ \A f \in Files : l_ent[f] # NULL => l_ent[f].size = Len(heap[l_ent[f].buffptr])

(* A command that has its newline never waits in g_ent, and no command in  *)
(* the buffer is empty (the newline scan of aesd_write).                   *)
CommandsMoveOn ==
  /\ ~HasNewline(PendingBytes)
  /\ \A i \in Slots : circ_buff.entry[i].buffptr # NULL => circ_buff.entry[i].size > 0

(* The entry aesd_read found still holds the offset found when the bytes   *)
(* are copied: nothing rewrote the slot between the two, and the unsigned  *)
(* subtraction ret_ent->size - ret_offset does not wrap.                   *)
FoundInRange == \A f \in Files : found[f] # NULL =>
  found[f].offset < circ_buff.entry[found[f].slot].size

(* Before the first wrap, a scan of aesd_llseek, which reads one slot      *)
(* after the other while writers go on, never counts more than the slots   *)
(* it has passed hold now: SEEK_END lands inside the data.                 *)
ScanWithinSize == \A f \in Files :
  ~circ_buff.full => scan[f].total <= SizeBefore(circ_buff)[scan[f].index]

(* A call that took the mutex gives it back in the step that returns,      *)
(* whatever error it returns with, except the ioctl that ends in -EINVAL   *)
(* inside the loop of aesd_adjust_file_offset.                             *)
OnlyInvalidSeekKeepsMutex == [][\A f \in Files :
  Holding(f) /\ ~Holding(f)' => lock = f /\ (lock' = NULL \/ IoctlInvalid(f))]_vars

(* aesd_read says there is nothing to read only past the last byte.        *)
NothingOnlyAtEnd == [][\A f \in Files :
  ReadNothing(f) => f_pos[f] >= TotalSize(circ_buff)]_vars

(* Until the first wrap the slot order of aesd_adjust_file_offset is the   *)
(* order of the commands: a seek that names a byte of a written command    *)
(* puts f_pos where aesd_read finds that byte of that command.  Positions  *)
(* count the newlines, as the table of main.c:375-378 does; its example    *)
(* (main.c:380-382, byte 3 of command 2 at 15) does not agree with the     *)
(* table, by which the command begins at 14.                               *)
SeekExactBeforeWrap == [][\A f \in Files :
  LET to == seekto[f]
  IN  (/\ IoctlSeek(f)
       /\ ~circ_buff.full
       /\ to.write_cmd < circ_buff.in_offs)
      => aesd_circular_buffer_find_entry_offset_for_fpos(circ_buff, f_pos'[f])
           = [slot |-> to.write_cmd, offset |-> to.write_cmd_offset]]_vars

(* The commands in the buffer and the unfinished one, as bytes.            *)
StoredCommands ==
  [i \in 1 .. EntryCount(circ_buff) |-> heap[Ordered(circ_buff)[i].buffptr]]
UnfinishedCommand ==
  IF \E f \in Files : l_ent[f] # NULL
  THEN heap[l_ent[CHOOSE f \in Files : l_ent[f] # NULL].buffptr]
  ELSE PendingBytes

(* The driver implements CommandStore: whatever the interleaving of the    *)
(* calls, every read and write takes effect at one moment, the commands    *)
(* stay whole and in order, and a read returns bytes that are in the store *)
(* at its position (aesd_read, aesd_write, aesd_llseek, aesd_ioctl).       *)
Store == INSTANCE CommandStore
           WITH Clients <- Files, Capacity <- MaxOps, NewLine <- NL, Payload <- Payloads,
                log <- StoredCommands, pending <- UnfinishedCommand, pos <- f_pos
StoreSpec == Store!Spec

-----------------------------------------------------------------------------
(* What the driver's scheduling guarantees.                                *)

(* A call that takes the mutex gives it back, unless it is the ioctl that  *)
(* left it locked or its thread was killed.                                *)
MutexGivenBack == \A f \in Files :
  lock = f ~> lock # f \/ Leaked(f) \/ pc[f] = "killed"

(* Unless the mutex is lost for good, every call returns.                  *)
CallsReturn == \A f \in Files :
  pc[f] \notin {"idle", "closed"} ~>
    pc[f] \in {"idle", "closed"} \/ \E g \in Files : Leaked(g) \/ pc[g] = "killed"
=============================================================================
