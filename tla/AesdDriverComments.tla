-------------------------- MODULE AesdDriverComments --------------------------
(***************************************************************************)
(* What the comments of aesd-char-driver/main.c say of the driver and the  *)
(* code does not do.  Each property is checked alone, and TLC finds the    *)
(* behaviour that contradicts it.                                          *)
(***************************************************************************)
EXTENDS MCAesdDriver

(* The ioctl seeks to a byte of the write_cmd-th oldest command: "Add      *)
(* length of each write between the output pointer and write_cmd"          *)
(* (main.c:278).  The loop starts at slot 0 instead, so this fails once    *)
(* the buffer has wrapped.                                                 *)
SeekFindsCommand == [][\A f \in Files :
  LET to   == seekto[f]
      slot == SlotOf(circ_buff, to.write_cmd + 1)
  IN  (/\ IoctlSeek(f)
       /\ to.write_cmd < EntryCount(circ_buff)
       /\ to.write_cmd_offset < circ_buff.entry[slot].size)
      => aesd_circular_buffer_find_entry_offset_for_fpos(circ_buff, f_pos'[f])
           = [slot |-> slot, offset |-> to.write_cmd_offset]]_vars

(* aesd_adjust_file_offset returns, with zero or an error (main.c:266-268).*)
(* After one -EINVAL from within its loop the mutex stays locked, and the  *)
(* next call waits for ever.                                               *)
AdjustReturns == \A f \in Files :
  pc[f] \in {"ioctl_lock", "ioctl_seek"} ~> pc[f] = "idle"

(* Data goes to the circular buffer "if newline found" (main.c:223) and is *)
(* otherwise kept for the next write (main.c:238).  The scan also takes a  *)
(* newline that stands behind the data for one.                            *)
CommandsEndInNewline ==
  \A i \in Slots : LET p == circ_buff.entry[i].buffptr
                   IN  p # NULL => HasNewline(heap[p])
=============================================================================
