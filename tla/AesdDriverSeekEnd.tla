-------------------------- MODULE AesdDriverSeekEnd --------------------------
(***************************************************************************)
(* AesdDriver with a history of the sizes the device has during a call of  *)
(* aesd_llseek, to state what SEEK_END is relative to.                     *)
(***************************************************************************)
EXTENDS MCAesdDriver

VARIABLE sizes     \* the sizes of the device since each file's call began

SizeNow(f) == IF pc'[f] = "llseek" THEN {TotalSize(circ_buff')} ELSE {}

InitH == Init /\ sizes = [f \in Files |-> {}]
NextH == Next /\ sizes' = [f \in Files |->
                   SizeNow(f) \cup (IF pc[f] = "llseek" THEN sizes[f] ELSE {})]
SpecH == InitH /\ [][NextH]_<<vars, sizes>>

(* "SEEK_END: The file offset is set to the size of the file plus offset   *)
(* bytes" (main.c:355): the sum aesd_llseek arrives at is a size the       *)
(* device had at some moment of the call.  The loop holds no lock: when a  *)
(* command goes to a slot the loop has passed, and the next one to a slot  *)
(* still ahead, it counts the second without the first.                    *)
SeekEndIsASize == \A f \in Files :
  pc[f] = "llseek" /\ scan[f].index = MaxOps => scan[f].total \in sizes[f]
=============================================================================
