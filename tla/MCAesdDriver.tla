----------------------------- MODULE MCAesdDriver -----------------------------
(***************************************************************************)
(* The values TLC gives the constants of AesdDriver.                       *)
(***************************************************************************)
EXTENDS AesdDriver, TLC

CONSTANTS a      \* a byte that is not a newline

MCByte      == {a, NL}
MCPayloads  == {<<a>>, <<NL>>}
MCPayloadsLive == {<<NL>>, <<>>}
MCPayloadsNL == {<<NL>>}
MCOffsets   == {-1, 0, 1}
MCCmdOffsets == {0, 1}

(* A file and its thread are interchangeable with another, and so are the  *)
(* blocks kmalloc returns.                                                 *)
Symmetry == Permutations(Files) \cup Permutations(Blocks)

(* Bounds that keep the runs small: no step is taken from a state in which *)
(* the calls that a run leaves aside are in progress.                      *)
OneLseek == \A f, g \in Files : pc[f] = "llseek" /\ f # g =>
  pc[g] \in {"closed", "idle", "write_lock", "write_alloc", "write_copy"}
LseekAndWrite == \A f \in Files : pc[f] \notin {"read_lock", "ioctl_lock"}

(* What a step depends on: nothing ever reads returned, so two states that *)
(* differ in it only have the same steps.  The steps of CommandStore that  *)
(* StoreSpec allows do not depend on the earlier value of returned either. *)
View == <<shared, pc, f_pos, l_ent, found, scan, seekto>>
=============================================================================
