----------------------------- MODULE RecentWrites -----------------------------
(***************************************************************************)
(* What a circular buffer of Capacity entries promises, without slots,     *)
(* positions or flags: a log of the most recent entries, oldest first.     *)
(* Writing to a full log drops the oldest entry and hands its memory back. *)
(***************************************************************************)
EXTENDS Naturals, Sequences

CONSTANTS Capacity, Entry, NULL

VARIABLES log,       \* the entries kept, oldest first
          dropped    \* the memory the last write handed back, or NULL

vars == <<log, dropped>>

Init == log = <<>> /\ dropped = NULL

Write(e) ==
  \/ /\ Len(log) < Capacity
     /\ log' = Append(log, e)
     /\ dropped' = NULL
  \/ /\ Len(log) = Capacity
     /\ log' = Append(Tail(log), e)
     /\ dropped' = Head(log).buffptr

Next == \E e \in Entry : Write(e)

Spec == Init /\ [][Next]_vars
=============================================================================
