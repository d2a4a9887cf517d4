----------------------------- MODULE MCAesdSocket -----------------------------
(***************************************************************************)
(* The instance of AesdSocket that TLC checks.                             *)
(***************************************************************************)
EXTENDS AesdSocket, TLC

(* Nodes, and with them threads, are interchangeable.                      *)
Symmetry == Permutations(Nodes)
=============================================================================
