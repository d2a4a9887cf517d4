----------------------------- MODULE MCAesdSystem -----------------------------
(***************************************************************************)
(* The instance of AesdSystem that TLC checks, and the specification that  *)
(* it implements.                                                          *)
(***************************************************************************)
EXTENDS AesdSystem, TLC

CONSTANTS a, b, s, t    \* bytes

MCTexts == {<<a, NL>>, <<b, a, b, NL>>, <<a>>, <<NUL, NL>>, <<s, NL>>}
MCSeeks == {<<s, NL>>}
MCStamp == <<t, NL>>

Symmetry == Permutations(Clients) \cup Permutations(Majors)

AllOrNothing    == M!AllOrNothing
OpenKeepsModule == M!OpenKeepsModule
NodeIsCurrent   == M!NodeIsCurrent
KnownLosses     == M!KnownLosses

Serving ==
  {c \in Clients : thread[c] \in {"reply", "close"} /\ fd[c] # "failed"}

Served == IF Serving = {} THEN NULL ELSE CHOOSE c \in Serving : TRUE

Answers == [c \in Clients |-> IF thread[c] = "complete" THEN sent[c] ELSE NULL]

Echo == INSTANCE EchoService WITH log <- Stored, serving <- Served, answer <- Answers

EchoSpec == Echo!Spec
=============================================================================
