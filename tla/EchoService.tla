----------------------------- MODULE EchoService -----------------------------
(***************************************************************************)
(* What the server promises its clients: one at a time is served.  Serving *)
(* a client may add something to what is stored; the answer is a run of    *)
(* whole lines of what is stored then, and nothing another client sends    *)
(* gets in between.  There are no threads, descriptors or buffers here.    *)
(***************************************************************************)
EXTENDS Integers, Sequences, SequencesExt

CONSTANTS Clients, NL, Stamp, Capacity, NULL

VARIABLES log,      \* what is stored, in pieces, the oldest first
          serving,  \* the client being served, or NULL
          answer    \* what each client was answered, NULL before that

vars == <<log, serving, answer>>

Init == log = <<>> /\ serving = NULL /\ answer = [c \in Clients |-> NULL]

(* A piece is added; a store with a limit drops its oldest one.            *)
Added(piece) ==
  {Append(log, piece)} \cup
    (IF Len(log) >= Capacity THEN {Tail(Append(log, piece))} ELSE {})

Begin(c) ==
  /\ serving = NULL /\ serving' = c
  /\ \/ log' = log
     \/ Len(log') \in {Len(log), Len(log) + 1} /\ log' \in Added(Last(log'))
  /\ UNCHANGED answer

Lines(reply) == \A i \in DOMAIN reply : Last(reply[i]) = NL

Answer(c) ==
  /\ serving = c /\ serving' = NULL
  /\ \E reply \in {answer'[c]} :
       /\ Lines(reply)
       /\ \E k \in 0 .. Len(FlattenSeq(log)) - Len(FlattenSeq(reply)) :
            FlattenSeq(reply) = SubSeq(FlattenSeq(log), k + 1, k + Len(FlattenSeq(reply)))
       /\ answer' = [answer EXCEPT ![c] = reply]
  /\ UNCHANGED log

(* The store cannot be reached: the client is answered without a line.     *)
Refuse(c) ==
  /\ serving = NULL
  /\ answer' = [answer EXCEPT ![c] = <<>>]
  /\ UNCHANGED <<log, serving>>

(* The client leaves, and may come again.                                  *)
Leave(c) ==
  /\ answer' = [answer EXCEPT ![c] = NULL]
  /\ UNCHANGED <<log, serving>>

(* The store is emptied, while nobody is being served.                     *)
Reset == serving = NULL /\ log' = <<>> /\ UNCHANGED <<serving, answer>>

(* The server itself adds a timestamp.                                     *)
AddStamp ==
  /\ log' = Append(log, Stamp)
  /\ UNCHANGED <<serving, answer>>

Next ==
  \/ \E c \in Clients : Begin(c) \/ Answer(c) \/ Refuse(c) \/ Leave(c)
  \/ Reset \/ AddStamp

Spec == Init /\ [][Next]_vars
=============================================================================
