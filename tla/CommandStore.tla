----------------------------- MODULE CommandStore -----------------------------
(***************************************************************************)
(* What /dev/aesdchar promises its users: the last Capacity commands, in   *)
(* the order they were completed, and the beginning of the next one.       *)
(* Every client has a position in the concatenation of the commands; one   *)
(* read returns bytes of one command, from the position on.  A write is    *)
(* appended to the unfinished command, and a newline always completes it.  *)
(* There is no heap, no slot, no lock and no call in progress here: each   *)
(* read and each write happens at one moment.                              *)
(***************************************************************************)
EXTENDS Integers, Sequences

CONSTANTS Clients, Capacity, NewLine, Payload, NULL

VARIABLES log,      \* the commands kept, oldest first
          pending,  \* the unfinished command
          pos,      \* the position of each client
          returned  \* what the step answered, NULL if it answered nobody

vars == <<log, pending, pos, returned>>

Init ==
  /\ log = <<>>
  /\ pending = <<>>
  /\ pos = [c \in Clients |-> 0]
  /\ returned = NULL

(* The answer to client c: a number, and the bytes of a read.              *)
Answer(c, value, bytes) ==
  returned' = [file |-> c, value |-> value, bytes |-> bytes]

(* Where each command starts in the concatenation.                         *)
Start ==
  LET start[k \in 1 .. Len(log)] ==
        IF k = 1 THEN 0 ELSE start[k - 1] + Len(log[k - 1])
  IN  start

Complete(bytes) == \E i \in DOMAIN bytes : bytes[i] = NewLine

KeepRecent(commands) ==
  IF Len(commands) > Capacity THEN Tail(commands) ELSE commands

(* The first n bytes of the data are taken, and n is the answer.           *)
Write(c) == \E data \in Payload : \E n \in 0 .. Len(data) :
  LET bytes == pending \o SubSeq(data, 1, n)
  IN  /\ Answer(c, n, <<>>)
      /\ pos' = [pos EXCEPT ![c] = @ + n]
      /\ \/ /\ bytes # <<>>
            /\ log' = KeepRecent(Append(log, bytes))
            /\ pending' = <<>>
         \/ /\ ~Complete(bytes)
            /\ pending' = bytes
            /\ log' = log

(* n bytes of command k, the one the position is in.                       *)
Read(c) == \E k \in 1 .. Len(log) : \E n \in 0 .. Len(log[k]) :
  LET first == pos[c] - Start[k] + 1
  IN  /\ first \in 1 .. Len(log[k])
      /\ first + n - 1 <= Len(log[k])
      /\ Answer(c, n, SubSeq(log[k], first, first + n - 1))
      /\ pos' = [pos EXCEPT ![c] = @ + n]
      /\ UNCHANGED <<log, pending>>

(* The client opens or closes the device, starts a call, seeks, or gets an *)
(* answer that carries no bytes; the position is a natural number.         *)
Other(c) ==
  /\ returned' # NULL => returned'.file = c /\ returned'.bytes = <<>>
  /\ pos' = [pos EXCEPT ![c] = pos'[c]] /\ pos'[c] \in Nat
  /\ UNCHANGED <<log, pending>>

Next == \E c \in Clients : Write(c) \/ Read(c) \/ Other(c)

Spec == Init /\ [][Next]_vars
=============================================================================
