-------------------------- MODULE AesdSocketComments --------------------------
(***************************************************************************)
(* What the comments of server/ say of the server and the code does not    *)
(* do.  Each property is checked alone, and TLC finds the behaviour that   *)
(* contradicts it.                                                         *)
(***************************************************************************)
EXTENDS MCAesdSocket

(* The server "Gracefully exits when SIGINT or SIGTERM is received"        *)
(* (utils.c:352), if its clients send and read.  A signal that arrives     *)
(* between the test of caught_signal and the sleep in accept is noticed    *)
(* only when one more client connects.                                     *)
GracefulExit == ClientsAct => (caught_signal ~> ~Alive \/ device = "locked")
=============================================================================
