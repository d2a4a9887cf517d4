------------------------------ MODULE AesdSocket ------------------------------
(***************************************************************************)
(* The server, server/aesdsocket.c and server/include/utils.c, built as    *)
(* USE_AESD_CHAR_DEVICE: main accepts connections and starts one thread    *)
(* for each (sock_thread_func), which receives a line, writes it to        *)
(* /dev/aesdchar (or asks the driver to seek), and sends the device's      *)
(* content back.  main keeps the struct sock_thread_data of every thread   *)
(* in a singly linked list, and after each new connection joins and frees  *)
(* the threads whose flags say they are done.                              *)
(*                                                                         *)
(* A node is the memory of one struct sock_thread_data and also names its  *)
(* thread.  The text of lines is left out: of the driver only matters that *)
(* its mutex can be lost (module AesdDriver), after which every read,      *)
(* write and ioctl on an open device waits for ever.                       *)
(***************************************************************************)
EXTENDS Integers, Sequences, SequencesExt

CONSTANTS Nodes,      \* the addresses malloc can return for a node
          MaxSockets, \* how many sockets the process can have open
          NULL,
          Dead        \* a thread the kernel killed, as the holder of fd_mutex

ASSUME SocketAssumption ==
  /\ NULL \notin Nodes /\ Dead \notin Nodes \cup {NULL}
  /\ MaxSockets \in Nat

VARIABLES
  main,          \* where main is
  caught_signal,
  list,          \* head: the nodes, the first one first
  cur,           \* local_sock_thread_data
  allocated,     \* the nodes whose memory is allocated
  thread,        \* where the thread of each node is
  complete,      \* thread_complete of each node
  success,       \* thread_success of each node
  mutex,         \* fd_mutex: the node of the thread that holds it, or NULL
  fd,            \* the descriptor of the device each thread is using
  device,        \* "ok", or "locked" when the driver's mutex is lost
  sockets,       \* how many client sockets are open
  leaked         \* the node allocated for e at DONE and forgotten, or NULL

mainVars   == <<main, caught_signal, list, cur, allocated, sockets>>
threadVars == <<thread, complete, success, mutex, fd, device>>
vars       == <<mainVars, threadVars, leaked>>

Running(n) == thread[n] \notin {"none", "ended", "killed"}

(* The process exists.                                                     *)
Alive == main \notin {"exited", "aborted"}

Init ==
  /\ main = "setup"
  /\ caught_signal = FALSE
  /\ list = <<>> /\ cur = NULL /\ allocated = {}
  /\ thread = [n \in Nodes |-> "none"]
  /\ complete = [n \in Nodes |-> FALSE] /\ success = [n \in Nodes |-> FALSE]
  /\ mutex = NULL
  /\ fd = [n \in Nodes |-> "none"]
  /\ device = "ok"
  /\ sockets = 0
  /\ leaked = NULL

-----------------------------------------------------------------------------
(* main.                                                                   *)

Go(from, to) == main = from /\ main' = to

(* Up to the loop.  A failure returns -1 at once, except that of bind,     *)
(* which goes to DONE before head and local_sock_thread_data are           *)
(* initialised: with what the stack holds the process ends or crashes.     *)
Setup ==
  /\ \/ Go("setup", "check")
     \/ Go("setup", "exited")
     \/ Go("setup", "aborted")
  /\ UNCHANGED <<caught_signal, list, cur, allocated, sockets, threadVars, leaked>>

(* while ( !caught_signal )                                                *)
Check ==
  /\ Go("check", IF caught_signal THEN "done" ELSE "accept")
  /\ UNCHANGED <<caught_signal, list, cur, allocated, sockets, threadVars, leaked>>

(* listen or accept fails, because of too many open files or otherwise.    *)
AcceptFails ==
  /\ Go("accept", "done")
  /\ UNCHANGED <<caught_signal, list, cur, allocated, sockets, threadVars, leaked>>

(* Bug: connections beyond what the process can have open.                 *)
AcceptUnbounded(n) ==
  /\ Go("accept", "scan")
  /\ n \notin allocated
  /\ sockets' = sockets + 1
  /\ allocated' = allocated \cup {n}
  /\ list' = <<n>> \o list
  /\ cur' = n
  /\ thread' = [thread EXCEPT ![n] = "receive"]
  /\ complete' = [complete EXCEPT ![n] = FALSE]
  /\ success' = [success EXCEPT ![n] = FALSE]
  /\ UNCHANGED <<caught_signal, mutex, fd, device, leaked>>

(* A connection: its node goes to the front of the list, its thread        *)
(* starts, and the scan of the list begins.                                *)
Accept(n) ==
  /\ Go("accept", "scan")
  /\ n \notin allocated
  /\ sockets < MaxSockets
  /\ sockets' = sockets + 1
  /\ allocated' = allocated \cup {n}
  /\ list' = <<n>> \o list
  /\ cur' = n
  /\ thread' = [thread EXCEPT ![n] = "receive"]
  /\ complete' = [complete EXCEPT ![n] = FALSE]
  /\ success' = [success EXCEPT ![n] = FALSE]
  /\ UNCHANGED <<caught_signal, mutex, fd, device, leaked>>

(* A connection, but malloc fails.                                         *)
AcceptNoMemory ==
  /\ Go("accept", "done")
  /\ sockets < MaxSockets
  /\ sockets' = sockets + 1
  /\ UNCHANGED <<caught_signal, list, cur, allocated, threadVars, leaked>>

(* A connection, but pthread_create fails: the node is freed, yet it is in *)
(* the list and local_sock_thread_data still points to it.                 *)
AcceptNoThread(n) ==
  /\ Go("accept", "done")
  /\ n \notin allocated
  /\ sockets < MaxSockets
  /\ sockets' = sockets + 1
  /\ list' = <<n>> \o list
  /\ cur' = n
  /\ UNCHANGED <<caught_signal, allocated, threadVars, leaked>>

(* Where n is in the list.                                                 *)
Position(n) == CHOOSE i \in DOMAIN list : list[i] = n

(* nodes.sle_next of n.                                                    *)
Successor(n) ==
  IF Position(n) = Len(list) THEN NULL ELSE list[Position(n) + 1]

(* SLIST_REMOVE.                                                           *)
Removed(n) == RemoveAt(list, Position(n))

(* One pass of SLIST_FOREACH: go on if neither flag is set.                *)
Scan ==
  /\ \/ Go("scan", "check") /\ cur = NULL /\ cur' = NULL
     \/ Go("scan", "scan") /\ cur # NULL /\ ~(success[cur] \/ complete[cur]) /\ cur' = Successor(cur)
     \/ Go("scan", "join") /\ cur # NULL /\ (success[cur] \/ complete[cur]) /\ cur' = cur
  /\ UNCHANGED <<caught_signal, list, allocated, sockets, threadVars, leaked>>

(* Bug: a thread whose flag is set is not waited for.                      *)
JoinNoWait ==
  /\ Go("join", "scan")
  /\ list' = Removed(cur)
  /\ allocated' = allocated \ {cur}
  /\ cur' = Successor(cur)
  /\ UNCHANGED <<caught_signal, sockets, threadVars, leaked>>

(* Bug: the node is freed and stays in the list.                           *)
JoinNoRemove ==
  /\ Go("join", "scan")
  /\ ~Running(cur)
  /\ allocated' = allocated \ {cur}
  /\ cur' = Successor(cur)
  /\ thread' = [thread EXCEPT ![cur] = "none"]
  /\ UNCHANGED <<caught_signal, list, sockets, complete, success, mutex, fd, device, leaked>>

(* pthread_join, SLIST_REMOVE, free.  SLIST_FOREACH then reads sle_next of *)
(* the freed node: free writes to the first 16 bytes of the memory only,   *)
(* so the old pointer is still there.                                      *)
Join ==
  /\ Go("join", "scan")
  /\ ~Running(cur)
  /\ list' = Removed(cur)
  /\ allocated' = allocated \ {cur}
  /\ cur' = Successor(cur)
  /\ thread' = [thread EXCEPT ![cur] = "none"]
  /\ UNCHANGED <<caught_signal, sockets, complete, success, mutex, fd, device, leaked>>

(* free(local_sock_thread_data) at DONE; free finds a second free of the   *)
(* same node and aborts the process.                                       *)
FreeTwice ==
  /\ Go("done", "aborted")
  /\ cur # NULL /\ cur \notin allocated
  /\ UNCHANGED <<caught_signal, list, cur, allocated, sockets, threadVars, leaked>>

(* Bug: return without unwinding the list.                                 *)
DoneNoUnwind ==
  /\ Go("done", "exited")
  /\ cur = NULL \/ cur \in allocated
  /\ allocated' = allocated \ {cur}
  /\ UNCHANGED <<caught_signal, list, cur, sockets, threadVars, leaked>>

(* The same when there was no such free.  If the list is not empty, a node *)
(* is allocated for e, unless malloc fails, and forgotten when e becomes   *)
(* SLIST_FIRST.                                                            *)
Done ==
  /\ Go("done", IF list = <<>> THEN "exited" ELSE "unwind")
  /\ cur = NULL \/ cur \in allocated
  /\ leaked' \in {NULL} \cup (IF list = <<>> THEN {} ELSE Nodes \ (allocated \ {cur}))
  /\ allocated' = (allocated \ {cur}) \cup ({leaked'} \ {NULL})
  /\ UNCHANGED <<caught_signal, list, cur, sockets, threadVars>>

(* Bug: the joined node is not removed from the list.                      *)
UnwindNoRemove ==
  /\ Go("unwind", "unwind")
  /\ list # <<>> /\ ~Running(Head(list))
  /\ allocated' = allocated \ {Head(list)}
  /\ UNCHANGED <<caught_signal, list, cur, sockets, threadVars, leaked>>

(* Join, remove and free the first node.                                   *)
Unwind ==
  /\ Go("unwind", "unwind")
  /\ list # <<>> /\ ~Running(Head(list))
  /\ list' = Tail(list)
  /\ allocated' = allocated \ {Head(list)}
  /\ thread' = [thread EXCEPT ![Head(list)] = "none"]
  /\ UNCHANGED <<caught_signal, cur, sockets, complete, success, mutex, fd, device, leaked>>

(* cleanup_func and return.                                                *)
Exit ==
  /\ Go("unwind", "exited")
  /\ list = <<>>
  /\ UNCHANGED <<caught_signal, list, cur, allocated, sockets, threadVars, leaked>>

(* SIGINT or SIGTERM, handled on the main thread.  There is no SA_RESTART: *)
(* when main sleeps in accept, accept fails with EINTR.  A signal that     *)
(* comes between the test of caught_signal and this sleep only sets the    *)
(* flag.                                                                   *)
Signal ==
  /\ main # "setup" /\ ~caught_signal
  /\ caught_signal' = TRUE
  /\ \/ main' = main
     \/ Go("accept", "done")
  /\ UNCHANGED <<list, cur, allocated, sockets, threadVars, leaked>>

-----------------------------------------------------------------------------
(* sock_thread_func.                                                       *)

Move(n, from, to) == thread[n] = from /\ thread' = [thread EXCEPT ![n] = to]

(* read_until_term on the socket returns a line, which is data for the     *)
(* device or an AESDCHAR_IOCSEEKTO, or NULL: the client closed, an error,  *)
(* or no memory.                                                           *)
Receive(n) ==
  /\ \/ Move(n, "receive", "lock_write")
     \/ Move(n, "receive", "lock_ioctl")
     \/ Move(n, "receive", "complete")
  /\ UNCHANGED <<mainVars, complete, success, mutex, fd, device, leaked>>

(* Bug: success is reported when the session has only begun.               *)
LockEarlySuccess(n) ==
  /\ \/ Move(n, "lock_write", "write")
     \/ Move(n, "lock_ioctl", "ioctl")
  /\ mutex = NULL /\ mutex' = n
  /\ \E result \in {"open", "failed"} : fd' = [fd EXCEPT ![n] = result]
  /\ success' = [success EXCEPT ![n] = TRUE]
  /\ UNCHANGED <<mainVars, complete, device, leaked>>

(* pthread_mutex_lock, and open of the device.                             *)
Lock(n) ==
  /\ \/ Move(n, "lock_write", "write")
     \/ Move(n, "lock_ioctl", "ioctl")
  /\ mutex = NULL /\ mutex' = n
  /\ \E result \in {"open", "failed"} : fd' = [fd EXCEPT ![n] = result]
  /\ UNCHANGED <<mainVars, complete, success, device, leaked>>

(* A read, write or ioctl of thread n would wait for the driver's mutex.   *)
DeviceWaits(n) == fd[n] = "open" /\ device = "locked"

(* writer_func_fd, whether it fails or not, free(line), and lseek.         *)
Write(n) ==
  /\ Move(n, "write", "reply")
  /\ ~DeviceWaits(n)
  /\ UNCHANGED <<mainVars, complete, success, mutex, fd, device, leaked>>

(* A write of no bytes (a line that starts with the null character) kills  *)
(* the thread inside the driver: module AesdDriver, WriteOops.  Both       *)
(* mutexes stay locked.  The descriptor stays open, but nobody uses it.    *)
WriteKilled(n) ==
  /\ Move(n, "write", "killed")
  /\ fd[n] = "open" /\ device = "ok"
  /\ device' = "locked"
  /\ mutex' = Dead
  /\ fd' = [fd EXCEPT ![n] = "none"]
  /\ UNCHANGED <<mainVars, complete, success, leaked>>

(* ioctl: a seek the driver refuses from within its loop costs the         *)
(* driver's mutex.                                                         *)
Ioctl(n) ==
  /\ Move(n, "ioctl", "reply")
  /\ ~DeviceWaits(n)
  /\ device' \in {device} \cup (IF fd[n] = "open" THEN {"locked"} ELSE {})
  /\ UNCHANGED <<mainVars, complete, success, mutex, fd, leaked>>

(* read_until_term on the device returns a line, and send begins.          *)
ReplyLine(n) ==
  /\ Move(n, "reply", "send")
  /\ fd[n] = "open" /\ device = "ok"
  /\ UNCHANGED <<mainVars, complete, success, mutex, fd, device, leaked>>

(* send takes the whole line.  It waits while the socket's buffer is full, *)
(* that is until the client reads, and the thread keeps fd_mutex.          *)
Sent(n) ==
  /\ Move(n, "send", "reply")
  /\ UNCHANGED <<mainVars, complete, success, mutex, fd, device, leaked>>

(* send takes less than the line: the client is gone and SIGPIPE kills the *)
(* process, or else line is freed twice and free aborts it.                *)
SendFails(n) ==
  /\ thread[n] = "send"
  /\ main' = "aborted"
  /\ UNCHANGED <<caught_signal, list, cur, allocated, sockets, threadVars, leaked>>

(* The loop that reads lines from the device and sends them ends: at the   *)
(* end of the data, with an error, or without memory.                      *)
ReplyEnds(n) ==
  /\ Move(n, "reply", "close")
  /\ ~DeviceWaits(n)
  /\ UNCHANGED <<mainVars, complete, success, mutex, fd, device, leaked>>

(* It ends with a last line that lacks its newline.  The log message under *)
(* if ( line != NULL ) is commented out, so the if governs the assignment  *)
(* of thread_success; the line is not sent.                                *)
ReplyEndsPartial(n) ==
  /\ Move(n, "reply", "close")
  /\ fd[n] = "open" /\ device = "ok"
  /\ success' = [success EXCEPT ![n] = TRUE]
  /\ UNCHANGED <<mainVars, complete, mutex, fd, device, leaked>>

(* Bug: the descriptor stays open.                                         *)
UnlockNoClose(n) ==
  /\ Move(n, "close", "succeed")
  /\ mutex' = NULL
  /\ UNCHANGED <<mainVars, complete, success, fd, device, leaked>>

(* Bug: the mutex stays locked.                                            *)
CloseNoUnlock(n) ==
  /\ Move(n, "close", "succeed")
  /\ fd' = [fd EXCEPT ![n] = "none"]
  /\ UNCHANGED <<mainVars, complete, success, mutex, device, leaked>>

(* close and pthread_mutex_unlock.                                         *)
CloseUnlock(n) ==
  /\ Move(n, "close", "succeed")
  /\ fd' = [fd EXCEPT ![n] = "none"]
  /\ mutex' = NULL
  /\ UNCHANGED <<mainVars, complete, success, device, leaked>>

Succeed(n) ==
  /\ Move(n, "succeed", "complete")
  /\ success' = [success EXCEPT ![n] = TRUE]
  /\ UNCHANGED <<mainVars, complete, mutex, fd, device, leaked>>

Complete(n) ==
  /\ Move(n, "complete", "ended")
  /\ complete' = [complete EXCEPT ![n] = TRUE]
  /\ UNCHANGED <<mainVars, success, mutex, fd, device, leaked>>

-----------------------------------------------------------------------------
(* accept takes a descriptor before it waits for a client.                 *)
TooManyFiles == AcceptFails /\ sockets = MaxSockets

(* Steps of main that wait for no client.                                  *)
Main == Setup \/ Check \/ Scan \/ Join \/ FreeTwice \/ Done \/ Unwind \/ Exit

Connect ==
  AcceptFails \/ AcceptNoMemory \/ \E n \in Nodes : Accept(n) \/ AcceptNoThread(n)

(* Steps of a thread that wait for its client.                             *)
Client(n) == Receive(n) \/ Sent(n) \/ SendFails(n)

(* The reply has reached the end of what the device holds.                 *)
EndReply(n) == ReplyEnds(n) \/ ReplyEndsPartial(n)

(* Steps of a thread that wait for no client and no other thread.          *)
Session(n) ==
  \/ Write(n) \/ WriteKilled(n) \/ Ioctl(n)
  \/ ReplyLine(n) \/ EndReply(n)
  \/ CloseUnlock(n) \/ Succeed(n) \/ Complete(n)

Next ==
  /\ Alive
  /\ \/ Main \/ Connect \/ Signal
     \/ \E n \in Nodes : Client(n) \/ Lock(n) \/ Session(n)

Spec == Init /\ [][Next]_vars

(* main and the threads are scheduled again (weak fairness).  A glibc      *)
(* mutex promises no order, but a thread that waits for it as long as      *)
(* others come and go gets it (strong fairness).  A reply whose lines the  *)
(* client takes comes to its end: the holder of fd_mutex is the only       *)
(* session on the device, and each read advances in what it holds (strong  *)
(* fairness, because a send comes between any two lines).  Of the clients, *)
(* which may neither send nor read, nothing is assumed here.               *)
Fairness ==
  /\ WF_vars(Alive /\ (Main \/ TooManyFiles))
  /\ \A n \in Nodes :
       /\ WF_vars(Alive /\ Session(n))
       /\ SF_vars(Alive /\ EndReply(n))
       /\ SF_vars(Alive /\ Lock(n))

FairSpec == Spec /\ Fairness

-----------------------------------------------------------------------------
InList == {list[i] : i \in DOMAIN list}

TypeOK ==
  /\ main \in {"setup", "check", "accept", "scan", "join", "done", "unwind",
               "exited", "aborted"}
  /\ caught_signal \in BOOLEAN
  /\ list \in Seq(Nodes)
  /\ cur \in Nodes \cup {NULL}
  /\ allocated \subseteq Nodes
  /\ thread \in [Nodes -> {"none", "receive", "lock_write", "lock_ioctl", "write", "ioctl",
                           "reply", "send", "close", "succeed", "complete", "ended", "killed"}]
  /\ complete \in [Nodes -> BOOLEAN]
  /\ success \in [Nodes -> BOOLEAN]
  /\ mutex \in Nodes \cup {NULL, Dead}
  /\ fd \in [Nodes -> {"none", "open", "failed"}]
  /\ device \in {"ok", "locked"}
  /\ sockets \in 0 .. MaxSockets
  /\ leaked \in Nodes \cup {NULL}

(* The list holds exactly the allocated nodes, each once, so that none is  *)
(* lost or freed twice, but for the one of e at DONE; only a failed        *)
(* pthread_create breaks this, and the process does not survive it (main). *)
ListOwnsNodes ==
  \/ /\ InList = allocated \ {leaked}
     /\ \A i, j \in DOMAIN list : list[i] = list[j] => i = j
  \/ main \in {"done", "aborted"} /\ cur \in InList \ allocated

(* As long as a thread runs, its node is allocated and in the list: the    *)
(* thread can read and set the fields, and main will join it before it     *)
(* frees them (thread_func_args in sock_thread_func, and main).            *)
ThreadsKeepNodes == \A n \in Nodes : Running(n) => n \in InList \cap allocated

(* When main returns, and with it the process and fd_mutex on its stack    *)
(* end, no thread runs and the node of every thread is freed, whatever     *)
(* made main go to DONE: the one node that is not is that of e.  The mutex *)
(* is held at most by a thread that was killed (main).                     *)
ExitClean == main = "exited" =>
  /\ allocated \subseteq {leaked}
  /\ \A n \in Nodes : ~Running(n)
  /\ mutex \in {NULL, Dead}

(* One session at a time has the device open, that of the holder of        *)
(* fd_mutex: what a client is sent back is not mixed with another session  *)
(* (sock_thread_func).                                                     *)
SessionExclusive == \A n \in Nodes : fd[n] # "none" => mutex = n

(* What the liveness properties ask of the clients: that they read what    *)
(* they are sent, and that they also send their line, or go away.          *)
ClientsRead == \A n \in Nodes : []<>(thread[n] # "send")
ClientsAct  == \A n \in Nodes : []<>(thread[n] \notin {"receive", "send"})

(* If clients read, one whose line was received is served to the end,      *)
(* unless the process ends or the driver's mutex is lost                   *)
(* (sock_thread_func).                                                     *)
SessionsEnd == ClientsRead => \A n \in Nodes :
  thread[n] \in {"lock_write", "lock_ioctl"} ~>
    ~Running(n) \/ ~Alive \/ device = "locked"

(* The scan for completed threads never blocks main for long, whatever     *)
(* clients do: the flags are set only when nothing a thread still has to   *)
(* do can wait, even when the driver hangs (main).                         *)
ScanEnds == main \in {"scan", "join"} ~> main \notin {"scan", "join"}

(* If clients send and read, main gets from DONE to its end, unless the    *)
(* driver's mutex is lost (main).                                          *)
ExitCompletes == ClientsAct => (main = "done" ~> ~Alive \/ device = "locked")
=============================================================================
