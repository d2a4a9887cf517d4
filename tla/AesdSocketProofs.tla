---------------------------- MODULE AesdSocketProofs ----------------------------
(***************************************************************************)
(* What holds of the server's threads and of main's list for every number  *)
(* of connections.  The inductive invariant IInv adds to the properties of *)
(* AesdSocket where local_sock_thread_data can point while main is at each *)
(* place, and that a thread between lock and unlock is the holder.         *)
(***************************************************************************)
EXTENDS AesdSocket, TLAPS, SequenceTheorems

(* The thread of n is between pthread_mutex_lock and pthread_mutex_unlock. *)
InSession(n) == thread[n] \in {"write", "ioctl", "reply", "send", "close"}

(* No node is in the list twice.                                           *)
Distinct == \A i, j \in DOMAIN list : list[i] = list[j] => i = j

(* The node of a failed pthread_create: freed, and still in the list.      *)
Stale == main \in {"done", "aborted"} /\ cur \in InList \ allocated

(* The list has the allocated nodes but that of e, which there is from     *)
(* DONE on, and the stale one if there is one.                             *)
ListHasNodes ==
  /\ Distinct
  /\ InList = IF Stale THEN allocated \cup {cur} ELSE allocated \ {leaked}
  /\ leaked # NULL => main \in {"unwind", "exited", "aborted"} /\ ~Stale
  /\ main \in {"setup", "exited"} => list = <<>>

(* local_sock_thread_data points into the list while the list is scanned   *)
(* and to nothing afterwards, unless it points to the stale node.          *)
CurInList ==
  /\ main = "join" => cur \in InList
  /\ main = "scan" => cur \in InList \cup {NULL}
  /\ main \in {"setup", "check", "accept", "unwind", "exited"} => cur = NULL
  /\ main = "done" => cur = NULL \/ Stale

(* A thread that runs has its memory, and not that of e.                   *)
RunningAllocated == \A n \in Nodes : Running(n) => n \in allocated \ {leaked}

(* fd_mutex is held by the thread that is in its session, and only there   *)
(* the device is open.                                                     *)
MutexHeld == \A n \in Nodes :
  /\ InSession(n) <=> mutex = n
  /\ fd[n] # "none" => InSession(n)

IInv ==
  /\ TypeOK
  /\ ListHasNodes
  /\ CurInList
  /\ RunningAllocated
  /\ MutexHeld

-----------------------------------------------------------------------------
(* The list.                                                               *)

(* A step is one of main's or one of a thread's.                           *)
LEMMA NextCases ==
  ASSUME [Next]_vars
  PROVE  \/ Setup \/ Check \/ AcceptFails \/ AcceptNoMemory \/ Scan \/ Join
         \/ FreeTwice \/ Done \/ Unwind \/ Exit \/ Signal
         \/ \E n \in Nodes :
              \/ Accept(n) \/ AcceptNoThread(n)
              \/ Receive(n) \/ Lock(n) \/ Write(n) \/ WriteKilled(n) \/ Ioctl(n)
              \/ ReplyLine(n) \/ Sent(n) \/ ReplyEnds(n) \/ ReplyEndsPartial(n) \/ SendFails(n)
              \/ CloseUnlock(n) \/ Succeed(n) \/ Complete(n)
         \/ UNCHANGED vars
BY DEF Next, Main, Connect, Client, Session, EndReply

(* Membership in the list, before and after a step.                        *)
LEMMA Members ==
  /\ \A m : m \in InList <=> \E i \in DOMAIN list : list[i] = m
  /\ \A m : m \in InList' <=> \E i \in DOMAIN list' : list'[i] = m
BY Zenon DEF InList

(* SLIST_INSERT_HEAD of a node that is not in the list.                    *)
LEMMA InsertNode ==
  ASSUME list \in Seq(Nodes), Distinct, NEW n \in Nodes \ InList, list' = <<n>> \o list
  PROVE  list' \in Seq(Nodes) /\ Distinct' /\ InList' = InList \cup {n}
<1>1. <<n>> \in Seq(Nodes) /\ Len(<<n>>) = 1
  OBVIOUS
<1>2. Len(list) \in Nat /\ DOMAIN list = 1 .. Len(list)
  BY LenProperties
<1>3. /\ list' \in Seq(Nodes) /\ Len(list') = 1 + Len(list)
      /\ \A i \in 1 .. 1 + Len(list) : list'[i] = IF i <= 1 THEN n ELSE list[i - 1]
  BY <1>1, ConcatProperties
<1>4. DOMAIN list' = 1 .. 1 + Len(list)
  BY <1>3, LenProperties
<1>5. Distinct'
  BY <1>2, <1>3, <1>4 DEF Distinct, InList
<1>6. ASSUME NEW m PROVE m \in InList' <=> m \in InList \cup {n}
  <2>1. \A i \in 1 .. Len(list) : i + 1 \in DOMAIN list' /\ list'[i + 1] = list[i]
    BY <1>2, <1>3, <1>4
  <2>2. 1 \in DOMAIN list' /\ list'[1] = n
    BY <1>2, <1>3, <1>4
  <2>3. \A i \in DOMAIN list' : i # 1 => i - 1 \in DOMAIN list /\ list'[i] = list[i - 1]
    BY <1>2, <1>3, <1>4
  <2>4. (\E i \in DOMAIN list' : list'[i] = m) <=> m = n \/ \E i \in DOMAIN list : list[i] = m
    BY <1>2, <2>1, <2>2, <2>3
  <2> QED BY <2>4, Members
<1> QED BY <1>3, <1>5, <1>6

(* Where a node of the list is.                                            *)
LEMMA PositionOf ==
  ASSUME NEW n \in InList
  PROVE  Position(n) \in DOMAIN list /\ list[Position(n)] = n
BY DEF InList, Position

(* What RemoveAt returns.                                                  *)
LEMMA RemoveAtProperties ==
  ASSUME NEW S, NEW s \in Seq(S), NEW p \in 1 .. Len(s)
  PROVE  /\ RemoveAt(s, p) \in Seq(S)
         /\ Len(RemoveAt(s, p)) = Len(s) - 1
         /\ \A i \in 1 .. Len(s) - 1 : RemoveAt(s, p)[i] = IF i < p THEN s[i] ELSE s[i + 1]
<1> DEFINE front == SubSeq(s, 1, p - 1)
           back  == SubSeq(s, p + 1, Len(s))
<1>1. Len(s) \in Nat /\ p \in Int /\ \A i \in 1 .. Len(s) : s[i] \in S
  BY LenProperties
<1>2. RemoveAt(s, p) = front \o back
  BY DEF RemoveAt
<1>3. /\ front \in Seq(S)
      /\ Len(front) = IF 1 <= p - 1 THEN p - 1 - 1 + 1 ELSE 0
      /\ \A i \in 1 .. p - 1 - 1 + 1 : front[i] = s[1 + i - 1]
  <2>1. 1 \in Int /\ p - 1 \in Int /\ \A i \in 1 .. p - 1 : s[i] \in S
    BY <1>1
  <2> QED BY <2>1, SubSeqProperties
<1>4. /\ back \in Seq(S)
      /\ Len(back) = IF p + 1 <= Len(s) THEN Len(s) - (p + 1) + 1 ELSE 0
      /\ \A i \in 1 .. Len(s) - (p + 1) + 1 : back[i] = s[p + 1 + i - 1]
  <2>1. p + 1 \in Int /\ Len(s) \in Int /\ \A i \in p + 1 .. Len(s) : s[i] \in S
    BY <1>1
  <2> QED BY <2>1, SubSeqProperties
<1> HIDE DEF front, back
<1>5. Len(front) = p - 1 /\ Len(back) = Len(s) - p
  <2>1. Len(front) = IF 1 <= p - 1 THEN p - 1 - 1 + 1 ELSE 0
    BY <1>3
  <2>2. Len(back) = IF p + 1 <= Len(s) THEN Len(s) - (p + 1) + 1 ELSE 0
    BY <1>4
  <2>3. Len(s) \in Int /\ p \in Int /\ 1 <= p /\ p <= Len(s)
    BY <1>1
  <2> HIDE <1>3, <1>4
  <2> QED BY <2>1, <2>2, <2>3
<1>6. /\ front \o back \in Seq(S) /\ Len(front \o back) = (p - 1) + (Len(s) - p)
      /\ \A i \in 1 .. (p - 1) + (Len(s) - p) :
            (front \o back)[i] = IF i <= p - 1 THEN front[i] ELSE back[i - (p - 1)]
  <2>1. /\ front \o back \in Seq(S) /\ Len(front \o back) = Len(front) + Len(back)
        /\ \A i \in 1 .. Len(front) + Len(back) :
              (front \o back)[i] = IF i <= Len(front) THEN front[i] ELSE back[i - Len(front)]
    BY <1>3, <1>4, ConcatProperties
  <2> QED BY ONLY <1>5, <2>1
<1>7. ASSUME NEW i \in 1 .. Len(s) - 1
      PROVE  (front \o back)[i] = IF i < p THEN s[i] ELSE s[i + 1]
  <2>1. CASE i < p
    <3>1. i \in 1 .. p - 1 - 1 + 1 /\ i <= p - 1 /\ 1 + i - 1 = i
      BY <1>1, <2>1
    <3> QED BY <1>1, <1>3, <1>6, <2>1, <3>1
  <2>2. CASE ~(i < p)
    <3>1. /\ i - (p - 1) \in 1 .. Len(s) - (p + 1) + 1 /\ ~(i <= p - 1)
          /\ p + 1 + (i - (p - 1)) - 1 = i + 1
      BY <1>1, <2>2
    <3> QED BY <1>1, <1>4, <1>6, <2>2, <3>1
  <2> QED BY <2>1, <2>2
<1>8. Len(front \o back) = Len(s) - 1
  BY <1>1, <1>6
<1> QED BY ONLY <1>2, <1>6, <1>7, <1>8

(* SLIST_REMOVE takes out one node and leaves the others.                  *)
LEMMA RemoveNode ==
  ASSUME list \in Seq(Nodes), Distinct, NEW n \in InList, list' = Removed(n)
  PROVE  list' \in Seq(Nodes) /\ Distinct' /\ InList' = InList \ {n}
<1> DEFINE p == Position(n)
<1>1. Len(list) \in Nat /\ DOMAIN list = 1 .. Len(list) /\ \A i \in 1 .. Len(list) : list[i] \in Nodes
  BY LenProperties
<1>2. p \in 1 .. Len(list) /\ list[p] = n
  BY <1>1, PositionOf
<1>3. list' = RemoveAt(list, p)
  BY DEF Removed
<1> HIDE DEF p
<1>4. /\ list' \in Seq(Nodes) /\ Len(list') = Len(list) - 1
      /\ \A i \in 1 .. Len(list) - 1 : list'[i] = IF i < p THEN list[i] ELSE list[i + 1]
  BY <1>2, <1>3, RemoveAtProperties
<1>5. DOMAIN list' = 1 .. Len(list) - 1
  BY <1>4, LenProperties
<1>6. Distinct'
  <2> DEFINE old(i) == IF i < p THEN i ELSE i + 1
  <2>1. \A i \in 1 .. Len(list) - 1 : old(i) \in DOMAIN list /\ list'[i] = list[old(i)]
    BY <1>1, <1>2, <1>4
  <2>2. \A i, j \in 1 .. Len(list) - 1 : old(i) = old(j) => i = j
    BY <1>1, <1>2
  <2> HIDE DEF old
  <2> QED BY <1>5, <2>1, <2>2 DEF Distinct
<1>7. ASSUME NEW i \in 1 .. Len(list), i # p
      PROVE  \E k \in DOMAIN list' : list'[k] = list[i]
  <2>1. CASE i < p
    BY <2>1, <1>1, <1>2, <1>4, <1>5
  <2>2. CASE i > p
    <3>1. i - 1 \in 1 .. Len(list) - 1 /\ ~(i - 1 < p)
      BY <2>2, <1>1, <1>2
    <3>2. list'[i - 1] = list[i]
      BY <3>1, <1>1, <1>4
    <3> QED BY <3>1, <3>2, <1>5
  <2> QED BY <2>1, <2>2, <1>1, <1>2, <1>7
<1>8. ASSUME NEW k \in DOMAIN list'
      PROVE  \E i \in 1 .. Len(list) : i # p /\ list'[k] = list[i]
  BY <1>8, <1>1, <1>2, <1>4, <1>5
<1>9. \A i \in 1 .. Len(list) : list[i] = n <=> i = p
  BY <1>1, <1>2 DEF Distinct
<1>10. \A m : m \in InList' <=> \E k \in DOMAIN list' : list'[k] = m
  BY Members
<1>11. \A m : m \in InList <=> \E i \in 1 .. Len(list) : list[i] = m
  BY <1>1, Members
<1> QED BY <1>4, <1>6, <1>7, <1>8, <1>9, <1>10, <1>11

(* The next node of the scan is another one of the list.                   *)
LEMMA SuccessorInList ==
  ASSUME list \in Seq(Nodes), Distinct, NEW n \in InList
  PROVE  Successor(n) \in (InList \ {n}) \cup {NULL}
<1>1. Len(list) \in Nat /\ DOMAIN list = 1 .. Len(list)
  BY LenProperties
<1>2. Position(n) \in 1 .. Len(list) /\ list[Position(n)] = n
  BY <1>1, PositionOf
<1>3. CASE Position(n) # Len(list)
  <2>1. Position(n) + 1 \in 1 .. Len(list)
    BY <1>1, <1>2, <1>3
  <2>2. list[Position(n) + 1] # n
    BY <2>1, <1>1, <1>2 DEF Distinct
  <2> QED BY <2>1, <2>2, <1>1, <1>3 DEF Successor, InList
<1> QED BY <1>3 DEF Successor

(* The loop at DONE takes out the first node.                              *)
LEMMA UnwindNode ==
  ASSUME list \in Seq(Nodes), Distinct, list # <<>>, list' = Tail(list)
  PROVE  /\ Head(list) \in InList
         /\ list' \in Seq(Nodes) /\ Distinct' /\ InList' = InList \ {Head(list)}
<1>1. Len(list) \in Nat \ {0} /\ DOMAIN list = 1 .. Len(list) /\ Head(list) = list[1]
  BY LenProperties, EmptySeq
<1>2. /\ list' \in Seq(Nodes) /\ Len(list') = Len(list) - 1
      /\ \A i \in 1 .. Len(list) - 1 : list'[i] = list[i + 1]
  BY HeadTailProperties
<1>3. DOMAIN list' = 1 .. Len(list) - 1
  BY <1>2, LenProperties
<1>4. Distinct'
  BY <1>1, <1>2, <1>3 DEF Distinct
<1>5. ASSUME NEW m PROVE m \in InList' <=> m \in InList \ {Head(list)}
  <2>1. \A i \in 1 .. Len(list) : i # 1 => i - 1 \in DOMAIN list' /\ list'[i - 1] = list[i]
    BY <1>1, <1>2, <1>3
  <2>2. \A k \in DOMAIN list' : k + 1 \in 1 .. Len(list) /\ k + 1 # 1 /\ list'[k] = list[k + 1]
    BY <1>1, <1>2, <1>3
  <2>3. \A i \in 1 .. Len(list) : list[i] = Head(list) <=> i = 1
    BY <1>1 DEF Distinct
  <2>4. (\E k \in DOMAIN list' : list'[k] = m)
          <=> m # Head(list) /\ \E i \in DOMAIN list : list[i] = m
    <3>1. ASSUME NEW k \in DOMAIN list', list'[k] = m
          PROVE  m # Head(list) /\ \E i \in DOMAIN list : list[i] = m
      <4>1. k + 1 \in 1 .. Len(list) /\ k + 1 # 1 /\ m = list[k + 1]
        BY <2>2, <3>1
      <4> QED BY <1>1, <2>3, <4>1
    <3>2. ASSUME NEW i \in DOMAIN list, list[i] = m, m # Head(list)
          PROVE  \E k \in DOMAIN list' : list'[k] = m
      BY <1>1, <2>1, <2>3, <3>2
    <3> QED BY <3>1, <3>2
  <2> QED BY <2>4, Members
<1>6. Head(list) \in InList
  BY <1>1, Members
<1> QED BY <1>2, <1>4, <1>5, <1>6

-----------------------------------------------------------------------------
(* The inductive invariant.                                                *)

(* The initial states satisfy the invariant.                               *)
LEMMA InitIInv ==
  ASSUME Init
  PROVE  IInv
<1>1. list = <<>> /\ InList = {} /\ list \in Seq(Nodes)
  BY DEF Init, InList
<1>2. TypeOK
  <2>1. sockets \in 0 .. MaxSockets
    BY SocketAssumption DEF Init, SocketAssumption
  <2> QED BY <1>1, <2>1 DEF Init, TypeOK
<1>3. ListHasNodes /\ CurInList
  BY <1>1 DEF Init, ListHasNodes, CurInList, Distinct, Stale
<1>4. RunningAllocated /\ MutexHeld
  BY SocketAssumption DEF SocketAssumption, Init, RunningAllocated, MutexHeld, Running, InSession
<1> QED BY <1>2, <1>3, <1>4 DEF IInv

(* A node malloc returns is not in the list.                               *)
LEMMA FreshNode ==
  ASSUME IInv, main = "accept", NEW n \in Nodes, n \notin allocated
  PROVE  n \in Nodes \ InList
BY DEF IInv, ListHasNodes, Stale

(* Up to DONE every allocated node is that of a thread.                    *)
LEMMA NothingLeaked ==
  ASSUME IInv, main \notin {"unwind", "exited", "aborted"}
  PROVE  leaked = NULL /\ allocated \ {leaked} = allocated
BY SocketAssumption DEF SocketAssumption, IInv, TypeOK, ListHasNodes

(* The node main joins is one of its list.                                 *)
LEMMA JoinedNode ==
  ASSUME IInv, main = "join"
  PROVE  cur \in InList /\ InList = allocated /\ cur \in Nodes /\ InList \subseteq Nodes
BY NothingLeaked DEF IInv, CurInList, ListHasNodes, Stale, TypeOK

(* The steps that leave the list alone, and where main is.                 *)
LEMMA TypeStep ==
  ASSUME IInv, [Next]_vars
  PROVE  TypeOK'
<1> USE DEF IInv, TypeOK
<1>1. CASE \/ Setup \/ Check \/ AcceptFails \/ AcceptNoMemory \/ FreeTwice \/ Exit
           \/ Signal \/ UNCHANGED vars
  <2>1. CASE Setup \/ Check \/ AcceptFails
    BY <2>1 DEF Setup, Check, AcceptFails, Go, threadVars
  <2>2. CASE AcceptNoMemory
    <3>1. sockets' \in 0 .. MaxSockets
      BY <2>2, SocketAssumption DEF SocketAssumption, AcceptNoMemory
    <3> QED BY <2>2, <3>1 DEF AcceptNoMemory, Go, threadVars
  <2>3. CASE FreeTwice \/ Exit
    BY <2>3 DEF FreeTwice, Exit, Go, threadVars
  <2>4. CASE Signal
    BY <2>4 DEF Signal, Go, threadVars
  <2>5. CASE UNCHANGED vars
    BY <2>5 DEF vars, mainVars, threadVars
  <2> QED BY <1>1, <2>1, <2>2, <2>3, <2>4, <2>5
<1>2. CASE Scan
  <2>1. CASE cur = NULL
    BY <1>2, <2>1 DEF Scan, Go, threadVars
  <2>2. CASE cur # NULL
    <3>1. main = "scan" /\ cur \in InList
      BY <1>2, <2>2 DEF Scan, Go, CurInList
    <3>2. Successor(cur) \in (InList \ {cur}) \cup {NULL}
      BY <3>1, SuccessorInList DEF ListHasNodes
    <3>3. InList \subseteq Nodes
      BY <3>1 DEF ListHasNodes, Stale
    <3> QED BY <1>2, <2>2, <3>1, <3>2, <3>3 DEF Scan, Go, threadVars
  <2> QED BY <2>1, <2>2
<1>3. CASE Join
  <2>1. cur \in InList /\ InList \subseteq Nodes /\ cur \in Nodes
    BY <1>3, JoinedNode DEF Join, Go
  <2>2. Successor(cur) \in (InList \ {cur}) \cup {NULL}
    BY <2>1, SuccessorInList DEF ListHasNodes
  <2>3. list' \in Seq(Nodes)
    BY <1>3, <2>1, RemoveNode DEF Join, ListHasNodes
  <2> QED BY <1>3, <2>1, <2>2, <2>3 DEF Join, Go
<1>4. CASE Done
  BY <1>4 DEF Done, Go, threadVars
<1>5. CASE Unwind
  <2>1. list' \in Seq(Nodes)
    BY <1>5, UnwindNode DEF Unwind, ListHasNodes
  <2> QED BY <1>5, <2>1 DEF Unwind, Go
<1>6. ASSUME NEW n \in Nodes, Accept(n) \/ AcceptNoThread(n)
      PROVE  TypeOK'
  <2>1. list' \in Seq(Nodes)
    BY <1>6, FreshNode, InsertNode DEF Accept, AcceptNoThread, Go, ListHasNodes
  <2>2. sockets' \in 0 .. MaxSockets
    BY <1>6, SocketAssumption DEF SocketAssumption, Accept, AcceptNoThread
  <2> QED BY <1>6, <2>1, <2>2 DEF Accept, AcceptNoThread, Go, threadVars
<1>7. ASSUME NEW n \in Nodes,
             Receive(n) \/ Lock(n) \/ Write(n) \/ WriteKilled(n) \/ Ioctl(n)
      PROVE  TypeOK'
  BY <1>7 DEF Receive, Lock, Write, WriteKilled, Ioctl, Move, mainVars
<1>8. ASSUME NEW n \in Nodes,
             \/ ReplyLine(n) \/ Sent(n) \/ ReplyEnds(n) \/ ReplyEndsPartial(n) \/ SendFails(n)
             \/ CloseUnlock(n) \/ Succeed(n) \/ Complete(n)
      PROVE  TypeOK'
  BY <1>8 DEF ReplyLine, Sent, ReplyEnds, ReplyEndsPartial, SendFails, CloseUnlock, Succeed,
              Complete, Move,
              mainVars, threadVars
<1> QED BY <1>1, <1>2, <1>3, <1>4, <1>5, <1>6, <1>7, <1>8, NextCases

(* The list stays what main believes it to be.                             *)
LEMMA ListStep ==
  ASSUME IInv, [Next]_vars
  PROVE  ListHasNodes' /\ CurInList'
<1> USE DEF IInv, ListHasNodes, CurInList, Stale
<1>0. ASSUME UNCHANGED list
      PROVE  InList' = InList /\ Distinct' = Distinct
  BY <1>0 DEF InList, Distinct
<1>1. NULL \notin Nodes /\ allocated \subseteq Nodes /\ InList \subseteq Nodes
  <2>1. \A i \in DOMAIN list : list[i] \in Nodes
    BY LenProperties DEF TypeOK
  <2> QED BY <2>1, SocketAssumption, Members DEF TypeOK, SocketAssumption
<1>2. CASE Setup \/ Check \/ AcceptFails \/ AcceptNoMemory \/ FreeTwice
  <2>1. UNCHANGED <<list, cur, allocated, leaked>>
    BY <1>2 DEF Setup, Check, AcceptFails, AcceptNoMemory, FreeTwice
  <2>2. CASE Setup \/ Check \/ AcceptFails \/ AcceptNoMemory
    <3>1. /\ main \in {"setup", "check", "accept"}
          /\ main' \in {"check", "exited", "aborted", "done", "accept"}
          /\ main' = "exited" => main = "setup"
      BY <2>2 DEF Setup, Check, AcceptFails, AcceptNoMemory, Go
    <3>2. cur = NULL /\ InList = allocated /\ leaked' = NULL /\ allocated \ {NULL} = allocated
      BY <1>1, <2>1, <3>1, NothingLeaked
    <3>3. main' = "exited" => list = <<>>
      BY <3>1
    <3> QED BY <1>0, <1>1, <2>1, <3>1, <3>2, <3>3
  <2>3. CASE FreeTwice
    <3>1. main = "done" /\ main' = "aborted"
      BY <2>3 DEF FreeTwice, Go
    <3> QED BY <1>0, <2>1, <3>1
  <2> QED BY <1>2, <2>2, <2>3
<1>3. CASE Signal
  BY <1>0, <1>1, <1>3 DEF Signal, Go
<1>4. CASE Exit
  BY <1>0, <1>1, <1>4 DEF Exit, Go
<1>5. CASE Scan
  <2>1. cur # NULL => Successor(cur) \in InList \cup {NULL}
    BY <1>5, SuccessorInList DEF Scan, Go, TypeOK
  <2> QED BY <1>0, <1>1, <1>5, <2>1 DEF Scan, Go
<1>6. CASE Join
  <2>1. cur \in InList /\ InList = allocated /\ list \in Seq(Nodes)
    BY <1>6, JoinedNode DEF Join, Go, TypeOK
  <2>2. Successor(cur) \in (InList \ {cur}) \cup {NULL}
    BY <2>1, SuccessorInList
  <2>3. Distinct' /\ InList' = InList \ {cur}
    BY <1>6, <2>1, RemoveNode DEF Join
  <2> QED BY <1>6, <2>1, <2>2, <2>3 DEF Join, Go
<1>7. CASE Done
  <2>1. cur = NULL /\ allocated \ {cur} = allocated
    BY <1>1, <1>7 DEF Done, Go
  <2>2. main = "done" /\ main' = (IF list = <<>> THEN "exited" ELSE "unwind")
    BY <1>7 DEF Done, Go
  <2>3. list' = list /\ cur' = cur
    BY <1>7 DEF Done
  <2>4. main' \in {"exited", "unwind"} /\ (main' = "exited" => list = <<>>)
    BY <2>2
  <2>5. InList = allocated
    BY <1>1, <2>1, <2>2, NothingLeaked
  <2>6. InList' = InList /\ Distinct'
    BY <1>0, <2>3
  <2>7. ~Stale'
    BY <2>4
  <2>8. leaked' \notin allocated /\ allocated' = allocated \cup ({leaked'} \ {NULL})
    BY <1>1, <1>7, <2>1 DEF Done
  <2>9. InList' = allocated' \ {leaked'}
    BY <1>1, <2>5, <2>6, <2>8
  <2>10. ListHasNodes'
    BY <2>3, <2>4, <2>6, <2>7, <2>9
  <2>11. CurInList'
    BY <2>1, <2>3, <2>4
  <2> QED BY <2>10, <2>11
<1>8. CASE Unwind
  <2>1. Head(list) \in InList /\ Distinct' /\ InList' = InList \ {Head(list)}
    BY <1>8, UnwindNode DEF Unwind, TypeOK
  <2> QED BY <1>8, <2>1 DEF Unwind, Go
<1>9. ASSUME NEW n \in Nodes, Accept(n) \/ AcceptNoThread(n)
      PROVE  ListHasNodes' /\ CurInList'
  <2>1. main = "accept" /\ n \notin allocated /\ leaked' = leaked
    BY <1>9 DEF Accept, AcceptNoThread, Go
  <2>2. leaked' = NULL /\ InList = allocated
    BY <1>1, <2>1, NothingLeaked
  <2>3. Distinct' /\ InList' = InList \cup {n}
    BY <1>9, <2>1, FreshNode, InsertNode DEF Accept, AcceptNoThread, TypeOK
  <2>4. CASE Accept(n)
    BY <1>1, <2>2, <2>3, <2>4 DEF Accept, Go
  <2>5. CASE AcceptNoThread(n)
    BY <1>1, <2>1, <2>2, <2>3, <2>5 DEF AcceptNoThread, Go
  <2> QED BY <1>9, <2>4, <2>5
<1>10. ASSUME UNCHANGED <<main, list, cur, allocated, leaked>>
       PROVE  ListHasNodes' /\ CurInList'
  BY <1>0, <1>10
<1>11. ASSUME NEW n \in Nodes,
              \/ Receive(n) \/ Lock(n) \/ Write(n) \/ WriteKilled(n) \/ Ioctl(n)
              \/ ReplyLine(n) \/ Sent(n) \/ ReplyEnds(n) \/ ReplyEndsPartial(n)
              \/ CloseUnlock(n) \/ Succeed(n) \/ Complete(n)
       PROVE  ListHasNodes' /\ CurInList'
  <2>1. UNCHANGED <<main, list, cur, allocated, leaked>>
    BY <1>11 DEF Receive, Lock, Write, WriteKilled, Ioctl, ReplyLine, Sent, ReplyEnds,
                 ReplyEndsPartial, CloseUnlock, Succeed, Complete, mainVars
  <2> QED BY <1>10, <2>1
<1>12. ASSUME NEW n \in Nodes, SendFails(n), Alive
       PROVE  ListHasNodes' /\ CurInList'
  BY <1>0, <1>1, <1>12 DEF SendFails, Alive
<1>13. CASE UNCHANGED vars
  BY <1>10, <1>13 DEF vars, mainVars
<1>14. Next => Alive
  BY DEF Next
<1> QED BY <1>2, <1>3, <1>4, <1>5, <1>6, <1>7, <1>8, <1>9, <1>11, <1>12, <1>13, <1>14, NextCases

(* No thread loses its memory.                                             *)
LEMMA RunningStep ==
  ASSUME IInv, [Next]_vars
  PROVE  RunningAllocated'
<1> USE DEF IInv, RunningAllocated, Running
<1>0. NULL \notin Nodes /\ thread \in [Nodes -> {"none", "receive", "lock_write", "lock_ioctl",
        "write", "ioctl", "reply", "send", "close", "succeed", "complete", "ended", "killed"}]
  BY SocketAssumption DEF TypeOK, SocketAssumption
<1>1. CASE \/ Setup \/ Check \/ AcceptFails \/ AcceptNoMemory \/ Scan \/ FreeTwice \/ Exit
           \/ Signal \/ UNCHANGED vars
  <2>1. UNCHANGED <<thread, allocated, leaked>>
    BY <1>1 DEF Setup, Check, AcceptFails, AcceptNoMemory, Scan, FreeTwice, Exit, Signal, vars,
                mainVars, threadVars
  <2> QED BY <2>1
<1>2. CASE Join
  BY <1>0, <1>2 DEF Join
<1>3. CASE Done
  <2>1. cur = NULL
    BY <1>3 DEF Done, Go, CurInList, Stale
  <2>2. leaked' \notin allocated /\ allocated \subseteq allocated' /\ thread' = thread
    BY <1>0, <1>3, <2>1 DEF Done, threadVars, TypeOK
  <2> QED BY <2>2
<1>4. CASE Unwind
  BY <1>0, <1>4 DEF Unwind
<1>5. ASSUME NEW n \in Nodes, Accept(n) \/ AcceptNoThread(n)
      PROVE  RunningAllocated'
  <2>1. leaked' = NULL
    BY <1>5, NothingLeaked DEF Accept, AcceptNoThread, Go
  <2> QED BY <1>0, <1>5, <2>1 DEF Accept, AcceptNoThread, threadVars
<1>6. ASSUME NEW n \in Nodes,
             \/ Receive(n) \/ Lock(n) \/ Write(n) \/ WriteKilled(n) \/ Ioctl(n)
             \/ ReplyLine(n) \/ Sent(n) \/ ReplyEnds(n) \/ ReplyEndsPartial(n) \/ SendFails(n)
             \/ CloseUnlock(n) \/ Succeed(n) \/ Complete(n)
      PROVE  RunningAllocated'
  <2>1. allocated' = allocated /\ leaked' = leaked
    BY <1>6 DEF Receive, Lock, Write, WriteKilled, Ioctl, ReplyLine, Sent, ReplyEnds,
                ReplyEndsPartial, SendFails, CloseUnlock, Succeed, Complete, mainVars
  <2>2. Running(n)
    BY <1>6 DEF Receive, Lock, Write, WriteKilled, Ioctl, ReplyLine, Sent, ReplyEnds,
                ReplyEndsPartial, SendFails, CloseUnlock, Succeed, Complete, Move
  <2>3. \A m \in Nodes : m # n => thread'[m] = thread[m]
    BY <1>0, <1>6 DEF Receive, Lock, Write, WriteKilled, Ioctl, ReplyLine, Sent, ReplyEnds,
                      ReplyEndsPartial, SendFails, CloseUnlock, Succeed, Complete, threadVars,
                      Move
  <2> QED BY <2>1, <2>2, <2>3
<1> QED BY <1>1, <1>2, <1>3, <1>4, <1>5, <1>6, NextCases

(* Only the holder of fd_mutex gets past the lock.                         *)
LEMMA MutexStep ==
  ASSUME IInv, [Next]_vars
  PROVE  MutexHeld'
<1> USE DEF IInv, MutexHeld, InSession
<1>0. /\ NULL \notin Nodes /\ Dead \notin Nodes
      /\ fd \in [Nodes -> {"none", "open", "failed"}]
      /\ thread \in [Nodes -> {"none", "receive", "lock_write", "lock_ioctl",
           "write", "ioctl", "reply", "send", "close", "succeed", "complete", "ended", "killed"}]
  BY SocketAssumption DEF TypeOK, SocketAssumption
<1>1. CASE \/ Setup \/ Check \/ AcceptFails \/ AcceptNoMemory \/ Scan \/ FreeTwice \/ Done
           \/ Exit \/ Signal \/ UNCHANGED vars
  <2>1. UNCHANGED threadVars
    BY <1>1 DEF Setup, Check, AcceptFails, AcceptNoMemory, Scan, FreeTwice, Done, Exit, Signal,
                vars
  <2> QED BY <2>1 DEF threadVars
<1>2. ASSUME NEW n \in Nodes, ~InSession(n), UNCHANGED <<mutex, fd>>,
             NEW to, to \notin {"write", "ioctl", "reply", "send", "close"},
             thread' = [thread EXCEPT ![n] = to]
      PROVE  MutexHeld'
  <2> SUFFICES ASSUME NEW m \in Nodes
               PROVE  (InSession(m)' <=> mutex' = m) /\ (fd'[m] # "none" => InSession(m)')
    OBVIOUS
  <2>1. CASE m = n
    BY <1>0, <1>2, <2>1
  <2>2. CASE m # n
    BY <1>0, <1>2, <2>2
  <2> QED BY <2>1, <2>2
<1>3. CASE Join
  BY <1>0, <1>2, <1>3, JoinedNode DEF Join, Go, Running
<1>4. CASE Unwind
  <2>1. Head(list) \in Nodes
    BY <1>4, HeadTailProperties DEF Unwind, TypeOK
  <2> QED BY <1>0, <1>2, <1>4, <2>1 DEF Unwind, Running
<1>5. ASSUME NEW n \in Nodes, Accept(n) \/ AcceptNoThread(n)
      PROVE  MutexHeld'
  <2>1. CASE Accept(n)
    <3>1. ~InSession(n)
      BY <2>1 DEF Accept, RunningAllocated, Running
    <3> QED BY <1>2, <2>1, <3>1 DEF Accept
  <2>2. CASE AcceptNoThread(n)
    BY <2>2 DEF AcceptNoThread, threadVars
  <2> QED BY <1>5, <2>1, <2>2
<1>6. ASSUME NEW n \in Nodes, Receive(n) \/ Succeed(n) \/ Complete(n)
      PROVE  MutexHeld'
  BY <1>0, <1>6 DEF Receive, Succeed, Complete, Move
<1>7. ASSUME NEW n \in Nodes, Lock(n)
      PROVE  MutexHeld'
  BY <1>0, <1>7 DEF Lock, Move
<1>8. ASSUME NEW n \in Nodes,
             \/ Write(n) \/ Ioctl(n) \/ ReplyLine(n) \/ Sent(n)
             \/ ReplyEnds(n) \/ ReplyEndsPartial(n) \/ SendFails(n)
      PROVE  MutexHeld'
  BY <1>0, <1>8
     DEF Write, Ioctl, ReplyLine, Sent, ReplyEnds, ReplyEndsPartial, SendFails, Move, threadVars
<1>9. ASSUME NEW n \in Nodes, WriteKilled(n) \/ CloseUnlock(n)
      PROVE  MutexHeld'
  BY <1>0, <1>9 DEF WriteKilled, CloseUnlock, Move
<1> QED BY <1>1, <1>3, <1>4, <1>5, <1>6, <1>7, <1>8, <1>9, NextCases

-----------------------------------------------------------------------------
(* The theorems.                                                           *)

(* The invariant holds in every state.                                     *)
THEOREM ServerInvariant == Spec => []IInv
<1>1. Init => IInv
  BY InitIInv
<1>2. IInv /\ [Next]_vars => IInv'
  BY TypeStep, ListStep, RunningStep, MutexStep DEF IInv
<1> QED BY <1>1, <1>2, PTL DEF Spec

(* Every variable keeps its type.                                          *)
THEOREM TypeCorrect == Spec => []TypeOK
<1>1. IInv => TypeOK
  BY DEF IInv
<1> QED BY <1>1, ServerInvariant, PTL

(* The list holds exactly the allocated nodes, each once, for any number   *)
(* of connections (main).                                                  *)
THEOREM ListOwnership == Spec => []ListOwnsNodes
<1>1. IInv => ListOwnsNodes
  BY DEF IInv, ListHasNodes, ListOwnsNodes, Distinct, Stale
<1> QED BY <1>1, ServerInvariant, PTL

(* No thread ever runs without its node (sock_thread_func, main).          *)
THEOREM ThreadMemory == Spec => []ThreadsKeepNodes
<1>1. IInv => ThreadsKeepNodes
  <2>1. IInv => allocated \ {leaked} \subseteq InList
    BY DEF IInv, ListHasNodes
  <2> QED BY <2>1 DEF IInv, RunningAllocated, ThreadsKeepNodes
<1> QED BY <1>1, ServerInvariant, PTL

(* main returns only when no thread is left and the node of each is freed; *)
(* of the process's nodes only that of e remains (main from DONE on).      *)
THEOREM CleanExit == Spec => []ExitClean
<1>1. IInv => ExitClean
  <2> SUFFICES ASSUME IInv, main = "exited" PROVE ExitClean
    BY DEF ExitClean
  <2>1. InList = {} /\ InList = allocated \ {leaked}
    BY DEF IInv, ListHasNodes, Stale, InList
  <2>2. \A n \in Nodes : ~Running(n)
    BY <2>1 DEF IInv, RunningAllocated
  <2>3. mutex \notin Nodes
    BY <2>2 DEF IInv, MutexHeld, InSession, Running
  <2> QED BY <2>1, <2>2, <2>3 DEF IInv, TypeOK, ExitClean
<1> QED BY <1>1, ServerInvariant, PTL

(* One session at a time has the device open (sock_thread_func).           *)
THEOREM OneSession == Spec => []SessionExclusive
<1>1. IInv => SessionExclusive
  BY DEF IInv, MutexHeld, SessionExclusive
<1> QED BY <1>1, ServerInvariant, PTL
=============================================================================
