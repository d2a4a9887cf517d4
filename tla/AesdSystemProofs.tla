---------------------------- MODULE AesdSystemProofs ----------------------------
(***************************************************************************)
(* What holds of the server on top of the driver, for every number of      *)
(* clients, connections and loads of the module.                           *)
(***************************************************************************)
EXTENDS MCAesdSystem, FlattenLemmas, TLAPS

MP == INSTANCE AesdModuleProofs

-----------------------------------------------------------------------------
(* The sessions are users of the module, as AesdModule describes them.     *)

(* The initial state is one of the module.                                 *)
LEMMA ModuleStart ==
  ASSUME SystemInit
  PROVE  M!Init
BY DEF SystemInit

(* Only a thread that has the device open changes what the device stores.  *)
LEMMA StoreChange ==
  ASSUME Next
  PROVE  log' # log \/ pending' # pending => opens # {}
<1>1. ASSUME NEW c \in Clients, WriteLine(c)
      PROVE  log' # log \/ pending' # pending => opens # {}
  BY <1>1 DEF WriteLine, Usable, opens
<1>2. ASSUME NEW c \in Clients,
             \/ Connect(c) \/ Read(c) \/ Joined(c)
             \/ Lock(c) \/ WriteFails(c) \/ WriteKills(c) \/ Seek(c) \/ CloseUnlock(c)
      PROVE  UNCHANGED <<log, pending>>
  BY <1>2 DEF Connect, Read, ReceiveByte, ReceiveLine, ReceiveNothing, ReplyByte, ReplyLine,
              ReplyEnds, ReplyFails, SendFails, Joined, Lock, WriteFails, WriteKills, Seek,
              CloseUnlock, store
<1>3. CASE Timestamp \/ CloseMain
  BY <1>3 DEF Timestamp, CloseMain, store
<1> QED BY <1>1, <1>2, <1>3 DEF Next, Serve

(* Every step of the system is one of the module, or leaves it alone.      *)
LEMMA ModuleSimulation ==
  ASSUME [SystemNext]_systemVars
  PROVE  [M!Next]_(M!vars)
<1>1. CASE SessionStep
  <2>1. log' # log \/ pending' # pending => opens # {}
    BY <1>1, StoreChange DEF SessionStep
  <2> QED BY <1>1, <2>1 DEF SessionStep, M!Next, M!Users, M!moduleVars, moduleVars
<1>2. CASE ModuleStep
  BY <1>2 DEF ModuleStep, M!Next
<1>3. CASE UNCHANGED systemVars
  <2>1. opens' = opens
    BY <1>3 DEF systemVars, vars, files, opens
  <2> QED BY <1>3, <2>1 DEF systemVars, vars, store, moduleVars, M!vars, M!moduleVars
<1> QED BY <1>1, <1>2, <1>3 DEF SystemNext

(* The server is a user of the device that does what users may do.         *)
LEMMA ModuleSteps == SystemSpec => M!Spec
<1>1. SystemInit => M!Init
  BY ModuleStart
<1>2. [SystemNext]_systemVars => [M!Next]_(M!vars)
  BY ModuleSimulation
<1> QED BY <1>1, <1>2, PTL DEF SystemSpec, M!Spec

(* What AesdModuleProofs proves of the module holds below the server.      *)
LEMMA ModuleProved == SystemSpec => MP!Spec
<1>1. M!Init => MP!Init
  BY DEF M!Init, MP!Init
<1>2. [M!Next]_(M!vars) => [MP!Next]_(MP!vars)
  <2>1. M!vars = MP!vars /\ M!vars' = MP!vars'
    BY DEF M!vars, MP!vars, M!moduleVars, MP!moduleVars
  <2>2. M!Kernel => MP!Kernel
    BY DEF M!Kernel, M!InitRegion, M!InitEntry, M!InitCdev, M!SetupCdev, M!CleanupCdev,
           M!CleanupMemory, M!CleanupRegion, M!Go, M!Out, M!Memory,
           MP!Kernel, MP!InitRegion, MP!InitEntry, MP!InitCdev, MP!SetupCdev, MP!CleanupCdev,
           MP!CleanupMemory, MP!CleanupRegion, MP!Go, MP!Out, MP!Memory
  <2>3. M!Scripts => MP!Scripts
    BY DEF M!Scripts, M!Insmod, M!ModprobeLoaded, M!MakeNode, M!Rmmod, M!RemoveNode, M!Go,
           MP!Scripts, MP!Insmod, MP!ModprobeLoaded, MP!MakeNode, MP!Rmmod, MP!RemoveNode, MP!Go
  <2>4. M!Users => MP!Users
    BY DEF M!Users, M!CanOpen, M!moduleVars, MP!Users, MP!CanOpen, MP!moduleVars
  <2> QED BY <2>1, <2>2, <2>3, <2>4 DEF M!Next, MP!Next
<1>3. M!Spec => MP!Spec
  BY <1>1, <1>2, PTL DEF M!Spec, MP!Spec
<1> QED BY <1>3, ModuleSteps, PTL

(* So does its invariant.                                                  *)
LEMMA ModuleBelow == SystemSpec => []MP!IInv
BY ModuleProved, MP!ModuleInvariant, PTL

(* A module that is out, because init failed or cleanup is through, has    *)
(* left nothing registered, and one that is live has everything, with the  *)
(* sessions' steps between any two calls (aesd_init_module,                *)
(* aesd_cleanup_module).                                                   *)
THEOREM NothingRegistered == SystemSpec => []AllOrNothing
<1>1. MP!IInv => AllOrNothing
  BY DEF MP!IInv, MP!Stages, MP!Stored, AllOrNothing, M!AllOrNothing
<1> QED BY <1>1, ModuleBelow, PTL

(* Whatever the clients have written, g_ent when cdev_add fails and the    *)
(* bytes of an unfinished command at the end of cleanup are all the memory *)
(* of the device that is lost (aesd_init_module, aesd_cleanup_module).     *)
THEOREM OnlyKnownLosses == SystemSpec => KnownLosses
<1>1. M!vars = MP!vars /\ M!vars' = MP!vars'
  BY DEF M!vars, MP!vars, M!moduleVars, MP!moduleVars
<1> DEFINE Known == \A m \in lost' \ lost :
                      \/ m = "g_ent" /\ module = "cdev_add"
                      \/ m = "pending" /\ module = "unregister"
<1>2. [Known]_(MP!vars) => [Known]_(M!vars)
  BY <1>1
<1> QED BY <1>2, ModuleProved, MP!Losses, PTL DEF MP!KnownLosses, KnownLosses, M!KnownLosses

(* While a session has the device open the module is live, however the     *)
(* scripts and the sessions take turns (.owner = THIS_MODULE).             *)
THEOREM NoCallIntoCleanup == SystemSpec => []OpenKeepsModule
<1>1. MP!IInv => OpenKeepsModule
  BY DEF MP!IInv, MP!OpenKeepsModule, OpenKeepsModule, M!OpenKeepsModule
<1> QED BY <1>1, ModuleBelow, PTL

(* Between two runs of the scripts /dev/aesdchar is the node of the module *)
(* that is loaded, or absent (aesdchar_load, aesdchar_unload).             *)
THEOREM NodeOfModule == SystemSpec => []NodeIsCurrent
<1>1. MP!IInv => NodeIsCurrent
  BY DEF MP!IInv, MP!NodeIsCurrent, NodeIsCurrent, M!NodeIsCurrent, MP!CanOpen, M!CanOpen
<1> QED BY <1>1, ModuleBelow, PTL

-----------------------------------------------------------------------------
(* The bytes that go through a session.                                    *)

Byte == (UNION {Range(x) : x \in Texts \cup {Stamp}}) \cup {NL}

(* The types TypeOK leaves open, and the buffer, whose size and contents   *)
(* need each other.                                                        *)
SessionTypes ==
  /\ TypeOK
  /\ text \in [Clients -> Seq(Byte)]
  /\ line \in [Clients -> Seq(Byte)]
  /\ bufsize \in [Clients -> Nat \ {0}]
  /\ sent \in [Clients -> Seq(Seq(Byte))]
  /\ log \in Seq(Seq(Byte))
  /\ file \in Seq(Seq(Byte))
  /\ pending \in Seq(Byte)
  /\ BufferFits

(* A session holds fd_mutex from its lock to its unlock, and a descriptor  *)
(* of its own only then.                                                   *)
Inside == {"write", "seek", "reply", "close", "killed"}

HoldsMutex == \A c \in Clients : thread[c] \in Inside <=> mutex = c

HoldsDevice == \A c \in Clients :
  fd[c] # "none" <=> thread[c] \in Inside /\ use_aesd_char_device

(* Nothing is sent before the reply.                                       *)
NothingSent == \A c \in Clients :
  thread[c] \in {"receive", "lock", "write", "seek"} => sent[c] = <<>> /\ ~wrote[c]

(* A reply starts at k, and the thread stands behind it, or at the end.    *)
Piece(reply, content, k) ==
  /\ k \in Nat /\ k + Len(reply) <= Len(content)
  /\ \A i \in 1 .. Len(reply) : reply[i] = content[k + i]

ReplyFrom(c, k) ==
  /\ Piece(Reply(c), Content, k)
  /\ wrote[c] => k = 0
  /\ Pos(c) = k + Len(Reply(c)) \/ Pos(c) >= Len(Content)

(* A session without the device has no reply.                              *)
NoDevice(c) == use_aesd_char_device /\ fd[c] # "open"

ReplySoFar(c) == thread[c] = "reply" =>
  IF NoDevice(c) THEN sent[c] = <<>> /\ line[c] = <<>> /\ ~wrote[c]
                 ELSE \E k \in Nat : ReplyFrom(c, k)

InReply == \A c \in Clients : ReplySoFar(c)

-----------------------------------------------------------------------------
(* The texts, and what is made of them, are sequences of bytes.            *)
LEMMA TextsAreBytes ==
  /\ NL \in Byte /\ Stamp \in Seq(Byte)
  /\ \A x \in Texts : x \in Seq(Byte)
<1>1. ASSUME NEW x \in Texts \cup {Stamp} PROVE x \in Seq(Byte)
  <2>1. x \in Seq(Range(x))
    BY SessionAssumption
  <2>2. Range(x) \subseteq Byte
    BY DEF Byte
  <2> HIDE DEF Byte
  <2> QED BY <2>1, <2>2, SeqMonotonic
<1>2. NL \in Byte
  BY DEF Byte
<1> QED BY <1>1, <1>2

LEMMA WrittenIsBytes ==
  ASSUME SessionTypes, NEW c \in Clients
  PROVE  Written(c) \in Seq(Byte)
<1> DEFINE L == line[c]
           nuls == {i \in DOMAIN L : L[i] = NUL}
           n == IF nuls = {} THEN Len(L) ELSE (CHOOSE i \in nuls : \A j \in nuls : i <= j) - 1
<1>1. L \in Seq(Byte) /\ Len(L) \in Nat /\ DOMAIN L = 1 .. Len(L)
  BY LenProperties DEF SessionTypes
<1>2. n \in Int /\ n <= Len(L)
  <2>1. CASE nuls = {}
    BY <1>1, <2>1
  <2>2. CASE nuls # {}
    <3>1. PICK m \in nuls : \A k \in nuls : m <= k
      <4>1. nuls \in SUBSET Nat
        BY <1>1
      <4> HIDE DEF nuls
      <4> QED BY <2>2, <4>1, LeastNatural
    <3>2. (CHOOSE i \in nuls : \A j \in nuls : i <= j) \in nuls
      <4> HIDE DEF nuls
      <4> QED BY <3>1
    <3>3. nuls \subseteq 1 .. Len(L)
      BY <1>1
    <3>4. (CHOOSE i \in nuls : \A j \in nuls : i <= j) \in 1 .. Len(L)
      BY <3>2, <3>3
    <3> HIDE DEF nuls
    <3> QED BY <1>1, <2>2, <3>4
  <2> QED BY <2>1, <2>2
<1>3. Written(c) = SubSeq(L, 1, n)
  BY DEF Written
<1> HIDE DEF n, L
<1>4. \A i \in 1 .. n : L[i] \in Byte
  <2>1. \A i \in 1 .. n : i \in 1 .. Len(L)
    BY <1>1, <1>2
  <2> QED BY <1>1, <2>1, ElementOfSeq
<1> QED BY <1>2, <1>3, <1>4, SubSeqProperties

LEMMA ContentIsBytes ==
  ASSUME SessionTypes
  PROVE  Stored \in Seq(Seq(Byte)) /\ Content \in Seq(Byte) /\ Len(Content) \in Nat
<1>1. Stored \in Seq(Seq(Byte))
  BY DEF SessionTypes, Stored
<1> QED BY <1>1, FlattenType, LenProperties DEF Content

LEMMA ReplyIsBytes ==
  ASSUME SessionTypes, NEW c \in Clients
  PROVE  Reply(c) \in Seq(Byte) /\ Len(Reply(c)) \in Nat
<1>1. sent[c] \in Seq(Seq(Byte)) /\ line[c] \in Seq(Byte)
  BY DEF SessionTypes
<1> QED BY <1>1, FlattenType, ConcatProperties, LenProperties DEF Reply

LEMMA SessionTypesHold ==
  ASSUME SystemInit
  PROVE  SessionTypes
BY SessionAssumption, EmptySeq
   DEF SystemInit, Init, SessionTypes, TypeOK, BufferFits, Contains

(* A byte, or a whole line, more in the buffer of read_until_term.         *)
LEMMA KeepTypes ==
  ASSUME SessionTypes, NEW c \in Clients, NEW byte \in Byte, Keep(c, byte)
  PROVE  /\ line' \in [Clients -> Seq(Byte)] /\ bufsize' \in [Clients -> Nat \ {0}]
         /\ return_flag' \in [Clients -> -1 .. 5]
         /\ BufferFits'
<1>1. line[c] \in Seq(Byte) /\ Len(line[c]) \in Nat /\ bufsize[c] \in Nat \ {0}
      /\ Len(line[c]) < bufsize[c]
  BY LenProperties DEF SessionTypes, BufferFits
<1>2. Append(line[c], byte) \in Seq(Byte) /\ Len(Append(line[c], byte)) = Len(line[c]) + 1
  BY <1>1, AppendProperties
<1>3. Grown(c) \in Nat \ {0} /\ Len(line[c]) + 1 < Grown(c)
  BY <1>1 DEF Grown, Full
<1>4. line' = [line EXCEPT ![c] = Append(line[c], byte)]
      /\ bufsize' = [bufsize EXCEPT ![c] = Grown(c)]
      /\ return_flag' = [return_flag EXCEPT ![c] = 0]
  BY DEF Keep
<1>5. line' \in [Clients -> Seq(Byte)] /\ bufsize' \in [Clients -> Nat \ {0}]
      /\ return_flag' \in [Clients -> -1 .. 5]
  BY <1>2, <1>3, <1>4 DEF SessionTypes, TypeOK
<1>6. ASSUME NEW d \in Clients PROVE Len(line'[d]) < bufsize'[d]
  BY <1>2, <1>3, <1>4 DEF SessionTypes, BufferFits
<1> QED BY <1>5, <1>6 DEF BufferFits

(* Bytes that are returned, at most one more than are in the buffer, or    *)
(* none.                                                                   *)
LEMMA ReturnTypes ==
  ASSUME SessionTypes, NEW c \in Clients, NEW flag \in 0 .. 5, NEW bytes \in Seq(Byte),
         flag \notin {0, 5} => bytes = <<>>,
         Len(bytes) <= Len(line[c]) + 1,
         Return(c, flag, bytes)
  PROVE  /\ line' \in [Clients -> Seq(Byte)] /\ bufsize' \in [Clients -> Nat \ {0}]
         /\ return_flag' \in [Clients -> -1 .. 5]
         /\ BufferFits'
<1> DEFINE size == IF flag \in {0, 5} THEN Shrunk(c, bytes) ELSE bufsize[c]
<1>1. /\ Len(bytes) \in Nat /\ bufsize[c] \in Nat \ {0} /\ Len(<<>>) = 0
      /\ Len(line[c]) \in Nat /\ Len(line[c]) < bufsize[c]
  BY LenProperties DEF SessionTypes, BufferFits
<1>2. size \in Nat \ {0} /\ Len(bytes) < size
  <2>1. Grown(c) \in Nat \ {0} /\ Len(line[c]) + 1 < Grown(c)
    BY <1>1 DEF Grown, Full
  <2>2. Shrunk(c, bytes) \in Nat \ {0} /\ Len(bytes) < Shrunk(c, bytes)
    BY <1>1, <2>1 DEF Shrunk
  <2> QED BY <1>1, <2>2
<1>3. line' = [line EXCEPT ![c] = bytes] /\ bufsize' = [bufsize EXCEPT ![c] = size]
      /\ return_flag' = [return_flag EXCEPT ![c] = flag]
  BY DEF Return
<1> HIDE DEF size
<1>4. line' \in [Clients -> Seq(Byte)] /\ bufsize' \in [Clients -> Nat \ {0}]
      /\ return_flag' \in [Clients -> -1 .. 5]
  BY <1>2, <1>3 DEF SessionTypes, TypeOK
<1>5. ASSUME NEW d \in Clients PROVE Len(line'[d]) < bufsize'[d]
  BY <1>2, <1>3 DEF SessionTypes, BufferFits
<1> QED BY <1>4, <1>5 DEF BufferFits

LEMMA ReturnNothingTypes ==
  ASSUME SessionTypes, NEW c \in Clients, NEW flag \in 1 .. 5, Return(c, flag, <<>>)
  PROVE  /\ line' \in [Clients -> Seq(Byte)] /\ bufsize' \in [Clients -> Nat \ {0}]
         /\ return_flag' \in [Clients -> -1 .. 5]
         /\ BufferFits'
<1>1. <<>> \in Seq(Byte) /\ flag \in 0 .. 5 /\ Len(<<>>) = 0 /\ Len(line[c]) \in Nat
  BY EmptySeq, LenProperties DEF SessionTypes
<1> DEFINE e == <<>>
<1>2. /\ e \in Seq(Byte) /\ Return(c, flag, e) /\ (flag \notin {0, 5} => e = <<>>)
      /\ Len(e) <= Len(line[c]) + 1
  BY <1>1
<1> HIDE DEF e
<1> QED BY <1>1, <1>2, ReturnTypes

(* A fresh buffer.                                                         *)
Fresh(c) ==
  /\ line' = [line EXCEPT ![c] = <<>>]
  /\ bufsize' = [bufsize EXCEPT ![c] = INITIAL_BUFFER_SIZE]
  /\ \E flag \in {-1, 0} : return_flag' = [return_flag EXCEPT ![c] = flag]

LEMMA FreshTypes ==
  ASSUME SessionTypes, NEW c \in Clients, Fresh(c)
  PROVE  /\ line' \in [Clients -> Seq(Byte)] /\ bufsize' \in [Clients -> Nat \ {0}]
         /\ return_flag' \in [Clients -> -1 .. 5]
         /\ BufferFits'
<1>1. INITIAL_BUFFER_SIZE \in Nat \ {0} /\ <<>> \in Seq(Byte) /\ Len(<<>>) = 0
  BY SessionAssumption
<1>2. line' \in [Clients -> Seq(Byte)] /\ bufsize' \in [Clients -> Nat \ {0}]
      /\ return_flag' \in [Clients -> -1 .. 5]
  <2>1. line' \in [Clients -> Seq(Byte)]
    BY <1>1 DEF Fresh, SessionTypes
  <2>2. bufsize' \in [Clients -> Nat \ {0}]
    BY <1>1 DEF Fresh, SessionTypes
  <2>3. return_flag' \in [Clients -> -1 .. 5]
    BY DEF Fresh, SessionTypes, TypeOK
  <2> QED BY <2>1, <2>2, <2>3
<1>3. ASSUME NEW d \in Clients PROVE Len(line'[d]) < bufsize'[d]
  BY <1>1 DEF Fresh, SessionTypes, BufferFits
<1> QED BY <1>2, <1>3 DEF BufferFits

(* A position that is set.                                                 *)
LEMMA PosTypes ==
  ASSUME SessionTypes, NEW c \in Clients, NEW p \in Nat, SetPos(c, p)
  PROVE  f_pos' \in [Clients -> Nat] /\ main_pos' \in Nat
BY DEF SetPos, SessionTypes, TypeOK

(* The store of the device, or the file, after a write.                    *)
LEMMA DeviceWriteTypes ==
  ASSUME SessionTypes, NEW bytes \in Seq(Byte), DeviceWrite(bytes)
  PROVE  /\ log' \in Seq(Seq(Byte)) /\ Len(log') <= Capacity
         /\ pending' \in Seq(Byte) /\ ~Contains(pending', NL)
<1> DEFINE command == pending \o bytes
           more == Append(log, command)
<1>1. command \in Seq(Byte) /\ log \in Seq(Seq(Byte)) /\ Len(log) \in Nat /\ Len(log) <= Capacity
      /\ Capacity \in Nat \ {0}
  BY ConcatProperties, LenProperties, SessionAssumption DEF SessionTypes, TypeOK
<1>2. CASE log' = KeepRecent(more) /\ pending' = <<>>
  <2>1. more \in Seq(Seq(Byte)) /\ more # <<>> /\ Len(more) = Len(log) + 1
    <3> HIDE DEF command
    <3> QED BY <1>1, AppendProperties
  <2>2. Tail(more) \in Seq(Seq(Byte)) /\ Len(Tail(more)) = Len(log)
    <3> HIDE DEF more
    <3> QED BY <1>1, <2>1, HeadTailProperties
  <2>3. pending' \in Seq(Byte) /\ ~Contains(pending', NL)
    BY <1>2, EmptySeq DEF Contains
  <2> HIDE DEF more
  <2> QED BY <1>1, <1>2, <2>1, <2>2, <2>3 DEF KeepRecent
<1>3. CASE ~Contains(command, NL) /\ pending' = command /\ log' = log
  <2> HIDE DEF command
  <2> QED BY <1>1, <1>3
<1> QED BY <1>2, <1>3 DEF DeviceWrite

LEMMA FileWriteTypes ==
  ASSUME SessionTypes, NEW bytes \in Seq(Byte), FileWrite(bytes)
  PROVE  file' \in Seq(Seq(Byte))
BY AppendProperties DEF SessionTypes, FileWrite

(* The types hold after every step.                                        *)
LEMMA ReadTypes ==
  ASSUME SessionTypes, NEW c \in Clients, Read(c)
  PROVE  SessionTypes'
<1>1. text[c] \in Seq(Byte) /\ line[c] \in Seq(Byte)
      /\ Len(text[c]) \in Nat /\ Len(line[c]) \in Nat
      /\ \A i \in 1 .. Len(text[c]) : text[c][i] \in Byte
  BY LenProperties, ElementOfSeq DEF SessionTypes
<1>2. Content \in Seq(Byte) /\ Len(Content) \in Nat /\ \A i \in 1 .. Len(Content) : Content[i] \in Byte
  BY ContentIsBytes, ElementOfSeq
<1>3. Pos(c) \in Nat
  BY DEF SessionTypes, TypeOK, Pos
<1>4. CASE ReceiveByte(c)
  <2>1. text[c][Received(c) + 1] \in Byte
    BY <1>1, <1>4 DEF ReceiveByte, Received
  <2>2. Keep(c, text[c][Received(c) + 1])
    BY <1>4 DEF ReceiveByte
  <2>3. /\ line' \in [Clients -> Seq(Byte)] /\ bufsize' \in [Clients -> Nat \ {0}]
        /\ return_flag' \in [Clients -> -1 .. 5]
        /\ BufferFits'
    BY <2>1, <2>2, KeepTypes
  <2> QED BY <1>4, <2>3
          DEF ReceiveByte, Move, SessionTypes, TypeOK, store, files, rest
<1>5. CASE ReceiveLine(c)
  <2>1. line[c] \in Seq(Byte) /\ NL \in Byte /\ Len(line[c]) \in Nat
    BY <1>1, TextsAreBytes, LenProperties DEF SessionTypes, Byte
  <2>2. Append(line[c], NL) \in Seq(Byte) /\ Len(Append(line[c], NL)) = Len(line[c]) + 1
    BY <2>1, AppendProperties
  <2>3. ASSUME NEW flag \in {0, 5}, NEW bytes \in {line[c], Append(line[c], NL)},
               Return(c, flag, bytes)
        PROVE  /\ line' \in [Clients -> Seq(Byte)] /\ bufsize' \in [Clients -> Nat \ {0}]
               /\ return_flag' \in [Clients -> -1 .. 5]
               /\ BufferFits'
    <3>1. flag \in 0 .. 5 /\ bytes \in Seq(Byte) /\ Len(bytes) <= Len(line[c]) + 1
      BY <2>1, <2>2
    <3> QED BY <2>3, <3>1, ReturnTypes
  <2>4. Return(c, 0, Append(line[c], NL)) \/ Return(c, 5, line[c])
    BY <1>5 DEF ReceiveLine
  <2>5. /\ line' \in [Clients -> Seq(Byte)] /\ bufsize' \in [Clients -> Nat \ {0}]
        /\ return_flag' \in [Clients -> -1 .. 5]
        /\ BufferFits'
    BY <2>3, <2>4
  <2> QED BY <1>5, <2>5
          DEF ReceiveLine, Move, SessionTypes, TypeOK, store, files, rest
<1>6. CASE ReceiveNothing(c)
  <2>1. PICK flag \in 1 .. 4 : Return(c, flag, <<>>)
    BY <1>6 DEF ReceiveNothing
  <2>2. /\ line' \in [Clients -> Seq(Byte)] /\ bufsize' \in [Clients -> Nat \ {0}]
        /\ return_flag' \in [Clients -> -1 .. 5]
        /\ BufferFits'
    BY <2>1, ReturnNothingTypes
  <2> QED BY <1>6, <2>2
          DEF ReceiveNothing, Move, SessionTypes, TypeOK, store, files, rest
<1>7. CASE ReplyByte(c)
  <2>1. NextByte(c) \in Byte
    BY <1>2, <1>3, <1>7 DEF ReplyByte, MoreToRead, NextByte
  <2>2. /\ line' \in [Clients -> Seq(Byte)] /\ bufsize' \in [Clients -> Nat \ {0}]
        /\ return_flag' \in [Clients -> -1 .. 5]
        /\ BufferFits'
    BY <1>7, <2>1, KeepTypes DEF ReplyByte
  <2>3. f_pos' \in [Clients -> Nat] /\ main_pos' \in Nat
    <3>1. Pos(c) + 1 \in Nat /\ SetPos(c, Pos(c) + 1)
      BY <1>3, <1>7 DEF ReplyByte
    <3> QED BY <3>1, PosTypes
  <2> QED BY <1>7, <2>2, <2>3
          DEF ReplyByte, Move, SessionTypes, TypeOK, store, files, rest
<1>8. CASE ReplyLine(c)
  <2>1. Append(line[c], NL) \in Seq(Byte) /\ sent[c] \in Seq(Seq(Byte))
    BY <1>1, TextsAreBytes, AppendProperties DEF SessionTypes
  <2>2. Append(sent[c], Append(line[c], NL)) \in Seq(Seq(Byte))
    BY <2>1, AppendProperties
  <2>3. sent' \in [Clients -> Seq(Seq(Byte))]
    BY <1>8, <2>2 DEF ReplyLine, SessionTypes
  <2>4. /\ line' \in [Clients -> Seq(Byte)] /\ bufsize' \in [Clients -> Nat \ {0}]
        /\ return_flag' \in [Clients -> -1 .. 5]
        /\ BufferFits'
    <3>1. Fresh(c)
      BY <1>8 DEF ReplyLine, Fresh
    <3> QED BY <3>1, FreshTypes
  <2>5. f_pos' \in [Clients -> Nat] /\ main_pos' \in Nat
    <3>1. Pos(c) + 1 \in Nat /\ SetPos(c, Pos(c) + 1)
      BY <1>3, <1>8 DEF ReplyLine
    <3> QED BY <3>1, PosTypes
  <2> QED BY <1>8, <2>3, <2>4, <2>5
          DEF ReplyLine, Move, SessionTypes, TypeOK, store, files, rest
<1>9. CASE ReplyEnds(c) \/ ReplyFails(c)
  <2>1. PICK flag \in 1 .. 5 : Return(c, flag, <<>>)
    <3>1. CASE ReplyEnds(c)
      <4>1. Return(c, 4, <<>>) \/ Return(c, 5, <<>>)
        BY <3>1 DEF ReplyEnds
      <4> QED BY <4>1
    <3>2. CASE ReplyFails(c)
      BY <3>2 DEF ReplyFails
    <3> QED BY <1>9, <3>1, <3>2
  <2>2. /\ line' \in [Clients -> Seq(Byte)] /\ bufsize' \in [Clients -> Nat \ {0}]
        /\ return_flag' \in [Clients -> -1 .. 5]
        /\ BufferFits'
    BY <2>1, ReturnNothingTypes
  <2> QED BY <1>9, <2>2
          DEF ReplyEnds, ReplyFails, Move, SessionTypes, TypeOK, store, files, rest
<1>10. CASE SendFails(c)
  BY <1>10 DEF SendFails, SessionTypes, TypeOK, BufferFits, local, store, files
<1> QED BY <1>4, <1>5, <1>6, <1>7, <1>8, <1>9, <1>10 DEF Read

LEMMA ServeTypes ==
  ASSUME SessionTypes, NEW c \in Clients, Connect(c) \/ Serve(c) \/ Joined(c)
  PROVE  SessionTypes'
<1>1. CASE Connect(c)
  <2>1. /\ line' \in [Clients -> Seq(Byte)] /\ bufsize' \in [Clients -> Nat \ {0}]
        /\ return_flag' \in [Clients -> -1 .. 5]
        /\ BufferFits'
    <3>1. Fresh(c)
      BY <1>1 DEF Connect, Fresh
    <3> QED BY <3>1, FreshTypes
  <2>2. text' \in [Clients -> Seq(Byte)] /\ sent' \in [Clients -> Seq(Seq(Byte))]
    BY <1>1, TextsAreBytes, EmptySeq DEF Connect, SessionTypes
  <2> QED BY <1>1, <2>1, <2>2 DEF Connect, Move, SessionTypes, TypeOK, store, files
<1>2. CASE Lock(c)
  <2>1. thread' \in [Clients -> {"none", "receive", "lock", "write", "seek", "reply",
                                 "close", "complete", "killed"}]
    BY <1>2 DEF Lock, Move, SessionTypes, TypeOK
  <2>2. fd' \in [Clients -> {"none", "open", "failed"}] /\ f_pos' \in [Clients -> Nat]
    BY <1>2 DEF Lock, SessionTypes, TypeOK
  <2> QED BY <1>2, <2>1, <2>2 DEF Lock, SessionTypes, TypeOK, BufferFits, local, store, rest
<1>3. CASE WriteLine(c) \/ WriteFails(c)
  <2>1. BeginReply(c)
    BY <1>3 DEF WriteLine, WriteFails
  <2>2. /\ line' \in [Clients -> Seq(Byte)] /\ bufsize' \in [Clients -> Nat \ {0}]
        /\ return_flag' \in [Clients -> -1 .. 5]
        /\ BufferFits'
    <3>1. Fresh(c)
      BY <2>1 DEF BeginReply, Fresh
    <3> QED BY <3>1, FreshTypes
  <2>3. f_pos' \in [Clients -> Nat] /\ main_pos' \in Nat
    BY <2>1, PosTypes DEF BeginReply
  <2>4. /\ log' \in Seq(Seq(Byte)) /\ Len(log') <= Capacity
        /\ pending' \in Seq(Byte) /\ ~Contains(pending', NL)
        /\ file' \in Seq(Seq(Byte))
    <3>1. CASE WriteLine(c)
      BY <3>1, WrittenIsBytes, DeviceWriteTypes, FileWriteTypes
         DEF WriteLine, SessionTypes, TypeOK
    <3>2. CASE WriteFails(c)
      BY <3>2 DEF WriteFails, SessionTypes, TypeOK
    <3> QED BY <1>3, <3>1, <3>2
  <2>5. wrote' \in [Clients -> BOOLEAN]
        /\ thread' \in [Clients -> {"none", "receive", "lock", "write", "seek", "reply",
                                    "close", "complete", "killed"}]
    BY <1>3 DEF WriteLine, WriteFails, Move, SessionTypes, TypeOK
  <2> QED BY <2>1, <2>2, <2>3, <2>4, <2>5 DEF BeginReply, SessionTypes, TypeOK, rest
<1>4. CASE WriteKills(c)
  BY <1>4 DEF WriteKills, Move, SessionTypes, TypeOK, BufferFits, local, files, rest
<1>5. CASE Seek(c)
  <2>1. /\ line' \in [Clients -> Seq(Byte)] /\ bufsize' \in [Clients -> Nat \ {0}]
        /\ return_flag' \in [Clients -> -1 .. 5]
        /\ BufferFits'
    <3>1. Fresh(c)
      BY <1>5 DEF Seek, Fresh
    <3> QED BY <3>1, FreshTypes
  <2>2. f_pos' \in [Clients -> Nat] /\ device' \in {"ok", "locked"}
    <3>1. Len(Content) \in Nat
      BY ContentIsBytes, LenProperties
    <3>2. device' \in {"ok", "locked"}
      BY <1>5 DEF Seek, SessionTypes, TypeOK
    <3>3. f_pos' \in [Clients -> Nat]
      <4>1. CASE f_pos' = f_pos
        BY <4>1 DEF SessionTypes, TypeOK
      <4>2. ASSUME NEW p \in 0 .. Len(Content), f_pos' = [f_pos EXCEPT ![c] = p]
            PROVE  f_pos' \in [Clients -> Nat]
        BY <3>1, <4>2 DEF SessionTypes, TypeOK
      <4> QED BY <1>5, <4>1, <4>2 DEF Seek
    <3> QED BY <3>2, <3>3
  <2> QED BY <1>5, <2>1, <2>2 DEF Seek, Move, SessionTypes, TypeOK, rest
<1>6. CASE CloseUnlock(c)
  BY <1>6 DEF CloseUnlock, Move, SessionTypes, TypeOK, BufferFits, local, store, rest
<1>7. CASE Joined(c)
  BY <1>7 DEF Joined, Move, SessionTypes, TypeOK, BufferFits, local, store, files, rest
<1> QED BY <1>1, <1>2, <1>3, <1>4, <1>5, <1>6, <1>7 DEF Serve

LEMMA SessionTypesStep ==
  ASSUME SessionTypes, [SystemNext]_systemVars
  PROVE  SessionTypes'
<1>1. CASE Timestamp
  <2>1. file' \in Seq(Seq(Byte))
    BY <1>1, TextsAreBytes, FileWriteTypes DEF Timestamp
  <2>2. main_pos' \in Nat
    BY <1>1, ContentIsBytes, TextsAreBytes, LenProperties DEF Timestamp
  <2> QED BY <1>1, <2>1, <2>2 DEF Timestamp, SessionTypes, TypeOK, BufferFits, local
<1>2. CASE CloseMain
  BY <1>2 DEF CloseMain, SessionTypes, TypeOK, BufferFits, local, store, rest
<1>3. CASE SessionStep
  BY <1>1, <1>2, <1>3, ReadTypes, ServeTypes DEF SessionStep, Next
<1>4. CASE ModuleStep
  <2>1. (log' = log \/ log' = <<>>) /\ (pending' = pending \/ pending' = <<>>)
    BY <1>4 DEF ModuleStep, M!Kernel, M!InitRegion, M!InitEntry, M!InitCdev, M!CleanupCdev,
           M!CleanupMemory, M!CleanupRegion, M!Out, M!Scripts, M!Insmod, M!ModprobeLoaded,
           M!MakeNode, M!Rmmod, M!RemoveNode
  <2>2. device' \in {"ok", "locked"}
    BY <1>4 DEF ModuleStep, SessionTypes, TypeOK
  <2>3. log' \in Seq(Seq(Byte)) /\ Len(log') <= Capacity
    <3>1. CASE log' = log
      BY <3>1 DEF SessionTypes, TypeOK
    <3>2. CASE log' = <<>>
      <4>1. Len(<<>>) = 0 /\ Capacity \in Nat \ {0}
        BY SessionAssumption
      <4> QED BY <3>2, <4>1, EmptySeq
    <3> QED BY <2>1, <3>1, <3>2
  <2>4. pending' \in Seq(Byte) /\ ~Contains(pending', NL)
    <3>1. CASE pending' = pending
      BY <3>1 DEF SessionTypes, TypeOK
    <3>2. CASE pending' = <<>>
      BY <3>2, EmptySeq DEF Contains
    <3> QED BY <2>1, <3>1, <3>2
  <2> QED BY <1>4, <2>2, <2>3, <2>4 DEF ModuleStep, SessionTypes, TypeOK, BufferFits, local, files, rest
<1>5. CASE UNCHANGED systemVars
  BY <1>5 DEF systemVars, vars, SessionTypes, TypeOK, BufferFits, local, store, files, rest
<1> QED BY <1>3, <1>4, <1>5 DEF SystemNext

-----------------------------------------------------------------------------
(* Who holds what.                                                         *)

Holding == HoldsMutex /\ HoldsDevice /\ NothingSent

LEMMA HoldingReads ==
  ASSUME SessionTypes, Holding, NEW c \in Clients, Connect(c) \/ Read(c) \/ Joined(c)
  PROVE  Holding'
<1>1. CASE Connect(c)
  BY <1>1 DEF Connect, Move, SessionTypes, TypeOK, Holding, HoldsMutex, HoldsDevice, NothingSent,
              Inside, files
<1>2. ASSUME NEW from, NEW to, Move(c, from, to), from \in Inside <=> to \in Inside,
             from \in {"receive", "lock", "write", "seek"}
               \/ to \notin {"receive", "lock", "write", "seek"},
             UNCHANGED <<wrote, sent, mutex, fd, use_aesd_char_device>>
      PROVE  Holding'
  <2>1. HoldsMutex'
    BY <1>2 DEF Move, SessionTypes, TypeOK, Holding, HoldsMutex
  <2>2. HoldsDevice'
    BY <1>2 DEF Move, SessionTypes, TypeOK, Holding, HoldsDevice
  <2>3. NothingSent'
    BY <1>2 DEF Move, SessionTypes, TypeOK, Holding, NothingSent
  <2> QED BY <2>1, <2>2, <2>3 DEF Holding
<1>3. CASE \/ ReceiveByte(c) \/ ReceiveLine(c) \/ ReceiveNothing(c)
           \/ ReplyByte(c) \/ ReplyEnds(c) \/ ReplyFails(c)
  <2>1. UNCHANGED <<wrote, sent, mutex, fd, use_aesd_char_device>>
    BY <1>3 DEF ReceiveByte, ReceiveLine, ReceiveNothing, ReplyByte, ReplyEnds, ReplyFails,
                files, rest
  <2>2. \/ Move(c, "receive", "receive") \/ Move(c, "receive", "lock")
        \/ Move(c, "receive", "none") \/ Move(c, "reply", "reply") \/ Move(c, "reply", "close")
    BY <1>3 DEF ReceiveByte, ReceiveLine, ReceiveNothing, ReplyByte, ReplyEnds, ReplyFails
  <2> QED BY <1>2, <2>1, <2>2 DEF Inside
<1>4. CASE ReplyLine(c)
  BY <1>4 DEF ReplyLine, Move, SessionTypes, TypeOK, 
              Holding, HoldsMutex, HoldsDevice, NothingSent, Inside, rest
<1>5. CASE SendFails(c)
  BY <1>5 DEF SendFails, Holding, HoldsMutex, HoldsDevice, NothingSent, local, files
<1>6. CASE Joined(c)
  BY <1>6 DEF Joined, Move, SessionTypes, TypeOK, 
              Holding, HoldsMutex, HoldsDevice, NothingSent, Inside, local, files, rest
<1> QED BY <1>1, <1>2, <1>3, <1>4, <1>5, <1>6 DEF Read

LEMMA HoldingServes ==
  ASSUME SessionTypes, Holding, NEW c \in Clients, Serve(c)
  PROVE  Holding'
<1>1. CASE Lock(c)
  <2>1. HoldsMutex'
    BY <1>1, SessionAssumption
       DEF Lock, Move, SessionTypes, TypeOK, Holding, HoldsMutex, Inside
  <2>2. HoldsDevice'
    BY <1>1 DEF Lock, Move, SessionTypes, TypeOK, Holding, HoldsDevice, Inside, rest
  <2>3. NothingSent'
    BY <1>1 DEF Lock, Move, SessionTypes, TypeOK, Holding, NothingSent, local
  <2> QED BY <2>1, <2>2, <2>3 DEF Holding
<1>2. CASE WriteLine(c)
  BY <1>2 DEF WriteLine, BeginReply, Move, SessionTypes, TypeOK,
              Holding, HoldsMutex, HoldsDevice, NothingSent, Inside, rest
<1>3. CASE WriteFails(c)
  BY <1>3 DEF WriteFails, BeginReply, Move, SessionTypes, TypeOK,
              Holding, HoldsMutex, HoldsDevice, NothingSent, Inside, rest
<1>4. CASE WriteKills(c)
  BY <1>4 DEF WriteKills, Move, SessionTypes, TypeOK,
              Holding, HoldsMutex, HoldsDevice, NothingSent, Inside, local, files, rest
<1>5. CASE Seek(c)
  BY <1>5 DEF Seek, Move, SessionTypes, TypeOK,
              Holding, HoldsMutex, HoldsDevice, NothingSent, Inside, rest
<1>6. CASE CloseUnlock(c)
  BY <1>6, SessionAssumption
     DEF CloseUnlock, Move, SessionTypes, TypeOK,
         Holding, HoldsMutex, HoldsDevice, NothingSent, Inside, local, rest
<1> QED BY <1>1, <1>2, <1>3, <1>4, <1>5, <1>6 DEF Serve

LEMMA HoldingStep ==
  ASSUME SessionTypes, Holding, [SystemNext]_systemVars
  PROVE  Holding'
<1>1. CASE Timestamp \/ CloseMain
  BY <1>1 DEF Timestamp, CloseMain, Holding, HoldsMutex, HoldsDevice, NothingSent, local, rest
<1>2. CASE SessionStep
  BY <1>1, <1>2, HoldingReads, HoldingServes DEF SessionStep, Next
<1>3. CASE ModuleStep \/ UNCHANGED systemVars
  BY <1>3 DEF ModuleStep, systemVars, vars, Holding, HoldsMutex, HoldsDevice, NothingSent,
              local, files, rest
<1> QED BY <1>2, <1>3 DEF SystemNext

-----------------------------------------------------------------------------
(* The reply is a piece of the content.                                    *)

LEMMA PieceNothing ==
  ASSUME NEW S, NEW content \in Seq(S), NEW k \in 0 .. Len(content)
  PROVE  Piece(<<>>, content, k)
BY LenProperties DEF Piece

LEMMA PieceNext ==
  ASSUME NEW S, NEW content \in Seq(S), NEW reply \in Seq(S), NEW k \in Nat,
         Piece(reply, content, k), k + Len(reply) < Len(content)
  PROVE  /\ Piece(Append(reply, content[k + Len(reply) + 1]), content, k)
         /\ Len(Append(reply, content[k + Len(reply) + 1])) = Len(reply) + 1
<1> DEFINE e == content[k + Len(reply) + 1]
           next == Append(reply, e)
<1>1. Len(content) \in Nat /\ Len(reply) \in Nat
  BY LenProperties
<1>2. k + Len(reply) + 1 \in 1 .. Len(content)
  BY <1>1
<1>3. e \in S
  BY <1>2, ElementOfSeq
<1>4. next \in Seq(S) /\ Len(next) = Len(reply) + 1 /\ next[Len(reply) + 1] = e
      /\ \A i \in 1 .. Len(reply) : next[i] = reply[i]
  <2> HIDE DEF e
  <2> QED BY <1>3, AppendProperties
<1> HIDE DEF next
<1>5. ASSUME NEW i \in 1 .. Len(next) PROVE next[i] = content[k + i]
  <2>1. CASE i = Len(reply) + 1
    <3>1. k + i = k + Len(reply) + 1
      BY <1>1, <2>1
    <3> QED BY <1>4, <2>1, <3>1
  <2>2. CASE i # Len(reply) + 1
    <3>1. i \in 1 .. Len(reply)
      BY <1>1, <1>4, <2>2
    <3> QED BY <1>4, <3>1 DEF Piece
  <2> QED BY <2>1, <2>2
<1>6. k + Len(next) <= Len(content)
  BY <1>1, <1>4
<1> QED BY <1>4, <1>5, <1>6 DEF Piece, next

LEMMA PieceMore ==
  ASSUME NEW S, NEW content \in Seq(S), NEW more \in Seq(S), NEW reply \in Seq(S), NEW k \in Nat,
         Piece(reply, content, k)
  PROVE  Piece(reply, content \o more, k)
<1>1. /\ Len(content) \in Nat /\ Len(reply) \in Nat /\ Len(more) \in Nat
      /\ Len(content \o more) = Len(content) + Len(more)
      /\ \A i \in 1 .. Len(content) : (content \o more)[i] = content[i]
  BY LenProperties, ConcatProperties
<1> DEFINE all == content \o more
<1> HIDE DEF all
<1>2. ASSUME NEW i \in 1 .. Len(reply) PROVE reply[i] = all[k + i]
  <2>1. k + i \in 1 .. Len(content)
    BY <1>1 DEF Piece
  <2> QED BY <1>1, <2>1 DEF Piece, all
<1> QED BY <1>1, <1>2 DEF Piece, all

(* Sequences whose elements agree.                                         *)
LEMMA PieceIsSubSeq ==
  ASSUME NEW S, NEW content \in Seq(S), NEW reply \in Seq(S), NEW k \in Nat,
         Piece(reply, content, k)
  PROVE  /\ k \in 0 .. Len(content) - Len(reply)
         /\ SubSeq(content, k + 1, k + Len(reply)) = reply
         /\ k = 0 => IsPrefix(reply, content)
<1>1. Len(content) \in Nat /\ Len(reply) \in Nat
  BY LenProperties
<1>2. k \in 0 .. Len(content) - Len(reply) /\ Len(reply) <= Len(content)
  BY <1>1 DEF Piece
<1> DEFINE n == Len(reply)
           m == k + 1
           l == k + n
<1>3. m \in Int /\ l \in Int /\ n \in Nat /\ (m <= l <=> n # 0) /\ l - m + 1 = n
  BY <1>1
<1>4. ASSUME NEW i \in m .. l PROVE content[i] \in S
  <2>1. i \in 1 .. Len(content)
    BY <1>1, <1>2
  <2> QED BY <2>1, ElementOfSeq
<1>5. /\ SubSeq(content, m, l) \in Seq(S)
      /\ Len(SubSeq(content, m, l)) = IF m <= l THEN l - m + 1 ELSE 0
      /\ \A i \in 1 .. l - m + 1 : SubSeq(content, m, l)[i] = content[m + i - 1]
  <2> HIDE DEF m, l
  <2> QED BY <1>3, <1>4, SubSeqProperties
<1>6. ASSUME NEW i \in 1 .. n PROVE SubSeq(content, m, l)[i] = reply[i]
  <2>1. m + i - 1 = k + i
    BY <1>1
  <2>2. SubSeq(content, m, l)[i] = content[m + i - 1]
    <3> HIDE DEF m, l, n
    <3> QED BY <1>3, <1>5
  <2> QED BY <2>1, <2>2 DEF Piece
<1>7. SubSeq(content, m, l) = reply
  <2>1. Len(SubSeq(content, m, l)) = n
    <3> HIDE DEF m, l, n
    <3> QED BY <1>3, <1>5
  <2> HIDE DEF m, l
  <2> QED BY <1>5, <1>6, <2>1, SeqEqual
<1>8. CASE k = 0
  <2>1. SubSeq(content, 1, Len(reply)) = reply
    BY <1>1, <1>7, <1>8
  <2>2. SubSeq(reply, 1, Len(reply)) = reply
    BY SubSeqFull
  <2> QED BY <1>2, <1>7, <2>1, <2>2 DEF IsPrefix
<1> QED BY <1>2, <1>7, <1>8

(* What the reply is after a byte, after a line, and at its beginning.     *)
LEMMA ReplyGrows ==
  ASSUME SessionTypes, NEW c \in Clients, NEW byte \in Byte,
         \/ line'[c] = Append(line[c], byte) /\ sent'[c] = sent[c]
         \/ line'[c] = <<>> /\ sent'[c] = Append(sent[c], Append(line[c], byte))
  PROVE  Reply(c)' = Append(Reply(c), byte)
<1> DEFINE L == line[c]
           F == FlattenSeq(sent[c])
           more == Append(L, byte)
<1>1. L \in Seq(Byte) /\ sent[c] \in Seq(Seq(Byte)) /\ F \in Seq(Byte)
  BY FlattenType DEF SessionTypes
<1>2. more \in Seq(Byte) /\ more = L \o <<byte>> /\ <<byte>> \in Seq(Byte)
  <2> HIDE DEF L
  <2> QED BY <1>1, AppendProperties, AppendIsConcat
<1>3. F \o more = Append(F \o L, byte)
  <2> HIDE DEF F, L, more
  <2>1. F \o more = (F \o L) \o <<byte>>
    BY <1>1, <1>2, ConcatAssociative
  <2>2. F \o L \in Seq(Byte)
    BY <1>1, ConcatProperties
  <2> QED BY <2>1, <2>2, AppendIsConcat
<1>4. CASE line'[c] = more /\ sent'[c] = sent[c]
  BY <1>3, <1>4 DEF Reply
<1>5. CASE line'[c] = <<>> /\ sent'[c] = Append(sent[c], more)
  <2>1. FlattenSeq(sent'[c]) = F \o more
    <3> HIDE DEF more
    <3> QED BY <1>1, <1>2, <1>5, FlattenAppend
  <2>2. F \o more \in Seq(Byte)
    <3> HIDE DEF F, more
    <3> QED BY <1>1, <1>2, ConcatProperties
  <2>3. FlattenSeq(sent'[c]) \o <<>> = F \o more
    <3> HIDE DEF F, more
    <3> QED BY <2>1, <2>2, ConcatEmptySeq
  <2> QED BY <1>3, <1>5, <2>3 DEF Reply
<1> QED BY <1>4, <1>5

LEMMA ReplyIsEmpty ==
  ASSUME NEW c, sent[c] = <<>>, line[c] = <<>>
  PROVE  Reply(c) = <<>>
BY FlattenEmpty, EmptySeq, ConcatEmptySeq DEF Reply

(* A step that touches neither a session nor the content.                  *)
LEMMA SameReply ==
  ASSUME NEW d \in Clients, ReplySoFar(d),
         UNCHANGED <<thread[d], sent[d], line[d], wrote[d], fd[d], f_pos[d],
                     use_aesd_char_device, main_pos, Stored>>
  PROVE  ReplySoFar(d)'
<1>1. NoDevice(d)' <=> NoDevice(d)
  BY DEF NoDevice
<1>2. ASSUME NEW k \in Nat PROVE ReplyFrom(d, k)' <=> ReplyFrom(d, k)
  <2>1. Reply(d)' = Reply(d) /\ Content' = Content /\ Pos(d)' = Pos(d)
    BY DEF Reply, Content, Pos
  <2> QED BY <2>1 DEF ReplyFrom, Piece
<1> QED BY <1>1, <1>2 DEF ReplySoFar

(* The reply of a session that begins it.                                  *)
LEMMA ReplyBegins ==
  ASSUME SessionTypes, SessionTypes', NEW c \in Clients,
         sent'[c] = <<>>, line'[c] = <<>>,
         wrote'[c] => Pos(c)' = 0 /\ ~NoDevice(c)'
  PROVE  ReplySoFar(c)'
<1>1. Reply(c)' = <<>>
  BY FlattenEmpty, EmptySeq, ConcatEmptySeq DEF Reply
<1>2. Content' \in Seq(Byte) /\ Len(Content') \in Nat
  <2>1. Stored' \in Seq(Seq(Byte))
    BY DEF SessionTypes, Stored
  <2> QED BY <2>1, FlattenType, LenProperties DEF Content
<1>3. Pos(c)' \in Nat
  BY DEF Pos, SessionTypes, TypeOK
<1>4. PICK k \in 0 .. Len(Content') :
        /\ Pos(c)' = k \/ Pos(c)' >= Len(Content')
        /\ Pos(c)' = 0 => k = 0
  <2>1. CASE Pos(c)' <= Len(Content')
    BY <1>2, <1>3, <2>1
  <2>2. CASE Pos(c)' > Len(Content')
    BY <1>2, <1>3, <2>2
  <2> QED BY <1>2, <1>3, <2>1, <2>2
<1>5. Piece(<<>>, Content', k)
  BY <1>2, PieceNothing
<1>6. ReplyFrom(c, k)'
  <2>1. Len(<<>>) = 0 /\ k + 0 = k
    BY <1>2
  <2> QED BY <1>1, <1>4, <1>5, <2>1 DEF ReplyFrom, Piece
<1>7. ~NoDevice(c)' => ReplySoFar(c)'
  <2>1. k \in Nat
    BY <1>2
  <2> QED BY <1>6, <2>1 DEF ReplySoFar
<1>8. wrote'[c] \in BOOLEAN
  BY DEF SessionTypes, TypeOK
<1>9. NoDevice(c)' => ReplySoFar(c)'
  BY <1>8 DEF ReplySoFar
<1> QED BY <1>7, <1>9

(* A byte or a line more.                                                  *)
LEMMA ReplyAdvances ==
  ASSUME SessionTypes, NEW c \in Clients, InReply,
         ReplyByte(c) \/ ReplyLine(c)
  PROVE  ReplySoFar(c)' /\ Pos(c)' = Pos(c) + 1
<1>1. /\ thread[c] = "reply" /\ Usable(c) /\ Pos(c) < Len(Content)
      /\ SetPos(c, Pos(c) + 1)
      /\ UNCHANGED <<wrote, store, fd, use_aesd_char_device>>
  BY DEF ReplyByte, ReplyLine, Move, MoreToRead, rest
<1>2. ~NoDevice(c) /\ ~NoDevice(c)'
  BY <1>1 DEF Usable, NoDevice
<1>3. PICK k \in Nat : ReplyFrom(c, k)
  BY <1>1, <1>2 DEF InReply, ReplySoFar
<1>4. Content \in Seq(Byte) /\ Len(Content) \in Nat /\ Reply(c) \in Seq(Byte)
      /\ Len(Reply(c)) \in Nat /\ Pos(c) \in Nat
  BY ContentIsBytes, ReplyIsBytes DEF Pos, SessionTypes, TypeOK
<1>5. Pos(c) = k + Len(Reply(c))
  BY <1>1, <1>3, <1>4 DEF ReplyFrom
<1>6. NextByte(c) = Content[k + Len(Reply(c)) + 1]
  BY <1>5 DEF NextByte
<1>7. NextByte(c) \in Byte
  BY <1>1, <1>4, ElementOfSeq DEF NextByte
<1>8. Reply(c)' = Append(Reply(c), NextByte(c))
  <2>1. line \in [Clients -> Seq(Byte)] /\ sent \in [Clients -> Seq(Seq(Byte))]
    BY DEF SessionTypes
  <2>2. CASE ReplyByte(c)
    <3>1. line'[c] = Append(line[c], NextByte(c)) /\ sent'[c] = sent[c]
      BY <2>1, <2>2 DEF ReplyByte, Keep
    <3> QED BY <1>7, <3>1, ReplyGrows
  <2>3. CASE ReplyLine(c)
    <3>1. line'[c] = <<>> /\ sent'[c] = Append(sent[c], Append(line[c], NextByte(c)))
      BY <2>1, <2>3 DEF ReplyLine
    <3> QED BY <1>7, <3>1, ReplyGrows
  <2> QED BY <2>2, <2>3
<1>9. Content' = Content
  BY <1>1 DEF Content, Stored, store
<1>10. Pos(c)' = Pos(c) + 1
  BY <1>1 DEF SetPos, Pos, SessionTypes, TypeOK
<1>11. Piece(Reply(c)', Content', k) /\ Len(Reply(c)') = Len(Reply(c)) + 1
  <2>1. Piece(Reply(c), Content, k) /\ k + Len(Reply(c)) < Len(Content)
    BY <1>1, <1>3, <1>5 DEF ReplyFrom
  <2> QED BY <1>4, <1>6, <1>8, <1>9, <2>1, PieceNext
<1>12. ReplyFrom(c, k)'
  <2>1. wrote' = wrote
    BY <1>1
  <2>2. Pos(c)' = k + Len(Reply(c)')
    BY <1>4, <1>5, <1>10, <1>11
  <2> QED BY <1>3, <1>11, <2>1, <2>2 DEF ReplyFrom, Piece
<1> QED BY <1>2, <1>10, <1>12 DEF ReplySoFar

(* The steps of one session, for itself.                                   *)
LEMMA InReplyOwn ==
  ASSUME SessionTypes, SessionTypes', Holding, NEW c \in Clients, InReply,
         Connect(c) \/ Read(c) \/ Serve(c) \/ Joined(c)
  PROVE  ReplySoFar(c)'
<1> SUFFICES ASSUME thread'[c] = "reply" PROVE ReplySoFar(c)'
  BY DEF ReplySoFar
<1>1. thread \in [Clients -> {"none", "receive", "lock", "write", "seek", "reply",
                              "close", "complete", "killed"}]
  BY DEF SessionTypes, TypeOK
<1>2. CASE ReplyByte(c) \/ ReplyLine(c)
  BY <1>2, ReplyAdvances
<1>3. CASE SendFails(c)
  <2>1. thread[c] = "reply"
    BY <1>3 DEF SendFails
  <2> QED BY <1>3, <2>1, SameReply DEF SendFails, InReply, local, store, files, Stored
<1>4. CASE WriteLine(c) \/ WriteFails(c)
  <2>1. BeginReply(c) /\ thread[c] = "write"
    BY <1>4 DEF WriteLine, WriteFails, Move
  <2>2. sent'[c] = <<>> /\ line'[c] = <<>>
    BY <2>1 DEF BeginReply, Holding, NothingSent, SessionTypes
  <2>3. Pos(c)' = 0
    <3>1. f_pos \in [Clients -> Nat] /\ use_aesd_char_device' = use_aesd_char_device
      BY <2>1 DEF BeginReply, rest, SessionTypes, TypeOK
    <3>2. SetPos(c, 0)
      BY <2>1 DEF BeginReply
    <3> QED BY <3>1, <3>2 DEF SetPos, Pos
  <2>4. wrote'[c] => ~NoDevice(c)'
    <3>1. CASE WriteLine(c)
      BY <3>1 DEF WriteLine, BeginReply, Usable, NoDevice, rest
    <3>2. CASE WriteFails(c)
      BY <2>1, <3>2 DEF WriteFails, Holding, NothingSent
    <3> QED BY <1>4, <3>1, <3>2
  <2> QED BY <2>2, <2>3, <2>4, ReplyBegins
<1>5. CASE Seek(c)
  <2>1. sent'[c] = <<>> /\ line'[c] = <<>> /\ ~wrote'[c]
    BY <1>5 DEF Seek, Move, Holding, NothingSent, SessionTypes
  <2> QED BY <2>1, ReplyBegins
<1>6. CASE \/ Connect(c) \/ ReceiveByte(c) \/ ReceiveLine(c) \/ ReceiveNothing(c)
           \/ ReplyEnds(c) \/ ReplyFails(c) \/ Lock(c) \/ WriteKills(c) \/ CloseUnlock(c)
           \/ Joined(c)
  <2>1. thread'[c] # "reply"
    BY <1>1, <1>6 DEF Connect, ReceiveByte, ReceiveLine, ReceiveNothing, ReplyEnds, ReplyFails,
                Lock, WriteKills, CloseUnlock, Joined, Move
  <2> QED BY <2>1
<1> QED BY <1>2, <1>3, <1>4, <1>5, <1>6 DEF Read, Serve

(* The steps of one session, for one that holds the mutex: they touch      *)
(* nothing of it.                                                          *)
LEMMA OthersWait ==
  ASSUME SessionTypes, Holding, NEW c \in Clients, NEW d \in Clients, c # d,
         thread[d] \in Inside,
         Connect(c) \/ Read(c) \/ Serve(c) \/ Joined(c)
  PROVE  UNCHANGED <<thread[d], text[d], sent[d], line[d], wrote[d], return_flag[d], fd[d],
                     f_pos[d], use_aesd_char_device, main_fd, main_pos, log, pending, file>>
<1>1. mutex = d /\ thread[c] \notin Inside /\ mutex # NULL
  BY SessionAssumption DEF Holding, HoldsMutex
<1>2. \/ Connect(c) \/ ReceiveByte(c) \/ ReceiveLine(c) \/ ReceiveNothing(c) \/ Joined(c)
  BY <1>1 DEF Read, Serve, ReplyByte, ReplyLine, ReplyEnds, ReplyFails, SendFails,
              Lock, WriteLine, WriteFails, WriteKills, Seek, CloseUnlock, Move, Inside
<1>3. CASE Connect(c)
  BY <1>3 DEF Connect, Move, SessionTypes, TypeOK, store, files
<1>4. CASE ReceiveByte(c)
  BY <1>4 DEF ReceiveByte, Move, Keep, SessionTypes, TypeOK, store, files, rest
<1>5. CASE ReceiveLine(c)
  <2>1. PICK flag, bytes : Return(c, flag, bytes)
    BY <1>5 DEF ReceiveLine
  <2> QED BY <1>5, <2>1 DEF ReceiveLine, Move, Return, SessionTypes, TypeOK, store, files, rest
<1>6. CASE ReceiveNothing(c)
  <2>1. PICK flag : Return(c, flag, <<>>)
    BY <1>6 DEF ReceiveNothing
  <2> QED BY <1>6, <2>1 DEF ReceiveNothing, Move, Return, SessionTypes, TypeOK, store, files, rest
<1>7. CASE Joined(c)
  BY <1>7 DEF Joined, Move, SessionTypes, TypeOK, local, store, files, rest
<1> QED BY <1>2, <1>3, <1>4, <1>5, <1>6, <1>7

(* The module is not emptied below a session.                              *)
LEMMA DeviceKept ==
  ASSUME ModuleStep, OpenKeepsModule, NEW c \in Clients, fd[c] = "open"
  PROVE  log' = log /\ pending' = pending
<1>1. module = "live"
  BY DEF OpenKeepsModule, M!OpenKeepsModule, opens
<1> QED BY <1>1
    DEF ModuleStep, M!Kernel, M!InitRegion, M!InitEntry, M!InitCdev, M!CleanupCdev,
        M!CleanupMemory, M!CleanupRegion, M!Out, M!Scripts, M!Insmod, M!ModprobeLoaded,
        M!MakeNode, M!Rmmod, M!RemoveNode, M!Go

(* A timestamp goes behind the content, and the position with it.          *)
LEMMA StampBehind ==
  ASSUME SessionTypes, Timestamp
  PROVE  /\ Content' = Content \o Stamp
         /\ Len(Content') = Len(Content) + Len(Stamp)
         /\ main_pos' = Len(Content')
<1>1. Stamp \in Seq(Byte) /\ Content \in Seq(Byte)
  BY TextsAreBytes, ContentIsBytes
<1>2. ~use_aesd_char_device /\ ~use_aesd_char_device' /\ file' = Append(file, Stamp)
      /\ main_pos' = Len(Content) + Len(Stamp)
  BY DEF Timestamp, FileWrite
<1>3. Content' = Content \o Stamp
  <2>1. file \in Seq(Seq(Byte))
    BY DEF SessionTypes
  <2>2. FlattenSeq(Append(file, Stamp)) = FlattenSeq(file) \o Stamp
    BY <1>1, <2>1, FlattenAppend
  <2> QED BY <1>2, <2>2 DEF Content, Stored
<1>4. Len(Content \o Stamp) = Len(Content) + Len(Stamp)
  BY <1>1, ConcatProperties
<1> QED BY <1>2, <1>3, <1>4

LEMMA InReplyStep ==
  ASSUME SessionTypes, SessionTypes', Holding, InReply, OpenKeepsModule,
         [SystemNext]_systemVars
  PROVE  InReply'
<1> SUFFICES ASSUME NEW d \in Clients PROVE ReplySoFar(d)'
  BY DEF InReply
<1>1. ReplySoFar(d)
  BY DEF InReply
<1>2. ASSUME NEW c \in Clients, Connect(c) \/ Read(c) \/ Serve(c) \/ Joined(c)
      PROVE  ReplySoFar(d)'
  <2>1. CASE c = d
    BY <1>2, <2>1, InReplyOwn
  <2>2. CASE c # d /\ thread[d] \in Inside
    <3>1. UNCHANGED <<thread[d], sent[d], line[d], wrote[d], fd[d], f_pos[d],
                      use_aesd_char_device, main_pos, log, file>>
      BY <1>2, <2>2, OthersWait
    <3> QED BY <1>1, <3>1, SameReply DEF Stored
  <2>3. CASE c # d /\ thread[d] \notin Inside
    <3>1. thread'[d] = thread[d] \/ SendFails(c)
      <4>1. CASE Connect(c) \/ Joined(c)
        BY <2>3, <4>1 DEF SessionTypes, TypeOK, Connect, Joined, Move
      <4>2. CASE Read(c)
        <5>1. SendFails(c) \/ \E to : thread' = [thread EXCEPT ![c] = to]
          BY <4>2 DEF Read, Move, ReceiveByte, ReceiveLine, ReceiveNothing, ReplyByte,
               ReplyLine, ReplyEnds, ReplyFails
        <5> QED BY <2>3, <5>1 DEF SessionTypes, TypeOK
      <4>3. CASE Serve(c)
        BY <2>3, <4>3 DEF SessionTypes, TypeOK, Serve, Move, Lock, WriteLine, WriteFails,
             WriteKills, Seek, CloseUnlock
      <4> QED BY <1>2, <4>1, <4>2, <4>3
    <3>2. thread'[d] # "reply"
      BY <2>3, <3>1 DEF SendFails, Inside
    <3> QED BY <3>2 DEF ReplySoFar
  <2> QED BY <2>1, <2>2, <2>3
<1>3. CASE Timestamp
  <2>1. ~use_aesd_char_device /\ UNCHANGED <<thread, local, fd, use_aesd_char_device>>
    BY <1>3 DEF Timestamp
  <2>2. ~NoDevice(d) /\ ~NoDevice(d)'
    BY <2>1 DEF NoDevice
  <2> SUFFICES ASSUME thread[d] = "reply" PROVE \E k \in Nat : ReplyFrom(d, k)'
    BY <2>1, <2>2 DEF ReplySoFar
  <2>3. PICK k \in Nat : ReplyFrom(d, k)
    BY <1>1, <2>2 DEF ReplySoFar
  <2>4. Content \in Seq(Byte) /\ Stamp \in Seq(Byte) /\ Reply(d) \in Seq(Byte)
    BY ContentIsBytes, TextsAreBytes, ReplyIsBytes
  <2>5. Reply(d)' = Reply(d)
    BY <2>1 DEF Reply, local
  <2>6. Piece(Reply(d)', Content', k)
    <3>1. Piece(Reply(d), Content \o Stamp, k)
      BY <2>3, <2>4, PieceMore DEF ReplyFrom
    <3> QED BY <1>3, <2>5, <3>1, StampBehind
  <2>7. Pos(d)' >= Len(Content')
    <3>1. Pos(d)' = Len(Content')
      BY <1>3, <2>1, StampBehind DEF Pos
    <3>2. Len(Content') \in Nat
      BY <1>3, <2>4, StampBehind, LenProperties
    <3> QED BY <3>1, <3>2
  <2>8. wrote'[d] => k = 0
    BY <2>1, <2>3 DEF local, ReplyFrom
  <2>9. ReplyFrom(d, k)'
    BY <2>6, <2>7, <2>8 DEF ReplyFrom, Piece
  <2> QED BY <2>9
<1>4. CASE CloseMain
  BY <1>1, <1>4, SameReply DEF CloseMain, local, store, rest, Stored
<1>5. CASE SessionStep
  BY <1>2, <1>3, <1>4, <1>5 DEF SessionStep, Next
<1>6. CASE ModuleStep
  <2>1. UNCHANGED <<thread, local, file, files, rest>> /\ use_aesd_char_device
    BY <1>6 DEF ModuleStep
  <2>2. CASE fd[d] = "open"
    <3>1. log' = log
      BY <1>6, <2>2, DeviceKept
    <3> QED BY <1>1, <2>1, <3>1, SameReply DEF local, files, rest, Stored
  <2>3. CASE fd[d] # "open"
    <3>1. NoDevice(d) /\ NoDevice(d)'
      BY <2>1, <2>3 DEF NoDevice, files, rest
    <3> QED BY <1>1, <2>1, <3>1 DEF ReplySoFar, local
  <2> QED BY <2>2, <2>3
<1>7. CASE UNCHANGED systemVars
  BY <1>1, <1>7, SameReply DEF systemVars, vars, local, store, files, rest, Stored
<1> QED BY <1>5, <1>6, <1>7 DEF SystemNext

(* The types, who holds what, and where each reply is, together: this is   *)
(* inductive as long as the module stays below a session.                  *)
SessionInv == SessionTypes /\ Holding /\ InReply

LEMMA SessionInvariant == SystemSpec => []SessionInv
<1>1. SystemInit => SessionInv
  <2> SUFFICES ASSUME SystemInit PROVE SessionInv
    OBVIOUS
  <2>1. SessionTypes
    BY SessionTypesHold
  <2>2. Holding
    BY SessionAssumption
       DEF SystemInit, Init, Holding, HoldsMutex, HoldsDevice, NothingSent, Inside
  <2>3. InReply
    BY DEF SystemInit, Init, InReply, ReplySoFar
  <2> QED BY <2>1, <2>2, <2>3 DEF SessionInv
<1>2. SessionInv /\ OpenKeepsModule /\ [SystemNext]_systemVars => SessionInv'
  BY SessionTypesStep, HoldingStep, InReplyStep DEF SessionInv
<1> QED BY <1>1, <1>2, NoCallIntoCleanup, PTL DEF SystemSpec

(* Everything of a session has its type (AesdSession).                     *)
THEOREM SessionTypeCorrect == SystemSpec => []TypeOK
<1>1. SessionInv => TypeOK
  BY DEF SessionInv, SessionTypes
<1> QED BY <1>1, SessionInvariant, PTL

(* The bytes of a line and the null character behind them fit into the     *)
(* buffer, whatever was received and read (read_until_term).               *)
THEOREM LineFitsBuffer == SystemSpec => []BufferFits
<1>1. SessionInv => BufferFits
  BY DEF SessionInv, SessionTypes
<1> QED BY <1>1, SessionInvariant, PTL

(* A reply is an unbroken piece of the content, from its beginning when    *)
(* the client's line was written, whatever the other sessions, the timer   *)
(* and the scripts do meanwhile (sock_thread_func).                        *)
THEOREM ReplyUnbroken == SystemSpec => []ReplyIsContent
<1>1. ASSUME SessionInv PROVE ReplyIsContent
  <2> SUFFICES ASSUME NEW c \in Clients, thread[c] = "reply"
               PROVE  /\ \E k \in 0 .. Len(Content) - Len(Reply(c)) :
                           SubSeq(Content, k + 1, k + Len(Reply(c))) = Reply(c)
                      /\ wrote[c] => IsPrefix(Reply(c), Content)
    BY DEF ReplyIsContent
  <2>1. Content \in Seq(Byte) /\ Reply(c) \in Seq(Byte)
    BY <1>1, ContentIsBytes, ReplyIsBytes DEF SessionInv
  <2>2. \E k \in Nat : Piece(Reply(c), Content, k) /\ (wrote[c] => k = 0)
    <3>1. CASE NoDevice(c)
      <4>1. sent[c] = <<>> /\ line[c] = <<>>
        BY <1>1, <3>1 DEF SessionInv, InReply, ReplySoFar
      <4>2. Reply(c) = <<>> /\ 0 \in 0 .. Len(Content)
        BY <2>1, <4>1, ReplyIsEmpty, LenProperties
      <4>3. Piece(Reply(c), Content, 0)
        BY <2>1, <4>2, PieceNothing
      <4> QED BY <4>3
    <3>2. CASE ~NoDevice(c)
      BY <1>1, <3>2 DEF SessionInv, InReply, ReplySoFar, ReplyFrom
    <3> QED BY <3>1, <3>2
  <2>3. PICK k \in Nat : Piece(Reply(c), Content, k) /\ (wrote[c] => k = 0)
    BY <2>2
  <2>4. /\ k \in 0 .. Len(Content) - Len(Reply(c))
        /\ SubSeq(Content, k + 1, k + Len(Reply(c))) = Reply(c)
        /\ k = 0 => IsPrefix(Reply(c), Content)
    BY <2>1, <2>3, PieceIsSubSeq
  <2> QED BY <2>3, <2>4
<1> QED BY <1>1, SessionInvariant, PTL

-----------------------------------------------------------------------------
(* A client gets its own line back.                                        *)

(* What was received is the beginning of the client's text, without a      *)
(* newline in it, and then the whole of a whole line.                      *)
ReceivedLine(c) ==
  /\ thread[c] = "receive" =>
       /\ Len(line[c]) <= Len(text[c])
       /\ \A i \in 1 .. Len(line[c]) : line[c][i] = text[c][i] /\ line[c][i] # NL
  /\ thread[c] \in {"lock", "write"} /\ WholeLine(c) => line[c] = text[c]

(* Only whole lines are sent, and a line being read has no newline yet.    *)
SentLines(c) ==
  /\ \A i \in 1 .. Len(sent[c]) : sent[c][i] # <<>> /\ Last(sent[c][i]) = NL
  /\ thread[c] = "reply" => ~Contains(line[c], NL)

(* While a reply is read, the content ends with the line that was written, *)
(* and the position is that of the reply, unless the timer has fired.      *)
Stamped == ~use_aesd_char_device /\ file # <<>> /\ Last(file) = Stamp

EndsWith(content, x) == \E p \in Seq(Byte) : content = p \o x

OwnLineLast(c) ==
  thread[c] = "reply" /\ wrote[c] /\ WholeLine(c) /\ ~Stamped
  => EndsWith(Content, text[c]) /\ Pos(c) = Len(Reply(c))

Answered(c) ==
  /\ thread[c] = "close" /\ return_flag[c] \in {4, 5}
  /\ wrote[c] /\ WholeLine(c)
  /\ use_aesd_char_device \/ (main_fd /\ Last(file) # Stamp)
  => sent[c] # <<>> /\ IsSuffix(text[c], Last(sent[c]))

OwnLineInv == \A c \in Clients :
  ReceivedLine(c) /\ SentLines(c) /\ OwnLineLast(c) /\ Answered(c)

-----------------------------------------------------------------------------
(* The end of a sequence, element by element.                              *)
LEMMA SuffixElements ==
  ASSUME NEW S, NEW x \in Seq(S), NEW y \in Seq(S), Len(x) <= Len(y),
         \A i \in 1 .. Len(x) : x[i] = y[Len(y) - Len(x) + i]
  PROVE  IsSuffix(x, y)
<1> DEFINE m == Len(x)
           n == Len(y)
           rx == [i \in 1 .. Len(x) |-> x[(Len(x) - i) + 1]]
           ry == [i \in 1 .. Len(y) |-> y[(Len(y) - i) + 1]]
<1>1. m \in Nat /\ n \in Nat
  BY LenProperties
<1>2. Reverse(x) = rx /\ Reverse(y) = ry
  BY DEF Reverse
<1>3. rx \in Seq(S) /\ Len(rx) = m
  <2>1. \A i \in 1 .. m : x[(m - i) + 1] \in S
    BY <1>1, ElementOfSeq
  <2> QED BY <1>1, <2>1
<1>4. ry \in Seq(S) /\ Len(ry) = n
  <2>1. \A i \in 1 .. n : y[(n - i) + 1] \in S
    BY <1>1, ElementOfSeq
  <2> QED BY <1>1, <2>1
<1>5. \A i \in 1 .. m : rx[i] = ry[i]
  <2> SUFFICES ASSUME NEW i \in 1 .. m PROVE rx[i] = ry[i]
    OBVIOUS
  <2>1. (m - i) + 1 \in 1 .. m /\ i \in 1 .. n /\ n - m + ((m - i) + 1) = (n - i) + 1
    BY <1>1
  <2>2. x[(m - i) + 1] = y[n - m + ((m - i) + 1)]
    BY <2>1
  <2> QED BY <2>1, <2>2
<1>6. SubSeq(rx, 1, m) = SubSeq(ry, 1, m)
  <2>1. \A i \in 1 .. m : rx[i] \in S /\ ry[i] \in S
    <3> HIDE DEF rx, ry
    <3> QED BY <1>1, <1>3, <1>5, ElementOfSeq
  <2> HIDE DEF rx, ry, m
  <2>2. /\ SubSeq(rx, 1, m) \in Seq(S) /\ SubSeq(ry, 1, m) \in Seq(S)
        /\ Len(SubSeq(rx, 1, m)) = (IF 1 <= m THEN m - 1 + 1 ELSE 0)
        /\ Len(SubSeq(ry, 1, m)) = (IF 1 <= m THEN m - 1 + 1 ELSE 0)
        /\ \A i \in 1 .. m - 1 + 1 : SubSeq(rx, 1, m)[i] = rx[1 + i - 1]
        /\ \A i \in 1 .. m - 1 + 1 : SubSeq(ry, 1, m)[i] = ry[1 + i - 1]
    BY <1>1, <2>1, SubSeqProperties
  <2>3. \A i \in 1 .. Len(SubSeq(rx, 1, m)) : SubSeq(rx, 1, m)[i] = SubSeq(ry, 1, m)[i]
    BY <1>1, <1>5, <2>2
  <2>4. Len(SubSeq(rx, 1, m)) = Len(SubSeq(ry, 1, m))
    BY <2>2
  <2> QED BY <2>2, <2>3, <2>4, SeqEqual
<1> HIDE DEF rx, ry
<1> QED BY <1>1, <1>2, <1>3, <1>4, <1>6 DEF IsSuffix, IsPrefix

(* When lines put together end with a line, the last one of them does.     *)
LEMMA LastLineEnds ==
  ASSUME NEW S, NEW lines \in Seq(Seq(S)), NEW p \in Seq(S), NEW x \in Seq(S),
         \A i \in 1 .. Len(lines) : lines[i] # <<>> /\ Last(lines[i]) = NL,
         x # <<>>, \A i \in 1 .. Len(x) - 1 : x[i] # NL,
         FlattenSeq(lines) = p \o x
  PROVE  lines # <<>> /\ IsSuffix(x, Last(lines))
<1>1. Len(p) \in Nat /\ Len(x) \in Nat \ {0} /\ Len(lines) \in Nat
  BY LenProperties, EmptySeq
<1>2. lines # <<>>
  BY FlattenEmpty, ConcatEqualIffEmpty
<1>3. PICK u \in Seq(Seq(S)), y \in Seq(S) : lines = Append(u, y)
  BY <1>2, SequenceEmptyOrAppend
<1> DEFINE w == FlattenSeq(u)
           N == Len(u)
<1>4. /\ N \in Nat /\ Len(lines) = N + 1 /\ lines[N + 1] = y
      /\ \A i \in 1 .. N : lines[i] = u[i]
  BY <1>3, AppendProperties, LenProperties
<1>5. Last(lines) = y /\ y # <<>> /\ Last(y) = NL /\ Len(y) \in Nat \ {0}
  <2>1. N + 1 \in 1 .. Len(lines)
    BY <1>4
  <2> QED BY <1>4, <2>1, EmptySeq DEF Last
<1>6. w \in Seq(S) /\ Len(w) \in Nat /\ w \o y = p \o x
  BY <1>3, FlattenType, FlattenAppend, LenProperties
<1>7. u # <<>> => Len(w) # 0 /\ w[Len(w)] = NL
  <2> SUFFICES ASSUME u # <<>> PROVE Len(w) # 0 /\ w[Len(w)] = NL
    OBVIOUS
  <2>1. PICK v \in Seq(Seq(S)), z \in Seq(S) : u = Append(v, z)
    BY SequenceEmptyOrAppend
  <2>2. N \in 1 .. N /\ u[N] = z
    <3>1. Len(u) = Len(v) + 1 /\ u[Len(v) + 1] = z /\ Len(v) \in Nat
      BY <2>1, AppendProperties, LenProperties
    <3> QED BY <3>1
  <2>3. z # <<>> /\ Last(z) = NL
    <3>1. lines[N] # <<>> /\ Last(lines[N]) = NL
      BY <1>4, <2>2
    <3> QED BY <1>4, <2>2, <3>1
  <2>4. FlattenSeq(v) \in Seq(S) /\ w = FlattenSeq(v) \o z
    BY <2>1, FlattenType, FlattenAppend
  <2> DEFINE q == FlattenSeq(v)
  <2>5. /\ Len(q) \in Nat /\ Len(z) \in Nat \ {0}
        /\ Len(w) = Len(q) + Len(z)
        /\ \A i \in 1 .. Len(q) + Len(z) : w[i] = IF i <= Len(q) THEN q[i] ELSE z[i - Len(q)]
    <3>0. q \in Seq(S) /\ w = q \o z
      BY <2>4
    <3> HIDE DEF q, w
    <3>1. Len(q) \in Nat /\ Len(z) \in Nat \ {0}
      BY <2>3, <3>0, LenProperties, EmptySeq
    <3>2. /\ Len(q \o z) = Len(q) + Len(z)
          /\ \A i \in 1 .. Len(q) + Len(z) :
               (q \o z)[i] = IF i <= Len(q) THEN q[i] ELSE z[i - Len(q)]
      BY <3>0, ConcatProperties
    <3> QED BY <3>0, <3>1, <3>2
  <2> HIDE DEF q, w
  <2>6. w[Len(w)] = z[Len(w) - Len(q)] /\ Len(w) - Len(q) = Len(z)
    <3>1. Len(w) \in 1 .. Len(q) + Len(z) /\ ~(Len(w) <= Len(q)) /\ Len(w) - Len(q) = Len(z)
      BY <2>5
    <3> QED BY <2>5, <3>1
  <2> QED BY <2>3, <2>5, <2>6 DEF Last
<1>8. u = <<>> => Len(w) = 0
  BY FlattenEmpty, EmptySeq
<1> HIDE DEF w
<1> DEFINE all == w \o y
<1>9. /\ Len(w) + Len(y) = Len(p) + Len(x)
      /\ \A i \in 1 .. Len(w) + Len(y) : all[i] = IF i <= Len(w) THEN w[i] ELSE y[i - Len(w)]
      /\ \A i \in 1 .. Len(p) + Len(x) : all[i] = IF i <= Len(p) THEN p[i] ELSE x[i - Len(p)]
  BY <1>6, ConcatProperties
<1> HIDE DEF all
<1>10. Len(x) <= Len(y)
  <2> SUFFICES ASSUME Len(x) > Len(y) PROVE FALSE
    BY <1>1, <1>5
  <2>1. Len(w) # 0 /\ w[Len(w)] = NL
    BY <1>1, <1>5, <1>6, <1>7, <1>8, <1>9
  <2>2. all[Len(w)] = w[Len(w)]
    <3>1. Len(w) \in 1 .. Len(w) + Len(y) /\ Len(w) <= Len(w)
      BY <1>5, <1>6, <2>1
    <3> QED BY <1>9, <3>1
  <2>3. all[Len(w)] = x[Len(w) - Len(p)]
    <3>1. Len(w) + Len(y) = Len(p) + Len(x)
      BY <1>9
    <3>2. Len(w) \in 1 .. Len(p) + Len(x) /\ ~(Len(w) <= Len(p))
      BY <1>1, <1>5, <1>6, <2>1, <3>1
    <3> QED BY <1>9, <3>2
  <2>4. Len(w) - Len(p) \in 1 .. Len(x) - 1
    BY <1>1, <1>5, <1>6, <1>9
  <2> QED BY <2>1, <2>2, <2>3, <2>4
<1>11. ASSUME NEW i \in 1 .. Len(x) PROVE x[i] = y[Len(y) - Len(x) + i]
  <2> DEFINE k == Len(p) + i
  <2>1. k \in 1 .. Len(p) + Len(x) /\ ~(k <= Len(p)) /\ k - Len(p) = i
    BY <1>1
  <2>2. Len(w) + Len(y) = Len(p) + Len(x)
    BY <1>9
  <2>3. k \in 1 .. Len(w) + Len(y) /\ ~(k <= Len(w)) /\ k - Len(w) = Len(y) - Len(x) + i
    <3>1. Len(w) \in Nat /\ Len(y) \in Nat /\ Len(p) \in Nat /\ Len(x) \in Nat
      BY <1>1, <1>5, <1>6
    <3>2. i \in 1 .. Len(x)
      OBVIOUS
    <3>3. /\ Len(p) + i \in 1 .. Len(w) + Len(y) /\ ~(Len(p) + i <= Len(w))
          /\ Len(p) + i - Len(w) = Len(y) - Len(x) + i
      <4> DEFINE A == Len(w)  B == Len(y)  C == Len(p)  D == Len(x)
      <4>1. A \in Nat /\ B \in Nat /\ C \in Nat /\ D \in Nat /\ A + B = C + D /\ D <= B
            /\ i \in 1 .. D
        BY <1>10, <2>2, <3>1, <3>2
      <4> HIDE DEF A, B, C, D
      <4>2. C + i \in 1 .. A + B /\ ~(C + i <= A) /\ C + i - A = B - D + i
        BY <4>1
      <4> QED BY <4>2 DEF A, B, C, D
    <3> QED BY <3>3
  <2> HIDE DEF k
  <2> QED BY <1>9, <2>1, <2>3
<1>12. IsSuffix(x, y)
  BY <1>10, <1>11, SuffixElements
<1> QED BY <1>2, <1>5, <1>12

(* What a session has of its own, the others do not touch.                 *)
LEMMA OwnFields ==
  ASSUME SessionTypes, NEW c \in Clients, NEW d \in Clients, c # d,
         Connect(c) \/ Read(c) \/ Serve(c) \/ Joined(c)
  PROVE  UNCHANGED <<thread[d], text[d], sent[d], line[d], wrote[d], return_flag[d]>>
<1>1. CASE Connect(c) \/ Joined(c)
  BY <1>1 DEF Connect, Joined, Move, SessionTypes, TypeOK, local
<1>2. CASE ReceiveByte(c) \/ ReplyByte(c)
  BY <1>2 DEF ReceiveByte, ReplyByte, Move, Keep, SessionTypes, TypeOK
<1>3. CASE ReceiveLine(c) \/ ReceiveNothing(c) \/ ReplyEnds(c) \/ ReplyFails(c)
  <2>1. PICK flag, bytes : Return(c, flag, bytes)
    BY <1>3 DEF ReceiveLine, ReceiveNothing, ReplyEnds, ReplyFails
  <2>2. UNCHANGED <<text, wrote, sent>> /\ thread'[d] = thread[d]
    BY <1>3 DEF ReceiveLine, ReceiveNothing, ReplyEnds, ReplyFails, Move, SessionTypes, TypeOK
  <2> QED BY <2>1, <2>2 DEF Return, SessionTypes, TypeOK
<1>4. CASE ReplyLine(c) \/ SendFails(c)
  BY <1>4 DEF ReplyLine, SendFails, Move, SessionTypes, TypeOK, local
<1>5. CASE Lock(c) \/ WriteKills(c) \/ CloseUnlock(c)
  BY <1>5 DEF Lock, WriteKills, CloseUnlock, Move, SessionTypes, TypeOK, local
<1>6. CASE WriteLine(c) \/ WriteFails(c)
  BY <1>6 DEF WriteLine, WriteFails, BeginReply, Move, SessionTypes, TypeOK
<1>7. CASE Seek(c)
  BY <1>7 DEF Seek, Move, SessionTypes, TypeOK
<1> QED BY <1>1, <1>2, <1>3, <1>4, <1>5, <1>6, <1>7 DEF Read, Serve

(* What was received.                                                      *)
LEMMA ReceivedLineOwn ==
  ASSUME SessionTypes, NEW c \in Clients, ReceivedLine(c),
         Connect(c) \/ Read(c) \/ Serve(c) \/ Joined(c)
  PROVE  ReceivedLine(c)'
<1>1. /\ text[c] \in Seq(Byte) /\ line[c] \in Seq(Byte)
      /\ Len(text[c]) \in Nat /\ Len(line[c]) \in Nat
      /\ \A i \in 1 .. Len(text[c]) : text[c][i] \in Byte
  BY LenProperties, ElementOfSeq DEF SessionTypes
<1>2. CASE Connect(c)
  <2>1. thread'[c] = "receive" /\ line'[c] = <<>> /\ Len(text'[c]) \in Nat
    <3>1. text'[c] \in Texts
      BY <1>2 DEF Connect, SessionTypes
    <3> QED BY <1>2, <3>1, TextsAreBytes, LenProperties
            DEF Connect, Move, SessionTypes, TypeOK
  <2> QED BY <2>1, EmptySeq DEF ReceivedLine
<1>3. CASE ReceiveByte(c)
  <2> DEFINE n == Len(line[c])
             byte == text[c][n + 1]
  <2>1. thread[c] = "receive" /\ thread'[c] = "receive" /\ text'[c] = text[c]
        /\ n < Len(text[c]) /\ byte # NL
        /\ line'[c] = Append(line[c], byte)
    BY <1>3 DEF ReceiveByte, Received, Move, Keep, SessionTypes, TypeOK
  <2>2. byte \in Byte
    BY <1>1, <2>1
  <2>3. Len(line'[c]) = n + 1 /\ line'[c][n + 1] = byte
        /\ \A i \in 1 .. n : line'[c][i] = line[c][i]
    <3> HIDE DEF byte
    <3> QED BY <1>1, <2>1, <2>2, AppendProperties
  <2>4. ASSUME NEW i \in 1 .. Len(line'[c])
        PROVE  line'[c][i] = text[c][i] /\ line'[c][i] # NL
    <3>1. CASE i = n + 1
      BY <2>1, <2>3, <3>1
    <3>2. CASE i # n + 1
      <4>1. i \in 1 .. n
        BY <1>1, <2>3, <3>2
      <4> QED BY <2>1, <2>3, <4>1 DEF ReceivedLine
    <3> QED BY <3>1, <3>2
  <2> HIDE DEF n, byte
  <2>5. Len(line'[c]) <= Len(text'[c])
    BY <1>1, <2>1, <2>3 DEF n
  <2> QED BY <2>1, <2>4, <2>5 DEF ReceivedLine
<1>4. CASE ReceiveLine(c)
  <2> DEFINE n == Len(line[c])
  <2>1. thread[c] = "receive" /\ thread'[c] = "lock" /\ text'[c] = text[c]
        /\ \/ /\ n < Len(text[c]) /\ text[c][n + 1] = NL
              /\ line'[c] = Append(line[c], NL)
           \/ n = Len(text[c]) /\ line'[c] = line[c]
    BY <1>4 DEF ReceiveLine, Received, Move, Return, SessionTypes, TypeOK
  <2>2. \A i \in 1 .. n : line[c][i] = text[c][i] /\ line[c][i] # NL
    BY <2>1 DEF ReceivedLine
  <2>3. ASSUME WholeLine(c) PROVE line'[c] = text[c]
    <3>1. text[c] # <<>> /\ Last(text[c]) = NL
          /\ \A i \in 1 .. Len(text[c]) - 1 : text[c][i] # NL
      BY <2>3 DEF WholeLine
    <3>2. CASE n < Len(text[c]) /\ text[c][n + 1] = NL /\ line'[c] = Append(line[c], NL)
      <4>1. Len(text[c]) = n + 1
        BY <1>1, <3>1, <3>2
      <4>2. /\ Append(line[c], NL) \in Seq(Byte) /\ Len(Append(line[c], NL)) = n + 1
            /\ Append(line[c], NL)[n + 1] = NL
            /\ \A i \in 1 .. n : Append(line[c], NL)[i] = line[c][i]
        BY <1>1, TextsAreBytes, AppendProperties
      <4>3. ASSUME NEW i \in 1 .. n + 1 PROVE Append(line[c], NL)[i] = text[c][i]
        <5>1. CASE i = n + 1
          BY <3>2, <4>2, <5>1
        <5>2. CASE i # n + 1
          <6>1. i \in 1 .. n
            BY <1>1, <5>2
          <6> QED BY <2>2, <4>2, <6>1
        <5> QED BY <5>1, <5>2
      <4>4. Append(line[c], NL) = text[c]
        <5> DEFINE L == Append(line[c], NL)
        <5> HIDE DEF n, L
        <5>1. L \in Seq(Byte) /\ Len(L) = Len(text[c])
              /\ \A i \in 1 .. Len(L) : L[i] = text[c][i]
          BY <4>1, <4>2, <4>3 DEF L
        <5>2. L = text[c]
          BY <1>1, <5>1, SeqEqual
        <5> QED BY <5>2 DEF L
      <4> QED BY <3>2, <4>4
    <3>3. CASE n = Len(text[c]) /\ line'[c] = line[c]
      <4>1. Len(text[c]) \in 1 .. n
        BY <1>1, <3>1, <3>3, EmptySeq
      <4>2. text[c][Len(text[c])] # NL
        BY <2>2, <4>1
      <4> QED BY <3>1, <4>2 DEF Last
    <3> QED BY <2>1, <3>2, <3>3
  <2>4. WholeLine(c)' => WholeLine(c)
    BY <2>1 DEF WholeLine
  <2> QED BY <2>1, <2>3, <2>4 DEF ReceivedLine
<1>5. CASE Lock(c)
  <2>1. thread[c] = "lock" /\ thread'[c] # "receive" /\ UNCHANGED <<line, text>>
    BY <1>5 DEF Lock, Move, SessionTypes, TypeOK, local
  <2>2. WholeLine(c)' => WholeLine(c)
    BY <2>1 DEF WholeLine
  <2> QED BY <2>1, <2>2 DEF ReceivedLine
<1>6. CASE SendFails(c)
  <2>1. UNCHANGED <<thread, line, text>>
    BY <1>6 DEF SendFails, local
  <2> QED BY <2>1 DEF ReceivedLine, WholeLine
<1>7. CASE \/ ReceiveNothing(c) \/ ReplyByte(c) \/ ReplyLine(c) \/ ReplyEnds(c) \/ ReplyFails(c)
           \/ WriteLine(c) \/ WriteFails(c) \/ WriteKills(c) \/ Seek(c) \/ CloseUnlock(c)
           \/ Joined(c)
  <2>1. thread'[c] \notin {"receive", "lock", "write"}
    BY <1>7 DEF ReceiveNothing, ReplyByte, ReplyLine, ReplyEnds, ReplyFails, WriteLine,
       WriteFails, WriteKills, Seek, CloseUnlock, Joined, Move, SessionTypes, TypeOK
  <2> QED BY <2>1 DEF ReceivedLine
<1> QED BY <1>2, <1>3, <1>4, <1>5, <1>6, <1>7 DEF Read, Serve

(* What was sent.                                                          *)
LEMMA SentLinesOwn ==
  ASSUME SessionTypes, Holding, NEW c \in Clients, SentLines(c),
         Connect(c) \/ Read(c) \/ Serve(c) \/ Joined(c)
  PROVE  SentLines(c)'
<1>1. /\ line[c] \in Seq(Byte) /\ Len(line[c]) \in Nat
      /\ sent[c] \in Seq(Seq(Byte)) /\ Len(sent[c]) \in Nat
  BY LenProperties DEF SessionTypes
<1>2. ~Contains(<<>>, NL) /\ Len(<<>>) = 0
  BY DEF Contains
<1>3. CASE Connect(c)
  BY <1>2, <1>3 DEF Connect, Move, SessionTypes, TypeOK, SentLines
<1>4. CASE ReplyByte(c)
  <2> DEFINE byte == NextByte(c)
  <2>1. byte # NL /\ line'[c] = Append(line[c], byte) /\ sent' = sent /\ thread[c] = "reply"
    BY <1>4 DEF ReplyByte, Move, Keep, SessionTypes
  <2>2. byte \in Byte
    <3>1. Pos(c) \in Nat /\ Pos(c) < Len(Content)
      BY <1>4 DEF ReplyByte, MoreToRead, Pos, SessionTypes, TypeOK
    <3>2. Pos(c) + 1 \in 1 .. Len(Content)
      BY <3>1, ContentIsBytes
    <3> QED BY <3>2, ContentIsBytes, ElementOfSeq DEF NextByte
  <2> HIDE DEF byte
  <2>3. Len(line'[c]) = Len(line[c]) + 1 /\ line'[c][Len(line[c]) + 1] = byte
        /\ \A i \in 1 .. Len(line[c]) : line'[c][i] = line[c][i]
    BY <1>1, <2>1, <2>2, AppendProperties
  <2>4. ASSUME NEW i \in 1 .. Len(line'[c]) PROVE line'[c][i] # NL
    <3>1. CASE i = Len(line[c]) + 1
      BY <2>1, <2>3, <3>1
    <3>2. CASE i # Len(line[c]) + 1
      <4>1. i \in 1 .. Len(line[c])
        BY <1>1, <2>3, <3>2
      <4> QED BY <2>1, <2>3, <4>1 DEF SentLines, Contains
    <3> QED BY <3>1, <3>2
  <2>5. ~Contains(line'[c], NL)
    BY <2>4 DEF Contains
  <2> QED BY <2>1, <2>5 DEF SentLines
<1>5. CASE ReplyLine(c)
  <2> DEFINE whole == Append(line[c], NL)
  <2>1. sent'[c] = Append(sent[c], whole) /\ line'[c] = <<>>
    BY <1>5 DEF ReplyLine, SessionTypes
  <2>2. whole \in Seq(Byte) /\ whole # <<>> /\ Last(whole) = NL
    BY <1>1, TextsAreBytes, AppendProperties DEF Last
  <2> HIDE DEF whole
  <2>3. Len(sent'[c]) = Len(sent[c]) + 1 /\ sent'[c][Len(sent[c]) + 1] = whole
        /\ \A i \in 1 .. Len(sent[c]) : sent'[c][i] = sent[c][i]
    BY <1>1, <2>1, <2>2, AppendProperties
  <2>4. ASSUME NEW i \in 1 .. Len(sent'[c])
        PROVE  sent'[c][i] # <<>> /\ Last(sent'[c][i]) = NL
    <3>1. CASE i = Len(sent[c]) + 1
      BY <2>2, <2>3, <3>1
    <3>2. CASE i # Len(sent[c]) + 1
      <4>1. i \in 1 .. Len(sent[c])
        BY <1>1, <2>3, <3>2
      <4> QED BY <2>3, <4>1 DEF SentLines
    <3> QED BY <3>1, <3>2
  <2> QED BY <1>2, <2>1, <2>4 DEF SentLines
<1>6. CASE WriteLine(c) \/ WriteFails(c) \/ Seek(c)
  <2>1. line'[c] = <<>> /\ sent' = sent
    BY <1>6 DEF WriteLine, WriteFails, Seek, BeginReply, SessionTypes
  <2> QED BY <1>2, <2>1 DEF SentLines
<1>7. CASE SendFails(c)
  BY <1>7 DEF SendFails, local, SentLines
<1>8. CASE \/ ReceiveByte(c) \/ ReceiveLine(c) \/ ReceiveNothing(c) \/ ReplyEnds(c)
           \/ ReplyFails(c) \/ Lock(c) \/ WriteKills(c) \/ CloseUnlock(c) \/ Joined(c)
  <2>1. thread'[c] # "reply" /\ sent' = sent
    BY <1>8 DEF ReceiveByte, ReceiveLine, ReceiveNothing, ReplyEnds, ReplyFails, Lock,
       WriteKills, CloseUnlock, Joined, Move, SessionTypes, TypeOK, local
  <2> QED BY <2>1 DEF SentLines
<1> QED BY <1>3, <1>4, <1>5, <1>6, <1>7, <1>8 DEF Read, Serve

(* A whole line is written as it was received.                             *)
LEMMA WrittenIsText ==
  ASSUME SessionTypes, NEW c \in Clients, WholeLine(c), line[c] = text[c]
  PROVE  Written(c) = text[c] /\ Contains(text[c], NL)
<1> DEFINE x == text[c]
           nuls == {i \in DOMAIN line[c] : line[c][i] = NUL}
<1>1. x \in Seq(Byte) /\ Len(x) \in Nat \ {0} /\ DOMAIN x = 1 .. Len(x) /\ x[Len(x)] = NL
      /\ \A i \in 1 .. Len(x) - 1 : x[i] # NUL
  <2>1. x \in Seq(Byte) /\ x # <<>> /\ x[Len(x)] = NL
        /\ \A i \in 1 .. Len(x) - 1 : x[i] # NUL
    BY DEF SessionTypes, WholeLine, Last
  <2> HIDE DEF x
  <2> QED BY <2>1, LenProperties, EmptySeq
<1>2. nuls = {}
  <2> SUFFICES ASSUME NEW i \in 1 .. Len(x) PROVE x[i] # NUL
    BY <1>1
  <2>1. CASE i = Len(x)
    BY <1>1, <2>1, SessionAssumption
  <2>2. CASE i # Len(x)
    <3>1. i \in 1 .. Len(x) - 1
      BY <1>1, <2>2
    <3> QED BY <1>1, <3>1
  <2> QED BY <2>1, <2>2
<1>3. Written(c) = SubSeq(line[c], 1, Len(line[c]))
  <2>1. Written(c) = SubSeq(line[c], 1, IF nuls = {} THEN Len(line[c])
                            ELSE (CHOOSE i \in nuls : \A j \in nuls : i <= j) - 1)
    BY DEF Written
  <2> HIDE DEF nuls
  <2> QED BY <1>2, <2>1
<1>4. Written(c) = x
  <2>1. SubSeq(x, 1, Len(x)) = x
    <3> HIDE DEF x
    <3> QED BY <1>1, SubSeqFull
  <2> QED BY <1>3, <2>1
<1>5. Contains(x, NL)
  <2>1. Len(x) \in 1 .. Len(x)
    BY <1>1
  <2> QED BY <1>1, <2>1 DEF Contains
<1> QED BY <1>4, <1>5

(* A command that is appended ends the content, whether the oldest one is  *)
(* dropped or not.                                                         *)
LEMMA AppendedLast ==
  ASSUME NEW pieces \in Seq(Seq(Byte)), NEW p \in Seq(Byte), NEW x \in Seq(Byte)
  PROVE  EndsWith(FlattenSeq(Append(pieces, p \o x)), x)
<1> DEFINE F == FlattenSeq(pieces)
<1>1. p \o x \in Seq(Byte) /\ F \in Seq(Byte)
  BY ConcatProperties, FlattenType
<1>2. FlattenSeq(Append(pieces, p \o x)) = F \o (p \o x)
  BY <1>1, FlattenAppend
<1> HIDE DEF F
<1>3. F \o (p \o x) = (F \o p) \o x
  BY <1>1, ConcatAssociative
<1>4. F \o p \in Seq(Byte)
  BY <1>1, ConcatProperties
<1> QED BY <1>2, <1>3, <1>4 DEF EndsWith

LEMMA RecentLast ==
  ASSUME SessionTypes, NEW p \in Seq(Byte), NEW x \in Seq(Byte)
  PROVE  EndsWith(FlattenSeq(KeepRecent(Append(log, p \o x))), x)
<1> DEFINE new == p \o x
           more == Append(log, new)
<1>1. log \in Seq(Seq(Byte)) /\ new \in Seq(Byte)
  BY ConcatProperties DEF SessionTypes
<1>2. Len(more) = Len(log) + 1 /\ Capacity \in Nat \ {0} /\ Len(<<>>) = 0
  <2> HIDE DEF new
  <2> QED BY <1>1, AppendProperties, SessionAssumption
<1>3. Tail(more) = IF log = <<>> THEN <<>> ELSE Append(Tail(log), new)
  <2> HIDE DEF new
  <2> QED BY <1>1, HeadTailAppend
<1>4. CASE Len(more) > Capacity
  <2>1. log # <<>>
    <3> HIDE DEF more
    <3> QED BY <1>2, <1>4
  <2>2. Tail(log) \in Seq(Seq(Byte))
    BY <1>1, <2>1, HeadTailProperties
  <2>3. KeepRecent(more) = Append(Tail(log), new)
    <3> HIDE DEF more, new
    <3> QED BY <1>3, <1>4, <2>1 DEF KeepRecent
  <2> QED BY <2>2, <2>3, AppendedLast
<1>5. CASE ~(Len(more) > Capacity)
  <2>1. KeepRecent(more) = more
    <3> HIDE DEF more
    <3> QED BY <1>5 DEF KeepRecent
  <2> QED BY <1>1, <2>1, AppendedLast
<1> QED BY <1>4, <1>5

(* The content ends with the line, when the line has been written.         *)
LEMMA WrittenLast ==
  ASSUME SessionTypes, NEW c \in Clients, ReceivedLine(c), WriteLine(c), WholeLine(c)
  PROVE  EndsWith(Content', text[c])
<1>1. thread[c] = "write" /\ use_aesd_char_device' = use_aesd_char_device
  BY DEF WriteLine, Move, BeginReply, rest
<1>2. Written(c) = text[c] /\ Contains(text[c], NL) /\ text[c] \in Seq(Byte)
  BY <1>1, WrittenIsText DEF ReceivedLine, SessionTypes
<1>3. CASE use_aesd_char_device
  <2>1. pending \in Seq(Byte) /\ DeviceWrite(text[c])
    BY <1>2, <1>3 DEF WriteLine, SessionTypes
  <2>2. Contains(pending \o text[c], NL)
    <3>1. PICK i \in 1 .. Len(text[c]) : text[c][i] = NL
      BY <1>2 DEF Contains
    <3>2. Len(pending) \in Nat /\ Len(text[c]) \in Nat
      BY <1>2, <2>1, LenProperties
    <3>3. /\ Len(pending \o text[c]) = Len(pending) + Len(text[c])
          /\ \A j \in 1 .. Len(pending) + Len(text[c]) :
               (pending \o text[c])[j] = IF j <= Len(pending) THEN pending[j]
                                                              ELSE text[c][j - Len(pending)]
      BY <1>2, <2>1, ConcatProperties
    <3>4. Len(pending) + i \in 1 .. Len(pending) + Len(text[c])
          /\ ~(Len(pending) + i <= Len(pending)) /\ Len(pending) + i - Len(pending) = i
      BY <3>2
    <3>5. (pending \o text[c])[Len(pending) + i] = NL
      BY <3>1, <3>3, <3>4
    <3> QED BY <3>3, <3>4, <3>5 DEF Contains
  <2>3. log' = KeepRecent(Append(log, pending \o text[c]))
    BY <2>1, <2>2 DEF DeviceWrite
  <2>4. EndsWith(FlattenSeq(log'), text[c])
    BY <1>2, <2>1, <2>3, RecentLast
  <2>5. Content' = FlattenSeq(log')
    BY <1>1, <1>3 DEF Content, Stored
  <2> QED BY <2>4, <2>5
<1>4. CASE ~use_aesd_char_device
  <2>1. file' = Append(file, text[c])
    BY <1>2, <1>4 DEF WriteLine, FileWrite
  <2>2. FlattenSeq(file') = FlattenSeq(file) \o text[c] /\ FlattenSeq(file) \in Seq(Byte)
    BY <1>2, <2>1, FlattenAppend, FlattenType DEF SessionTypes
  <2>3. Content' = FlattenSeq(file')
    BY <1>1, <1>4 DEF Content, Stored
  <2> QED BY <2>2, <2>3 DEF EndsWith
<1> QED BY <1>3, <1>4

LEMMA OwnLineLastOwn ==
  ASSUME SessionTypes, SessionTypes', Holding, InReply, NEW c \in Clients,
         ReceivedLine(c), OwnLineLast(c),
         Connect(c) \/ Read(c) \/ Serve(c) \/ Joined(c)
  PROVE  OwnLineLast(c)'
<1>1. CASE WriteLine(c)
  <2>1. text' = text /\ sent'[c] = <<>> /\ line'[c] = <<>> /\ Pos(c)' = 0
    BY <1>1 DEF WriteLine, Move, BeginReply, SetPos, Pos, rest, Holding, NothingSent,
                SessionTypes, TypeOK
  <2>2. Len(Reply(c)') = 0
    <3>1. Reply(c)' = <<>>
      BY <2>1, FlattenEmpty, EmptySeq, ConcatEmptySeq DEF Reply
    <3> QED BY <3>1, EmptySeq
  <2>3. WholeLine(c)' => EndsWith(Content', text'[c])
    <3>1. WholeLine(c)' <=> WholeLine(c)
      BY <2>1 DEF WholeLine
    <3> QED BY <1>1, <2>1, <3>1, WrittenLast
  <2> QED BY <2>1, <2>2, <2>3 DEF OwnLineLast, EndsWith
<1>2. CASE ReplyByte(c) \/ ReplyLine(c)
  <2>1. /\ thread[c] = "reply" /\ Pos(c) < Len(Content)
        /\ UNCHANGED <<text, wrote, store, use_aesd_char_device>>
    BY <1>2 DEF ReplyByte, ReplyLine, Move, MoreToRead, rest
  <2>2. Pos(c)' = Pos(c) + 1
    BY <1>2, ReplyAdvances
  <2>3. Reply(c)' = Append(Reply(c), NextByte(c)) /\ NextByte(c) \in Byte
    <3>1. line \in [Clients -> Seq(Byte)] /\ sent \in [Clients -> Seq(Seq(Byte))]
          /\ Pos(c) \in Nat
      BY DEF SessionTypes, TypeOK, Pos
    <3>2. NextByte(c) \in Byte
      BY <2>1, <3>1, ContentIsBytes, ElementOfSeq DEF NextByte
    <3>3. CASE ReplyByte(c)
      <4>1. line'[c] = Append(line[c], NextByte(c)) /\ sent'[c] = sent[c]
        BY <3>1, <3>3 DEF ReplyByte, Keep
      <4> QED BY <3>2, <4>1, ReplyGrows
    <3>4. CASE ReplyLine(c)
      <4>1. line'[c] = <<>> /\ sent'[c] = Append(sent[c], Append(line[c], NextByte(c)))
        BY <3>1, <3>4 DEF ReplyLine
      <4> QED BY <3>2, <4>1, ReplyGrows
    <3> QED BY <1>2, <3>2, <3>3, <3>4
  <2>4. Len(Reply(c)') = Len(Reply(c)) + 1
    BY <2>3, ReplyIsBytes, AppendProperties
  <2>5. Content' = Content /\ (WholeLine(c)' <=> WholeLine(c)) /\ (Stamped' <=> Stamped)
    BY <2>1 DEF Content, Stored, store, WholeLine, Stamped
  <2> QED BY <2>1, <2>2, <2>4, <2>5 DEF OwnLineLast, EndsWith
<1>3. CASE SendFails(c)
  <2>1. UNCHANGED <<thread, text, line, sent, wrote, log, file, use_aesd_char_device,
                    f_pos, main_pos>>
    BY <1>3 DEF SendFails, local, store, files
  <2> QED BY <2>1 DEF OwnLineLast, WholeLine, Stamped, Content, Stored, Pos, Reply, EndsWith
<1>4. CASE WriteFails(c) \/ Seek(c)
  <2>1. ~wrote'[c]
    BY <1>4 DEF WriteFails, Seek, Move, Holding, NothingSent
  <2> QED BY <2>1 DEF OwnLineLast
<1>5. CASE \/ Connect(c) \/ ReceiveByte(c) \/ ReceiveLine(c) \/ ReceiveNothing(c)
           \/ ReplyEnds(c) \/ ReplyFails(c) \/ Lock(c) \/ WriteKills(c) \/ CloseUnlock(c)
           \/ Joined(c)
  <2>1. thread'[c] # "reply"
    BY <1>5 DEF Connect, ReceiveByte, ReceiveLine, ReceiveNothing, ReplyEnds, ReplyFails,
                Lock, WriteKills, CloseUnlock, Joined, Move, SessionTypes, TypeOK
  <2> QED BY <2>1 DEF OwnLineLast
<1> QED BY <1>1, <1>2, <1>3, <1>4, <1>5 DEF Read, Serve

(* The end of the reply.                                                   *)
LEMMA AnsweredOwn ==
  ASSUME SessionTypes, Holding, InReply, NEW c \in Clients,
         SentLines(c), OwnLineLast(c), Answered(c),
         Connect(c) \/ Read(c) \/ Serve(c) \/ Joined(c)
  PROVE  Answered(c)'
<1>1. CASE ReplyEnds(c)
  <2>1. /\ thread[c] = "reply" /\ Usable(c) /\ ~(Pos(c) < Len(Content))
        /\ UNCHANGED <<text, wrote, sent, file, main_fd, use_aesd_char_device>>
    BY <1>1 DEF ReplyEnds, Move, MoreToRead, store, files, rest
  <2>2. WholeLine(c)' <=> WholeLine(c)
    BY <2>1 DEF WholeLine
  <2> SUFFICES ASSUME wrote[c], WholeLine(c),
                      use_aesd_char_device \/ (main_fd /\ Last(file) # Stamp)
               PROVE  sent[c] # <<>> /\ IsSuffix(text[c], Last(sent[c]))
    BY <2>1, <2>2 DEF Answered
  <2>3. EndsWith(Content, text[c]) /\ Pos(c) = Len(Reply(c))
    BY <2>1 DEF OwnLineLast, Stamped
  <2>4. Piece(Reply(c), Content, 0)
    <3>1. PICK k \in Nat : ReplyFrom(c, k)
      BY <2>1 DEF InReply, ReplySoFar, NoDevice, Usable
    <3> QED BY <3>1 DEF ReplyFrom
  <2>5. Reply(c) \in Seq(Byte) /\ Content \in Seq(Byte) /\ Len(Reply(c)) \in Nat
        /\ Len(Content) \in Nat
    BY ReplyIsBytes, ContentIsBytes
  <2>6. Len(Reply(c)) = Len(Content)
    BY <2>1, <2>3, <2>4, <2>5 DEF Piece
  <2>7. Reply(c) = Content
    <3>1. \A i \in 1 .. Len(Reply(c)) : Reply(c)[i] = Content[i]
      <4>1. \A i \in 1 .. Len(Reply(c)) : Reply(c)[i] = Content[0 + i] /\ 0 + i = i
        BY <2>4, <2>5 DEF Piece
      <4> QED BY <4>1
    <3> QED BY <2>5, <2>6, <3>1, SeqEqual
  <2>8. PICK p \in Seq(Byte) : Content = p \o text[c]
    BY <2>3 DEF EndsWith
  <2> DEFINE F == FlattenSeq(sent[c])
             L == line[c]
             x == text[c]
  <2>9. /\ F \in Seq(Byte) /\ L \in Seq(Byte) /\ sent[c] \in Seq(Seq(Byte))
        /\ x \in Seq(Byte) /\ x # <<>> /\ x[Len(x)] = NL
        /\ \A i \in 1 .. Len(x) - 1 : x[i] # NL
    BY FlattenType DEF SessionTypes, WholeLine, Last
  <2>10. F \o L = p \o x
    BY <2>7, <2>8 DEF Reply
  <2>11. ~Contains(L, NL)
    BY <2>1 DEF SentLines
  <2>12. F = p \o x
    <3> HIDE DEF F, L, x
    <3>1. Len(F) \in Nat /\ Len(L) \in Nat /\ Len(p) \in Nat /\ Len(x) \in Nat \ {0}
      BY <2>9, LenProperties, EmptySeq
    <3> DEFINE all == F \o L
    <3>2. /\ Len(F) + Len(L) = Len(p) + Len(x)
          /\ \A i \in 1 .. Len(F) + Len(L) : all[i] = IF i <= Len(F) THEN F[i] ELSE L[i - Len(F)]
          /\ \A i \in 1 .. Len(p) + Len(x) : all[i] = IF i <= Len(p) THEN p[i] ELSE x[i - Len(p)]
      BY <2>9, <2>10, ConcatProperties
    <3> HIDE DEF all
    <3>3. Len(L) = 0
      <4> SUFFICES ASSUME Len(L) # 0 PROVE FALSE
        OBVIOUS
      <4>1. Len(F) + Len(L) \in 1 .. Len(F) + Len(L) /\ ~(Len(F) + Len(L) <= Len(F))
            /\ Len(F) + Len(L) - Len(F) = Len(L)
        BY <3>1
      <4>2. all[Len(F) + Len(L)] = L[Len(L)]
        BY <3>2, <4>1
      <4>3. Len(p) + Len(x) \in 1 .. Len(p) + Len(x) /\ ~(Len(p) + Len(x) <= Len(p))
            /\ Len(p) + Len(x) - Len(p) = Len(x)
        BY <3>1
      <4>4. all[Len(p) + Len(x)] = x[Len(x)]
        BY <3>2, <4>3
      <4>5. Len(L) \in 1 .. Len(L) /\ L[Len(L)] = NL
        BY <2>9, <3>1, <3>2, <4>2, <4>4
      <4> QED BY <2>11, <4>5 DEF Contains
    <3>4. L = <<>>
      BY <2>9, <3>3, EmptySeq
    <3> QED BY <2>9, <2>10, <3>4, ConcatEmptySeq
  <2>13. \A i \in 1 .. Len(sent[c]) : sent[c][i] # <<>> /\ Last(sent[c][i]) = NL
    BY DEF SentLines
  <2> HIDE DEF x
  <2>14. sent[c] # <<>> /\ IsSuffix(x, Last(sent[c]))
    BY <2>9, <2>12, <2>13, LastLineEnds
  <2> QED BY <2>14 DEF x
<1>2. CASE ReplyFails(c)
  <2>1. PICK flag \in 1 .. 3 : Return(c, flag, <<>>)
    BY <1>2 DEF ReplyFails
  <2>2. return_flag'[c] \in 1 .. 3
    BY <2>1 DEF Return, SessionTypes, TypeOK
  <2> QED BY <2>2 DEF Answered
<1>3. CASE SendFails(c)
  <2>1. thread'[c] = "reply"
    BY <1>3 DEF SendFails
  <2> QED BY <2>1 DEF Answered
<1>4. CASE \/ Connect(c) \/ ReceiveByte(c) \/ ReceiveLine(c) \/ ReceiveNothing(c)
           \/ ReplyByte(c) \/ ReplyLine(c) \/ Lock(c) \/ WriteLine(c) \/ WriteFails(c)
           \/ WriteKills(c) \/ Seek(c) \/ CloseUnlock(c) \/ Joined(c)
  <2>1. thread'[c] # "close"
    BY <1>4 DEF Connect, ReceiveByte, ReceiveLine, ReceiveNothing, ReplyByte, ReplyLine, Lock,
                WriteLine, WriteFails, WriteKills, Seek, CloseUnlock, Joined, Move,
                SessionTypes, TypeOK
  <2> QED BY <2>1 DEF Answered
<1> QED BY <1>1, <1>2, <1>3, <1>4 DEF Read, Serve

(* What another session, the timer, main or the module does.               *)
OwnLine(c) == ReceivedLine(c) /\ SentLines(c) /\ OwnLineLast(c) /\ Answered(c)

LEMMA OwnLineOthers ==
  ASSUME NEW d \in Clients, OwnLine(d),
         UNCHANGED <<thread[d], text[d], sent[d], line[d], wrote[d], return_flag[d]>>,
         \/ thread[d] \notin {"reply", "close"}
         \/ /\ UNCHANGED <<f_pos[d], main_pos, Stored, use_aesd_char_device, file>>
            /\ main_fd' = main_fd \/ ~main_fd'
         \/ Stamped'
         \/ use_aesd_char_device /\ (thread[d] = "reply" => ~wrote[d])
  PROVE  OwnLine(d)'
<1>1. WholeLine(d)' <=> WholeLine(d)
  BY DEF WholeLine
<1>2. ReceivedLine(d)' /\ SentLines(d)'
  BY <1>1 DEF OwnLine, ReceivedLine, SentLines
<1>3. CASE thread[d] \notin {"reply", "close"}
  BY <1>2, <1>3 DEF OwnLine, OwnLineLast, Answered
<1>4. CASE /\ UNCHANGED <<f_pos[d], main_pos, Stored, use_aesd_char_device, file>>
           /\ main_fd' = main_fd \/ ~main_fd'
  <2>1. OwnLineLast(d)'
    <3>1. Content' = Content /\ Pos(d)' = Pos(d) /\ Reply(d)' = Reply(d) /\ (Stamped' <=> Stamped)
      BY <1>4 DEF Content, Pos, Reply, Stamped
    <3> QED BY <1>1, <3>1 DEF OwnLine, OwnLineLast, EndsWith
  <2>2. Answered(d)'
    BY <1>1, <1>4 DEF OwnLine, Answered
  <2> QED BY <1>2, <2>1, <2>2 DEF OwnLine
<1>5. CASE Stamped'
  BY <1>2, <1>5 DEF OwnLine, OwnLineLast, Answered, Stamped
<1>6. CASE use_aesd_char_device /\ (thread[d] = "reply" => ~wrote[d])
  BY <1>1, <1>2, <1>6 DEF OwnLine, OwnLineLast, Answered
<1> QED BY <1>3, <1>4, <1>5, <1>6

LEMMA OwnLineStep ==
  ASSUME SessionInv, SessionInv', OpenKeepsModule, OwnLineInv, [SystemNext]_systemVars
  PROVE  OwnLineInv'
<1> SUFFICES ASSUME NEW d \in Clients PROVE OwnLine(d)'
  BY DEF OwnLineInv, OwnLine
<1>1. OwnLine(d) /\ SessionTypes /\ SessionTypes' /\ Holding /\ InReply
  BY DEF OwnLineInv, OwnLine, SessionInv
<1>2. ASSUME NEW c \in Clients, Connect(c) \/ Read(c) \/ Serve(c) \/ Joined(c)
      PROVE  OwnLine(d)'
  <2>1. CASE c = d
    BY <1>1, <1>2, <2>1, ReceivedLineOwn, SentLinesOwn, OwnLineLastOwn, AnsweredOwn DEF OwnLine
  <2>2. CASE c # d
    <3>1. UNCHANGED <<thread[d], text[d], sent[d], line[d], wrote[d], return_flag[d]>>
      BY <1>1, <1>2, <2>2, OwnFields
    <3>2. thread[d] \in Inside
          => UNCHANGED <<f_pos[d], main_pos, log, use_aesd_char_device, file, main_fd>>
      BY <1>1, <1>2, <2>2, OthersWait
    <3>3. CASE thread[d] \in {"reply", "close"}
      <4>1. UNCHANGED <<f_pos[d], main_pos, Stored, use_aesd_char_device, file>>
            /\ main_fd' = main_fd
        BY <3>2, <3>3 DEF Inside, Stored
      <4> QED BY <1>1, <3>1, <4>1, OwnLineOthers
    <3>4. CASE thread[d] \notin {"reply", "close"}
      BY <1>1, <3>1, <3>4, OwnLineOthers
    <3> QED BY <3>3, <3>4
  <2> QED BY <2>1, <2>2
<1>3. CASE Timestamp
  <2>1. ~use_aesd_char_device /\ file' = Append(file, Stamp)
        /\ UNCHANGED <<thread, text, sent, line, wrote, return_flag, use_aesd_char_device>>
    BY <1>3 DEF Timestamp, FileWrite, local
  <2>2. file' # <<>> /\ Last(file') = Stamp
    <3>1. file \in Seq(Seq(Byte)) /\ Stamp \in Seq(Byte)
      BY <1>1, TextsAreBytes DEF SessionTypes
    <3>2. Append(file, Stamp) # <<>> /\ Len(Append(file, Stamp)) = Len(file) + 1
          /\ Append(file, Stamp)[Len(file) + 1] = Stamp
      BY <3>1, AppendProperties
    <3> QED BY <2>1, <3>2 DEF Last
  <2> QED BY <1>1, <2>1, <2>2, OwnLineOthers DEF Stamped
<1>4. CASE CloseMain
  BY <1>1, <1>4, OwnLineOthers DEF CloseMain, local, store, rest, Stored
<1>5. CASE SessionStep
  BY <1>2, <1>3, <1>4, <1>5 DEF SessionStep, Next
<1>6. CASE ModuleStep
  <2>1. UNCHANGED <<thread, text, sent, line, wrote, return_flag, f_pos, main_pos, main_fd, file,
                    use_aesd_char_device>> /\ use_aesd_char_device
    BY <1>6 DEF ModuleStep, local, files, rest
  <2>2. CASE thread[d] = "reply" /\ wrote[d]
    <3>1. fd[d] = "open"
      BY <1>1, <2>1, <2>2 DEF InReply, ReplySoFar, NoDevice
    <3>2. log' = log
      BY <1>6, <3>1, DeviceKept
    <3> QED BY <1>1, <2>1, <3>2, OwnLineOthers DEF Stored
  <2>3. CASE thread[d] = "reply" => ~wrote[d]
    BY <1>1, <2>1, <2>3, OwnLineOthers
  <2> QED BY <2>2, <2>3
<1>7. CASE UNCHANGED systemVars
  BY <1>1, <1>7, OwnLineOthers DEF systemVars, vars, local, store, files, rest, Stored
<1> QED BY <1>5, <1>6, <1>7 DEF SystemNext

(* A client whose line was written, and to whom the loop has sent all it   *)
(* could read, gets its own line back, at the end of the last one, unless  *)
(* a timestamp or main at DONE cut it short (sock_thread_func).            *)
THEOREM OwnLineReturned == SystemSpec => []ReplyEndsWithOwnLine
<1>1. SystemInit => OwnLineInv
  <2>1. Len(<<>>) = 0
    OBVIOUS
  <2> QED BY <2>1 DEF SystemInit, Init, OwnLineInv, ReceivedLine, SentLines, OwnLineLast, Answered
<1>2. SessionInv /\ SessionInv' /\ OpenKeepsModule /\ OwnLineInv /\ [SystemNext]_systemVars
      => OwnLineInv'
  BY OwnLineStep
<1>3. OwnLineInv => ReplyEndsWithOwnLine
  BY DEF OwnLineInv, Answered, ReplyEndsWithOwnLine
<1> QED BY <1>1, <1>2, <1>3, SessionInvariant, NoCallIntoCleanup, PTL DEF SystemSpec

-----------------------------------------------------------------------------
(* The server is an EchoService.                                           *)

(* The lines that were sent are a piece of the content until the session   *)
(* has closed its descriptor.                                              *)
Sent(c) == FlattenSeq(sent[c])

SentKept(c) == thread[c] = "close" =>
  IF NoDevice(c) THEN sent[c] = <<>> ELSE \E k \in Nat : Piece(Sent(c), Content, k)

(* The beginning of a piece is one.                                        *)
LEMMA PieceFront ==
  ASSUME NEW S, NEW content \in Seq(S), NEW x \in Seq(S), NEW y \in Seq(S), NEW k \in Nat,
         Piece(x \o y, content, k)
  PROVE  Piece(x, content, k)
<1>1. /\ Len(x) \in Nat /\ Len(y) \in Nat /\ Len(content) \in Nat
      /\ Len(x \o y) = Len(x) + Len(y)
      /\ \A i \in 1 .. Len(x) + Len(y) : (x \o y)[i] = IF i <= Len(x) THEN x[i] ELSE y[i - Len(x)]
  BY LenProperties, ConcatProperties
<1> DEFINE all == x \o y
<1>2. k + Len(all) <= Len(content) /\ \A i \in 1 .. Len(all) : all[i] = content[k + i]
  BY DEF Piece
<1> HIDE DEF all
<1>3. ASSUME NEW i \in 1 .. Len(x) PROVE x[i] = content[k + i]
  <2>1. i \in 1 .. Len(x) + Len(y) /\ i \in 1 .. Len(all) /\ i <= Len(x)
    BY <1>1 DEF all
  <2> QED BY <1>1, <1>2, <2>1 DEF all
<1>4. k + Len(x) <= Len(content)
  BY <1>1, <1>2 DEF all
<1> QED BY <1>3, <1>4 DEF Piece

LEMMA SentKeptStep ==
  ASSUME SessionInv, SessionInv', OpenKeepsModule, NEW d \in Clients, SentKept(d),
         [SystemNext]_systemVars
  PROVE  SentKept(d)'
<1>1. SessionTypes /\ Holding /\ InReply
  BY DEF SessionInv
<1>2. ASSUME UNCHANGED <<thread[d], sent[d], fd[d], use_aesd_char_device, Stored>>
      PROVE  SentKept(d)'
  <2>1. Sent(d)' = Sent(d) /\ Content' = Content /\ (NoDevice(d)' <=> NoDevice(d))
    BY <1>2 DEF Sent, Content, NoDevice
  <2> QED BY <1>2, <2>1 DEF SentKept, Piece
<1>3. CASE ReplyEnds(d) \/ ReplyFails(d)
  <2>1. thread[d] = "reply" /\ UNCHANGED <<sent, fd, use_aesd_char_device, log, file>>
    BY <1>3 DEF ReplyEnds, ReplyFails, Move, store, files, rest
  <2>2. Sent(d)' = Sent(d) /\ Content' = Content /\ (NoDevice(d)' <=> NoDevice(d))
    BY <2>1 DEF Sent, Content, Stored, NoDevice
  <2>3. CASE NoDevice(d)
    BY <1>1, <2>1, <2>2, <2>3 DEF InReply, ReplySoFar, SentKept
  <2>4. CASE ~NoDevice(d)
    <3>1. PICK k \in Nat : ReplyFrom(d, k)
      BY <1>1, <2>1, <2>4 DEF InReply, ReplySoFar
    <3>2. Piece(Sent(d) \o line[d], Content, k)
      BY <3>1 DEF ReplyFrom, Reply, Sent
    <3>3. Sent(d) \in Seq(Byte) /\ line[d] \in Seq(Byte) /\ Content \in Seq(Byte)
      BY <1>1, ContentIsBytes, FlattenType DEF SessionTypes, Sent
    <3>4. Piece(Sent(d), Content, k)
      BY <3>2, <3>3, PieceFront
    <3> QED BY <2>2, <2>4, <3>4 DEF SentKept, Piece
  <2> QED BY <2>3, <2>4
<1>4. ASSUME NEW c \in Clients, Connect(c) \/ Read(c) \/ Serve(c) \/ Joined(c)
      PROVE  SentKept(d)'
  <2>1. CASE c # d /\ thread[d] \in Inside
    <3>1. UNCHANGED <<thread[d], sent[d], fd[d], use_aesd_char_device, log, file>>
      BY <1>1, <1>4, <2>1, OthersWait
    <3> QED BY <1>2, <3>1 DEF Stored
  <2>2. CASE c # d /\ thread[d] \notin Inside
    <3>1. thread'[d] = thread[d]
      BY <1>1, <1>4, <2>2, OwnFields
    <3> QED BY <2>2, <3>1 DEF SentKept, Inside
  <2>3. CASE c = d /\ SendFails(d)
    BY <2>3, <1>1 DEF SendFails, SentKept
  <2>4. CASE c = d /\ ~SendFails(d) /\ ~ReplyEnds(d) /\ ~ReplyFails(d)
    <3>1. thread'[d] # "close"
      BY <1>1, <1>4, <2>4
         DEF Read, Serve, Connect, ReceiveByte, ReceiveLine, ReceiveNothing, ReplyByte, ReplyLine,
             Lock, WriteLine, WriteFails, WriteKills, Seek, CloseUnlock, Joined, Move,
             SessionTypes, TypeOK
    <3> QED BY <3>1 DEF SentKept
  <2> QED BY <1>3, <2>1, <2>2, <2>3, <2>4
<1>5. CASE Timestamp
  <2>1. UNCHANGED <<thread, sent, fd, use_aesd_char_device>> /\ ~use_aesd_char_device
    BY <1>5 DEF Timestamp, local
  <2>2. Sent(d)' = Sent(d) /\ ~NoDevice(d) /\ ~NoDevice(d)'
    BY <2>1 DEF Sent, NoDevice
  <2> SUFFICES ASSUME thread[d] = "close" PROVE \E k \in Nat : Piece(Sent(d)', Content', k)
    BY <2>1, <2>2 DEF SentKept, Piece
  <2>3. PICK k \in Nat : Piece(Sent(d), Content, k)
    BY <2>2 DEF SentKept
  <2>4. Sent(d) \in Seq(Byte) /\ Content \in Seq(Byte) /\ Stamp \in Seq(Byte)
    BY <1>1, ContentIsBytes, FlattenType, TextsAreBytes DEF SessionTypes, Sent
  <2>5. Piece(Sent(d), Content \o Stamp, k)
    BY <2>3, <2>4, PieceMore
  <2> QED BY <1>1, <1>5, <2>2, <2>5, StampBehind
<1>6. CASE CloseMain
  BY <1>2, <1>6 DEF CloseMain, local, store, rest, Stored
<1>7. CASE SessionStep
  BY <1>4, <1>5, <1>6, <1>7 DEF SessionStep, Next
<1>8. CASE ModuleStep
  <2>1. UNCHANGED <<thread, sent, fd, file, use_aesd_char_device>> /\ use_aesd_char_device
    BY <1>8 DEF ModuleStep, local, files, rest
  <2>2. CASE fd[d] = "open"
    <3>1. log' = log
      BY <1>8, <2>2, DeviceKept
    <3> QED BY <1>2, <2>1, <3>1 DEF Stored
  <2>3. CASE fd[d] # "open"
    BY <2>1, <2>3 DEF SentKept, NoDevice
  <2> QED BY <2>2, <2>3
<1>9. CASE UNCHANGED systemVars
  BY <1>2, <1>9 DEF systemVars, vars, local, store, files, rest, Stored
<1> QED BY <1>7, <1>8, <1>9 DEF SystemNext

AllKept == \A c \in Clients : SentKept(c)

EchoInv == SessionInv /\ OwnLineInv /\ AllKept

LEMMA EchoInvariant == SystemSpec => []EchoInv
<1>1. SystemInit => OwnLineInv /\ AllKept
  <2>1. Len(<<>>) = 0
    OBVIOUS
  <2> QED BY <2>1 DEF SystemInit, Init, OwnLineInv, ReceivedLine, SentLines, OwnLineLast,
                      Answered, SentKept, AllKept
<1>2. /\ SessionInv /\ SessionInv' /\ OpenKeepsModule /\ OwnLineInv
      /\ AllKept /\ [SystemNext]_systemVars
      => OwnLineInv' /\ AllKept'
  BY OwnLineStep, SentKeptStep DEF AllKept
<1>3. SystemSpec => [](OwnLineInv /\ AllKept)
  BY <1>1, <1>2, SessionInvariant, NoCallIntoCleanup, PTL DEF SystemSpec
<1> QED BY <1>3, SessionInvariant, PTL DEF EchoInv

-----------------------------------------------------------------------------
(* The steps of the server, as steps of the EchoService.                   *)

(* Who is served holds fd_mutex.                                           *)
ServedHolds == Served = IF mutex \in Serving THEN mutex ELSE NULL

LEMMA ServedHoldsMutex == SessionInv => ServedHolds
<1> SUFFICES ASSUME SessionInv PROVE ServedHolds
  OBVIOUS
<1>1. Serving \subseteq {mutex}
  BY DEF Serving, SessionInv, Holding, HoldsMutex, Inside
<1>2. CASE Serving = {}
  BY <1>2 DEF Served, ServedHolds
<1>3. CASE Serving # {}
  <2>1. mutex \in Serving /\ \A c \in Serving : c = mutex
    BY <1>1, <1>3
  <2>2. (CHOOSE c \in Serving : TRUE) = mutex
    BY <2>1
  <2> QED BY <1>3, <2>1, <2>2 DEF Served, ServedHolds
<1> QED BY <1>2, <1>3

(* The operators on sequences are the same for both modules.               *)
LEMMA SameSequences ==
  ASSUME NEW x
  PROVE  Echo!Last(x) = Last(x) /\ Echo!FlattenSeq(x) = FlattenSeq(x)
<1>1. Echo!Last(x) = Last(x)
  BY DEF Echo!Last, Last
<1>2. Echo!FlattenSeq(x) = FlattenSeq(x)
  BY DEF Echo!FlattenSeq, FlattenSeq
<1> QED BY <1>1, <1>2

(* A step that changes nothing the service is about.                       *)
LEMMA EchoStutters ==
  ASSUME Serving' = Serving, Stored' = Stored, Answers' = Answers
  PROVE  UNCHANGED Echo!vars
<1>1. Served' = Served
  BY DEF Served
<1> QED BY <1>1 DEF Echo!vars

(* Another client is neither served nor answered by a step of this one.    *)
LEMMA EchoOthers ==
  ASSUME SessionTypes, SessionTypes', NEW c \in Clients,
         Connect(c) \/ Read(c) \/ Serve(c) \/ Joined(c)
  PROVE  /\ Serving' \ {c} = Serving \ {c}
         /\ Answers' = [Answers EXCEPT ![c] = Answers'[c]]
<1>1. ASSUME NEW d \in Clients, c # d
      PROVE  UNCHANGED <<thread[d], sent[d], fd[d]>>
  <2>1. UNCHANGED <<thread[d], sent[d]>>
    BY <1>1, OwnFields
  <2>2. ASSUME Lock(c) \/ CloseUnlock(c) PROVE fd'[d] = fd[d]
    BY <1>1, <2>2 DEF Lock, CloseUnlock, SessionTypes, TypeOK
  <2>3. ASSUME ~Lock(c) /\ ~CloseUnlock(c) PROVE fd'[d] = fd[d]
    <3>1. fd' = fd
      BY <2>3 DEF Read, Serve, Connect, ReceiveByte, ReceiveLine, ReceiveNothing, ReplyByte,
                  ReplyLine, ReplyEnds, ReplyFails, SendFails, Joined, WriteLine, WriteFails,
                  WriteKills, Seek, BeginReply, files
    <3> QED BY <3>1
  <2> QED BY <2>1, <2>2, <2>3
<1>2. Serving' \ {c} = Serving \ {c}
  BY <1>1 DEF Serving
<1>3. \A d \in Clients : d # c => Answers'[d] = Answers[d]
  BY <1>1 DEF Answers
<1>4. Answers' = [Answers EXCEPT ![c] = Answers'[c]]
  BY <1>3 DEF Answers
<1> QED BY <1>2, <1>4

(* What is written is one piece more, or nothing.                          *)
LEMMA WriteAdds ==
  ASSUME SessionTypes, NEW c \in Clients, WriteLine(c)
  PROVE  \/ Stored' = Stored
         \/ Len(Stored') \in {Len(Stored), Len(Stored) + 1} /\ Stored' \in Echo!Added(Last(Stored'))
<1>1. use_aesd_char_device' = use_aesd_char_device /\ Written(c) \in Seq(Byte)
  BY WrittenIsBytes DEF WriteLine, BeginReply, rest
<1> DEFINE new == pending \o Written(c)
<1>2. CASE ~use_aesd_char_device
  <2>1. Stored = file /\ Stored' = Append(file, Written(c)) /\ file \in Seq(Seq(Byte))
    BY <1>1, <1>2 DEF WriteLine, FileWrite, Stored, SessionTypes
  <2>2. Len(Stored') = Len(Stored) + 1 /\ Last(Stored') = Written(c)
    BY <1>1, <2>1, AppendProperties, LenProperties DEF Last
  <2> QED BY <2>1, <2>2 DEF Echo!Added
<1>3. CASE use_aesd_char_device /\ log' = log
  BY <1>1, <1>3 DEF Stored
<1>4. CASE use_aesd_char_device /\ log' = KeepRecent(Append(log, new))
  <2>1. new \in Seq(Byte)
    BY <1>1, ConcatProperties DEF SessionTypes
  <2> HIDE DEF new
  <2>2. /\ log \in Seq(Seq(Byte)) /\ Len(log) \in Nat /\ Len(log) <= Capacity
        /\ Capacity \in Nat \ {0}
    BY SessionAssumption, LenProperties DEF SessionTypes, TypeOK
  <2> DEFINE more == Append(log, new)
  <2>3. more \in Seq(Seq(Byte)) /\ Len(more) = Len(log) + 1 /\ more[Len(log) + 1] = new
    BY <2>1, <2>2, AppendProperties
  <2>4. Stored = log /\ Stored' = log'
    BY <1>1, <1>4 DEF Stored
  <2> HIDE DEF more
  <2>5. log' = IF Len(more) > Capacity THEN Tail(more) ELSE more
    BY <1>4 DEF KeepRecent, more
  <2>6. CASE Len(more) > Capacity
    <3>1. more # <<>> /\ Len(log) >= Capacity /\ Len(log) >= 1
      BY <2>2, <2>3, <2>6, LenProperties, EmptySeq
    <3>2. /\ Len(Tail(more)) = Len(more) - 1
          /\ \A i \in 1 .. Len(Tail(more)) : Tail(more)[i] = more[i + 1]
      BY <2>3, <3>1, HeadTailProperties
    <3>3. Len(log') = Len(log) /\ Last(log') = new
      BY <2>2, <2>3, <2>5, <2>6, <3>1, <3>2 DEF Last
    <3>4. log' \in Echo!Added(new)
      BY <2>4, <2>5, <2>6, <3>1 DEF Echo!Added, more
    <3> QED BY <2>4, <3>3, <3>4
  <2>7. CASE ~(Len(more) > Capacity)
    <3>1. log' = more /\ Len(log') = Len(log) + 1 /\ Last(log') = new
      BY <2>2, <2>3, <2>5, <2>7 DEF Last
    <3>2. log' \in Echo!Added(new)
      BY <2>4, <3>1 DEF Echo!Added, more
    <3> QED BY <2>4, <3>1, <3>2
  <2> QED BY <2>6, <2>7
<1> QED BY <1>2, <1>3, <1>4 DEF WriteLine, DeviceWrite

(* The steps before the reply, and those inside it.                        *)
LEMMA EchoIdle ==
  ASSUME SessionTypes, SessionTypes', NEW c \in Clients,
         Connect(c) \/ Read(c) \/ Lock(c) \/ WriteKills(c)
  PROVE  UNCHANGED Echo!vars
<1>1. UNCHANGED <<log, file, use_aesd_char_device>>
  BY DEF Connect, Read, ReceiveByte, ReceiveLine, ReceiveNothing, ReplyByte, ReplyLine,
         ReplyEnds, ReplyFails, SendFails, Lock, WriteKills, store, rest
<1>2. /\ thread[c] # "complete" /\ thread'[c] # "complete"
      /\ (thread'[c] \in {"reply", "close"} <=> thread[c] \in {"reply", "close"})
  BY DEF Connect, Read, ReceiveByte, ReceiveLine, ReceiveNothing, ReplyByte, ReplyLine,
         ReplyEnds, ReplyFails, SendFails, Lock, WriteKills, Move, SessionTypes, TypeOK
<1>3. thread[c] \in {"reply", "close"} => fd' = fd
  BY DEF Connect, Read, ReceiveByte, ReceiveLine, ReceiveNothing, ReplyByte, ReplyLine,
         ReplyEnds, ReplyFails, SendFails, Lock, WriteKills, Move, files
<1>4. Serving' = Serving
  <2>1. Serving' \ {c} = Serving \ {c}
    BY EchoOthers DEF Serve
  <2>2. c \in Serving' <=> c \in Serving
    BY <1>2, <1>3 DEF Serving
  <2> QED BY <2>1, <2>2
<1>5. Answers' = Answers
  <2>1. Answers' = [Answers EXCEPT ![c] = Answers'[c]]
    BY EchoOthers DEF Serve
  <2>2. Answers'[c] = Answers[c]
    BY <1>2 DEF Answers
  <2> QED BY <2>1, <2>2 DEF Answers
<1>6. Stored' = Stored
  BY <1>1 DEF Stored
<1> QED BY <1>4, <1>5, <1>6, EchoStutters

(* The line is written, or not, and the reply begins.                      *)
LEMMA EchoBegins ==
  ASSUME SessionInv, SessionInv', ServedHolds, ServedHolds', NEW c \in Clients,
         WriteLine(c) \/ WriteFails(c) \/ Seek(c)
  PROVE  Echo!Begin(c) \/ UNCHANGED Echo!vars
<1>1. /\ thread[c] \in {"write", "seek"} /\ thread'[c] = "reply"
      /\ fd' = fd /\ mutex' = mutex /\ use_aesd_char_device' = use_aesd_char_device
  BY DEF WriteLine, WriteFails, Seek, BeginReply, Move, rest, SessionInv, SessionTypes, TypeOK
<1>2. mutex = c /\ c \notin Serving
  BY <1>1 DEF SessionInv, Holding, HoldsMutex, Inside, Serving
<1>3. Serving' \ {c} = Serving \ {c} /\ Answers' = [Answers EXCEPT ![c] = Answers'[c]]
  BY EchoOthers DEF SessionInv, Serve
<1>4. Answers' = Answers
  <2>1. Answers'[c] = Answers[c]
    BY <1>1 DEF Answers
  <2> QED BY <1>3, <2>1 DEF Answers
<1>5. CASE fd[c] = "failed"
  <2>1. Stored' = Stored
    <3>1. ~WriteLine(c) \/ ~use_aesd_char_device
      BY <1>5 DEF WriteLine, Usable
    <3>2. use_aesd_char_device
      BY <1>5 DEF SessionInv, Holding, HoldsDevice
    <3> QED BY <1>1, <3>1, <3>2 DEF WriteFails, Seek, Stored
  <2>2. Serving' = Serving
    BY <1>1, <1>2, <1>3, <1>5 DEF Serving
  <2> QED BY <1>4, <2>1, <2>2, EchoStutters
<1>6. CASE fd[c] # "failed"
  <2>1. c \in Serving'
    BY <1>1, <1>6 DEF Serving
  <2>2. Served = NULL /\ Served' = c
    BY <1>1, <1>2, <2>1 DEF ServedHolds
  <2>3. \/ Stored' = Stored
        \/ /\ Len(Stored') \in {Len(Stored), Len(Stored) + 1}
           /\ Stored' \in Echo!Added(Last(Stored'))
    <3>1. CASE WriteLine(c)
      BY <3>1, WriteAdds DEF SessionInv
    <3>2. CASE WriteFails(c) \/ Seek(c)
      BY <1>1, <3>2 DEF WriteFails, Seek, Stored
    <3> QED BY <3>1, <3>2
  <2> QED BY <1>4, <2>2, <2>3, SameSequences DEF Echo!Begin
<1> QED BY <1>5, <1>6

(* The thread closes and unlocks, and the client has its answer.           *)
LEMMA EchoAnswers ==
  ASSUME EchoInv, SessionInv', ServedHolds, ServedHolds', NEW c \in Clients, CloseUnlock(c)
  PROVE  Echo!Answer(c) \/ Echo!Refuse(c)
<1>1. /\ thread[c] = "close" /\ thread'[c] = "complete" /\ mutex' = NULL /\ sent' = sent
      /\ log' = log /\ file' = file /\ use_aesd_char_device' = use_aesd_char_device
  BY DEF CloseUnlock, Move, local, store, rest, EchoInv, SessionInv, SessionTypes, TypeOK
<1>2. mutex = c /\ mutex' \notin Serving'
  BY <1>1, SessionAssumption
     DEF EchoInv, SessionInv, Holding, HoldsMutex, Inside, Serving
<1>3. Served' = NULL /\ Stored' = Stored
  BY <1>1, <1>2 DEF ServedHolds, Stored
<1>4. Answers'[c] = sent[c]
  BY <1>1 DEF Answers
<1>5. Answers' = [Answers EXCEPT ![c] = sent[c]]
  BY <1>4, EchoOthers DEF EchoInv, SessionInv, Serve
<1>6. CASE fd[c] = "failed"
  <2>1. c \notin Serving /\ NoDevice(c)
    BY <1>6 DEF Serving, NoDevice, EchoInv, SessionInv, Holding, HoldsDevice
  <2>2. sent[c] = <<>>
    BY <1>1, <2>1 DEF EchoInv, AllKept, SentKept
  <2>3. Served = NULL
    BY <1>2, <2>1 DEF ServedHolds
  <2> QED BY <1>3, <1>5, <2>2, <2>3 DEF Echo!Refuse
<1>7. CASE fd[c] # "failed"
  <2>1. c \in Serving /\ ~NoDevice(c)
    BY <1>1, <1>7
       DEF Serving, NoDevice, Inside, EchoInv, SessionInv, Holding, HoldsDevice, SessionTypes, TypeOK
  <2>2. Served = c
    BY <1>2, <2>1 DEF ServedHolds
  <2>3. PICK k \in Nat : Piece(Sent(c), Content, k)
    BY <1>1, <2>1 DEF EchoInv, AllKept, SentKept
  <2>4. Sent(c) \in Seq(Byte) /\ Content \in Seq(Byte)
    BY ContentIsBytes, FlattenType DEF EchoInv, SessionInv, SessionTypes, Sent
  <2>5. /\ k \in 0 .. Len(Content) - Len(Sent(c))
        /\ SubSeq(Content, k + 1, k + Len(Sent(c))) = Sent(c)
    BY <2>3, <2>4, PieceIsSubSeq
  <2>6. /\ k \in 0 .. Len(FlattenSeq(Stored)) - Len(FlattenSeq(sent[c]))
        /\ FlattenSeq(sent[c])
             = SubSeq(FlattenSeq(Stored), k + 1, k + Len(FlattenSeq(sent[c])))
    BY <2>5 DEF Content, Sent
  <2>7. Echo!Lines(sent[c])
    <3>1. sent[c] \in Seq(Seq(Byte)) /\ \A i \in 1 .. Len(sent[c]) : Last(sent[c][i]) = NL
      BY DEF EchoInv, SessionInv, SessionTypes, OwnLineInv, SentLines
    <3>2. DOMAIN sent[c] = 1 .. Len(sent[c])
      BY <3>1, LenProperties
    <3> QED BY <3>1, <3>2, SameSequences DEF Echo!Lines
  <2> QED BY <1>3, <1>4, <1>5, <2>2, <2>6, <2>7, SameSequences DEF Echo!Answer
<1> QED BY <1>6, <1>7

(* The thread is joined, and the client leaves.                            *)
LEMMA EchoLeaves ==
  ASSUME SessionTypes, SessionTypes', NEW c \in Clients, Joined(c)
  PROVE  Echo!Leave(c)
<1>1. /\ thread[c] = "complete" /\ thread'[c] = "none" /\ UNCHANGED <<sent, fd>>
      /\ log' = log /\ file' = file /\ use_aesd_char_device' = use_aesd_char_device
  BY DEF Joined, Move, local, store, files, rest, SessionTypes, TypeOK
<1>2. Serving' \ {c} = Serving \ {c} /\ Answers' = [Answers EXCEPT ![c] = Answers'[c]]
  BY EchoOthers
<1>3. Serving' = Serving
  BY <1>1, <1>2 DEF Serving
<1>4. Served' = Served
  BY <1>3 DEF Served
<1>5. Answers'[c] = NULL
  BY <1>1 DEF Answers
<1>6. Answers' = [Answers EXCEPT ![c] = NULL]
  BY <1>2, <1>5
<1>7. Stored' = Stored
  BY <1>1 DEF Stored
<1> QED BY <1>4, <1>6, <1>7 DEF Echo!Leave

(* The module is emptied while nobody is served.                           *)
LEMMA EchoResets ==
  ASSUME SessionInv, ServedHolds, OpenKeepsModule, ModuleStep
  PROVE  Echo!Reset \/ UNCHANGED Echo!vars
<1>1. UNCHANGED <<thread, sent, fd, file, mutex, use_aesd_char_device>> /\ use_aesd_char_device
  BY DEF ModuleStep, local, files, rest
<1>2. Serving' = Serving /\ Answers' = Answers
  BY <1>1 DEF Serving, Answers
<1>3. Served' = Served
  BY <1>2 DEF Served
<1>4. log' = log \/ log' = <<>>
  BY DEF ModuleStep, M!Kernel, M!InitRegion, M!InitEntry, M!InitCdev, M!CleanupCdev,
         M!CleanupMemory, M!CleanupRegion, M!Out, M!Scripts, M!Insmod, M!ModprobeLoaded,
         M!MakeNode, M!Rmmod, M!RemoveNode, M!Go
<1>5. CASE \E c \in Clients : fd[c] = "open"
  <2>1. log' = log
    BY <1>5, DeviceKept
  <2> QED BY <1>1, <1>2, <2>1, EchoStutters DEF Stored
<1>6. CASE ~ \E c \in Clients : fd[c] = "open"
  <2>1. Serving = {}
    BY <1>1, <1>6
       DEF Serving, Inside, SessionInv, Holding, HoldsDevice, SessionTypes, TypeOK
  <2>2. Served = NULL
    BY <2>1 DEF ServedHolds
  <2> QED BY <1>1, <1>2, <1>3, <1>4, <2>2, EchoStutters DEF Echo!Reset, Stored
<1> QED BY <1>5, <1>6

(* The timer, main, and a system that stands still.                        *)
LEMMA EchoTimer ==
  ASSUME Timestamp \/ CloseMain \/ UNCHANGED systemVars
  PROVE  Echo!AddStamp \/ UNCHANGED Echo!vars
<1>1. UNCHANGED <<thread, sent, fd, use_aesd_char_device>>
  BY DEF Timestamp, CloseMain, systemVars, vars, local, files, rest
<1>2. Serving' = Serving /\ Answers' = Answers
  BY <1>1 DEF Serving, Answers
<1>3. Served' = Served
  BY <1>2 DEF Served
<1>4. CASE Timestamp
  BY <1>1, <1>2, <1>3, <1>4 DEF Timestamp, FileWrite, Stored, Echo!AddStamp
<1>5. CASE CloseMain \/ UNCHANGED systemVars
  <2>1. Stored' = Stored
    BY <1>1, <1>5 DEF CloseMain, systemVars, vars, store, Stored
  <2> QED BY <1>2, <2>1, EchoStutters
<1> QED BY <1>4, <1>5

(* The server with its threads, descriptors and buffers, on top of a       *)
(* module that comes and goes, answers its clients one at a time, each     *)
(* with whole lines of what is stored then (sock_thread_func).             *)
THEOREM ImplementsEcho == SystemSpec => EchoSpec
<1>1. SystemInit => Echo!Init
  <2> SUFFICES ASSUME SystemInit PROVE Echo!Init
    OBVIOUS
  <2>1. Serving = {} /\ Answers = [c \in Clients |-> NULL] /\ Stored = <<>>
    BY DEF SystemInit, Init, Serving, Answers, Stored
  <2> QED BY <2>1 DEF Served, Echo!Init
<1>2. /\ EchoInv /\ SessionInv' /\ ServedHolds /\ ServedHolds' /\ OpenKeepsModule
      /\ [SystemNext]_systemVars
      => [Echo!Next]_(Echo!vars)
  <2> SUFFICES ASSUME EchoInv, SessionInv', ServedHolds, ServedHolds', OpenKeepsModule,
                      [SystemNext]_systemVars
               PROVE  [Echo!Next]_(Echo!vars)
    OBVIOUS
  <2>0. SessionInv /\ SessionTypes /\ SessionTypes'
    BY DEF EchoInv, SessionInv
  <2>1. ASSUME NEW c \in Clients, Connect(c) \/ Read(c) \/ Lock(c) \/ WriteKills(c)
        PROVE  UNCHANGED Echo!vars
    BY <2>0, <2>1, EchoIdle
  <2>2. ASSUME NEW c \in Clients, WriteLine(c) \/ WriteFails(c) \/ Seek(c)
        PROVE  Echo!Begin(c) \/ UNCHANGED Echo!vars
    BY <2>0, <2>2, EchoBegins
  <2>3. ASSUME NEW c \in Clients, CloseUnlock(c)
        PROVE  Echo!Answer(c) \/ Echo!Refuse(c)
    BY <2>3, EchoAnswers
  <2>4. ASSUME NEW c \in Clients, Joined(c)
        PROVE  Echo!Leave(c)
    BY <2>0, <2>4, EchoLeaves
  <2>5. CASE SessionStep
    <3>1. \/ \E c \in Clients : Connect(c) \/ Read(c) \/ Serve(c) \/ Joined(c)
          \/ Timestamp \/ CloseMain
      BY <2>5 DEF SessionStep, Next
    <3>2. CASE Timestamp \/ CloseMain
      BY <3>2, EchoTimer DEF Echo!Next
    <3>3. CASE \E c \in Clients : Connect(c) \/ Read(c) \/ Serve(c) \/ Joined(c)
      <4>1. PICK c \in Clients : Connect(c) \/ Read(c) \/ Serve(c) \/ Joined(c)
        BY <3>3
      <4>2. \/ Connect(c) \/ Read(c) \/ Lock(c) \/ WriteKills(c)
            \/ WriteLine(c) \/ WriteFails(c) \/ Seek(c) \/ CloseUnlock(c) \/ Joined(c)
        BY <4>1 DEF Serve
      <4>3. Echo!Begin(c) \/ Echo!Answer(c) \/ Echo!Refuse(c) \/ Echo!Leave(c)
            \/ UNCHANGED Echo!vars
        BY <2>1, <2>2, <2>3, <2>4, <4>2
      <4> QED BY <4>3 DEF Echo!Next
    <3> QED BY <3>1, <3>2, <3>3
  <2>6. CASE ModuleStep
    BY <2>0, <2>6, EchoResets DEF Echo!Next
  <2>7. CASE UNCHANGED systemVars
    BY <2>7, EchoTimer DEF Echo!Next
  <2> QED BY <2>5, <2>6, <2>7 DEF SystemNext
<1>3. EchoInv => SessionInv
  BY DEF EchoInv
<1> QED BY <1>1, <1>2, <1>3, EchoInvariant, ServedHoldsMutex, NoCallIntoCleanup, PTL
        DEF SystemSpec, EchoSpec, Echo!Spec
=============================================================================
