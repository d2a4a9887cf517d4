------------------------------ MODULE AesdSession ------------------------------
(***************************************************************************)
(* What the server's threads do with the bytes: sock_thread_func,          *)
(* read_until_term and writer_func_fd (server/include/utils.c), in both    *)
(* builds of the server.  Built for the device, each session opens         *)
(* /dev/aesdchar; built for the file, all sessions and timer_thread        *)
(* (timestamp_thread.c) share the descriptor, and so the position, that    *)
(* main has opened (server/aesdsocket.c).                                  *)
(*                                                                         *)
(* The device is what module CommandStore promises: the last Capacity      *)
(* commands and the bytes of the next one.  The server is its only user.   *)
(* A thread's reads, one byte each, are steps of their own.                *)
(***************************************************************************)
EXTENDS Integers, Sequences, SequencesExt

CONSTANTS
  Clients,             \* a client and the thread that serves it
  Texts,               \* what a client can send before it waits or hangs up
  Seeks,               \* the texts that are well-formed AESDCHAR_IOCSEEKTO lines
  NL, NUL, Stamp,      \* the newline, the null character, a timestamp's line
  INITIAL_BUFFER_SIZE, \* the first size of a line's buffer
  Capacity,            \* the commands the device keeps
  MaxSessions,         \* bound: how many connections there are
  MaxStamps,           \* bound: how often the timer fires
  NULL

ASSUME SessionAssumption ==
  /\ Seeks \subseteq Texts
  /\ \A t \in Texts \cup {Stamp} : t \in Seq(Range(t))
  /\ INITIAL_BUFFER_SIZE \in Nat /\ INITIAL_BUFFER_SIZE >= 2
  /\ Capacity \in Nat \ {0}
  /\ NL # NUL /\ NULL \notin Clients

VARIABLES
  use_aesd_char_device, \* the build
  thread,      \* where the thread of each client is
  text,        \* what the client has sent
  line,        \* the bytes in the buffer of read_until_term
  bufsize,     \* the size of that buffer
  return_flag, \* what the last read_until_term has set
  wrote,       \* whether the thread's line has been written
  sent,        \* the lines sent back to the client
  mutex,       \* fd_mutex: the thread that holds it, or NULL
  fd,          \* the thread's descriptor: "none", "open" or "failed"
  f_pos,       \* the position behind the thread's descriptor
  main_fd,     \* file build: whether the shared descriptor is open
  main_pos,    \* file build: the position behind it
  log,         \* the device's commands, the oldest first
  pending,     \* the device's unfinished command
  device,      \* "locked" when the driver's mutex is lost
  file,        \* file build: the file, as the pieces it was written in
  sessions, stamps, \* counted up to the bounds
  alive        \* whether the process exists

local == <<text, line, bufsize, return_flag, wrote, sent>>
store == <<log, pending, device, file>>
files == <<fd, f_pos, main_fd, main_pos>>
rest  == <<use_aesd_char_device, sessions, stamps, alive>>
vars  == <<thread, local, mutex, store, files, rest>>

Init ==
  /\ use_aesd_char_device \in BOOLEAN
  /\ thread = [c \in Clients |-> "none"]
  /\ text = [c \in Clients |-> <<>>]
  /\ line = [c \in Clients |-> <<>>]
  /\ bufsize = [c \in Clients |-> INITIAL_BUFFER_SIZE]
  /\ return_flag = [c \in Clients |-> -1]
  /\ wrote = [c \in Clients |-> FALSE]
  /\ sent = [c \in Clients |-> <<>>]
  /\ mutex = NULL
  /\ fd = [c \in Clients |-> "none"] /\ f_pos = [c \in Clients |-> 0]
  /\ main_fd = ~use_aesd_char_device /\ main_pos = 0
  /\ log = <<>> /\ pending = <<>> /\ device = "ok" /\ file = <<>>
  /\ sessions = 0 /\ stamps = 0 /\ alive = TRUE

Move(c, from, to) == thread[c] = from /\ thread' = [thread EXCEPT ![c] = to]

(* *bytes_read == 23 and strncmp(ioc_pfx, ...) == 0.                       *)
IsSeek(c) == line[c] \in Seeks

(* What a read delivers, from position 0 on.                               *)
Stored == IF use_aesd_char_device THEN log ELSE file
Content == FlattenSeq(Stored)

(* A connection is accepted and its thread starts; read_until_term has     *)
(* its first buffer.                                                       *)
Connect(c) ==
  /\ Move(c, "none", "receive")
  /\ sessions < MaxSessions /\ sessions' = sessions + 1
  /\ use_aesd_char_device \/ main_fd
  /\ \E t \in Texts : text' = [text EXCEPT ![c] = t]
  /\ line' = [line EXCEPT ![c] = <<>>]
  /\ bufsize' = [bufsize EXCEPT ![c] = INITIAL_BUFFER_SIZE]
  /\ return_flag' = [return_flag EXCEPT ![c] = -1]
  /\ wrote' = [wrote EXCEPT ![c] = FALSE]
  /\ sent' = [sent EXCEPT ![c] = <<>>]
  /\ UNCHANGED <<mutex, store, files, use_aesd_char_device, stamps, alive>>

-----------------------------------------------------------------------------
(* read_until_term.  It keeps the bytes read so far in line[c] and leaves  *)
(* room for a null character behind them.                                  *)

Full(c) == Len(line[c]) = bufsize[c] - 1

(* Bug: the buffer grows only when it has no room left at all.             *)
GrownLate(c) ==
  IF Len(line[c]) = bufsize[c] THEN 2 * bufsize[c] ELSE bufsize[c]

Grown(c) == IF Full(c) THEN 2 * bufsize[c] ELSE bufsize[c]

(* One byte is read and is not the last one.                               *)
Keep(c, byte) ==
  /\ byte # NL
  /\ line' = [line EXCEPT ![c] = Append(@, byte)]
  /\ bufsize' = [bufsize EXCEPT ![c] = Grown(c)]
  /\ return_flag' = [return_flag EXCEPT ![c] = 0]

(* The buffer of a line that is complete is shrunk to it and its null      *)
(* character, if it is larger.                                             *)
Shrunk(c, bytes) == IF Len(bytes) < Grown(c) - 1 THEN Len(bytes) + 1 ELSE Grown(c)

(* It returns: the flag, and the bytes if there are any.                   *)
Return(c, flag, bytes) ==
  /\ line' = [line EXCEPT ![c] = bytes]
  /\ return_flag' = [return_flag EXCEPT ![c] = flag]
  /\ bufsize' = [bufsize EXCEPT ![c] = IF flag \in {0, 5} THEN Shrunk(c, bytes) ELSE @]

(* It returns NULL: malloc failed (1), realloc failed (2).                 *)
NoMemory(c, flag) ==
  \/ flag = 1 /\ line[c] = <<>>
  \/ flag = 2 /\ Full(c)

(* What the client's text still holds for the thread.                      *)
Received(c) == Len(line[c])

(* The line is received byte by byte; at NL, or when the client hangs up   *)
(* after at least one byte, the thread goes on with it.                    *)
ReceiveByte(c) ==
  /\ Move(c, "receive", "receive")
  /\ Received(c) < Len(text[c])
  /\ Keep(c, text[c][Received(c) + 1])
  /\ UNCHANGED <<text, wrote, sent, mutex, store, files, rest>>

ReceiveLine(c) ==
  /\ Move(c, "receive", "lock")
  /\ \/ /\ Received(c) < Len(text[c]) /\ text[c][Received(c) + 1] = NL
        /\ Return(c, 0, Append(line[c], NL))
     \/ /\ Received(c) = Len(text[c]) /\ line[c] # <<>>
        /\ Return(c, 5, line[c])
  /\ UNCHANGED <<text, wrote, sent, mutex, store, files, rest>>

(* Without a line the thread ends at once.                                 *)
ReceiveNothing(c) ==
  /\ Move(c, "receive", "none")
  /\ \E flag \in 1 .. 4 :
       /\ \/ NoMemory(c, flag)
          \/ flag = 3
          \/ flag = 4 /\ text[c] = <<>>
       /\ Return(c, flag, <<>>)
  /\ UNCHANGED <<text, wrote, sent, mutex, store, files, rest>>

-----------------------------------------------------------------------------
(* Bug: fd_mutex is not taken.                                             *)
LockNothing(c) ==
  /\ Move(c, "lock", IF IsSeek(c) THEN "seek" ELSE "write")
  /\ mutex' = c
  /\ IF use_aesd_char_device
       THEN \E result \in {"open", "failed"} : fd' = [fd EXCEPT ![c] = result]
       ELSE fd' = fd
  /\ f_pos' = [f_pos EXCEPT ![c] = 0]
  /\ UNCHANGED <<local, store, main_fd, main_pos, rest>>

(* pthread_mutex_lock, then open of the device.                            *)
Lock(c) ==
  /\ Move(c, "lock", IF IsSeek(c) THEN "seek" ELSE "write")
  /\ mutex = NULL /\ mutex' = c
  /\ IF use_aesd_char_device
       THEN \E result \in {"open", "failed"} : fd' = [fd EXCEPT ![c] = result]
       ELSE fd' = fd
  /\ f_pos' = [f_pos EXCEPT ![c] = 0]
  /\ UNCHANGED <<local, store, main_fd, main_pos, rest>>

(* The descriptor can be used, and the use does not wait for ever.         *)
Usable(c) == IF use_aesd_char_device THEN fd[c] = "open" ELSE main_fd
Waits(c) == use_aesd_char_device /\ fd[c] = "open" /\ device = "locked"
Pos(c) == IF use_aesd_char_device THEN f_pos[c] ELSE main_pos

SetPos(c, p) ==
  IF use_aesd_char_device
    THEN f_pos' = [f_pos EXCEPT ![c] = p] /\ main_pos' = main_pos
    ELSE main_pos' = p /\ f_pos' = f_pos

(* strlen( buf ): the bytes in front of the first null character.          *)
Written(c) ==
  LET nuls == {i \in DOMAIN line[c] : line[c][i] = NUL}
  IN  SubSeq(line[c], 1, IF nuls = {} THEN Len(line[c])
                         ELSE (CHOOSE i \in nuls : \A j \in nuls : i <= j) - 1)

(* Bug: the oldest command is not dropped.                                 *)
KeepAll(commands) == commands

(* The driver drops the oldest command (RecentWrites).                     *)
KeepRecent(commands) ==
  IF Len(commands) > Capacity THEN Tail(commands) ELSE commands

(* aesd_write: a newline completes the command, and so may the byte behind *)
(* the data (CommandStore).                                                *)
DeviceWrite(bytes) ==
  LET command == pending \o bytes
  IN  \/ log' = KeepRecent(Append(log, command)) /\ pending' = <<>>
      \/ ~Contains(command, NL) /\ pending' = command /\ log' = log

(* An O_APPEND write to the file.                                          *)
FileWrite(bytes) == file' = Append(file, bytes)

(* Bug: without lseek the reply begins behind what was written.            *)
BeginReplyNoSeek(c) ==
  /\ SetPos(c, Pos(c) + Len(Written(c)))
  /\ line' = [line EXCEPT ![c] = <<>>]
  /\ bufsize' = [bufsize EXCEPT ![c] = INITIAL_BUFFER_SIZE]
  /\ return_flag' = [return_flag EXCEPT ![c] = -1]
  /\ UNCHANGED <<text, sent, mutex, device, fd, main_fd, rest>>

(* Whether or not writer_func_fd succeeds, the line is freed, and after    *)
(* lseek the first read_until_term of the reply begins.                    *)
BeginReply(c) ==
  /\ SetPos(c, 0)
  /\ line' = [line EXCEPT ![c] = <<>>]
  /\ bufsize' = [bufsize EXCEPT ![c] = INITIAL_BUFFER_SIZE]
  /\ return_flag' = [return_flag EXCEPT ![c] = -1]
  /\ UNCHANGED <<text, sent, mutex, device, fd, main_fd, rest>>

(* A write of no bytes to a device with nothing pending kills the thread.  *)
WriteLine(c) ==
  /\ Move(c, "write", "reply")
  /\ Usable(c) /\ ~Waits(c)
  /\ IF use_aesd_char_device
       THEN pending \o Written(c) # <<>> /\ DeviceWrite(Written(c)) /\ file' = file
       ELSE FileWrite(Written(c)) /\ UNCHANGED <<log, pending>>
  /\ wrote' = [wrote EXCEPT ![c] = TRUE]
  /\ BeginReply(c)

(* write returns -1: no descriptor, no memory, or a signal, which also     *)
(* ends the wait for the driver's mutex.                                   *)
WriteFails(c) ==
  /\ Move(c, "write", "reply")
  /\ UNCHANGED <<log, pending, file, wrote>>
  /\ BeginReply(c)

WriteKills(c) ==
  /\ Move(c, "write", "killed")
  /\ use_aesd_char_device /\ Usable(c) /\ ~Waits(c)
  /\ pending \o Written(c) = <<>>
  /\ device' = "locked"
  /\ UNCHANGED <<local, mutex, log, pending, file, files, rest>>

(* ioctl instead of the write; the line is not freed.  Where the driver    *)
(* seeks to is AesdDriver's matter (IoctlSeek); it may refuse, and it may  *)
(* lose its mutex (IoctlInvalid).  A signal ends the wait for that mutex.  *)
(* On the file the ioctl fails, and the position stays where the last user *)
(* has left it.                                                            *)
Seek(c) ==
  /\ Move(c, "seek", "reply")
  /\ \/ UNCHANGED <<f_pos, device>>
     \/ /\ use_aesd_char_device /\ Usable(c) /\ ~Waits(c)
        /\ \E p \in 0 .. Len(Content) : f_pos' = [f_pos EXCEPT ![c] = p]
        /\ device' \in {"ok", "locked"}
  /\ line' = [line EXCEPT ![c] = <<>>]
  /\ bufsize' = [bufsize EXCEPT ![c] = INITIAL_BUFFER_SIZE]
  /\ return_flag' = [return_flag EXCEPT ![c] = -1]
  /\ UNCHANGED <<text, wrote, sent, mutex, log, pending, file, fd, main_fd, main_pos, rest>>

-----------------------------------------------------------------------------
(* The loop of the reply: read_until_term on the descriptor, then send.    *)

MoreToRead(c) == Usable(c) /\ Pos(c) < Len(Content)
NextByte(c) == Content[Pos(c) + 1]

ReplyByte(c) ==
  /\ Move(c, "reply", "reply")
  /\ ~Waits(c) /\ MoreToRead(c)
  /\ Keep(c, NextByte(c))
  /\ SetPos(c, Pos(c) + 1)
  /\ UNCHANGED <<text, wrote, sent, mutex, store, fd, main_fd, rest>>

(* The line is complete: it is sent and freed, and the next call begins.   *)
ReplyLine(c) ==
  /\ Move(c, "reply", "reply")
  /\ ~Waits(c) /\ MoreToRead(c) /\ NextByte(c) = NL
  /\ SetPos(c, Pos(c) + 1)
  /\ sent' = [sent EXCEPT ![c] = Append(@, Append(line[c], NL))]
  /\ line' = [line EXCEPT ![c] = <<>>]
  /\ bufsize' = [bufsize EXCEPT ![c] = INITIAL_BUFFER_SIZE]
  /\ return_flag' = [return_flag EXCEPT ![c] = 0]
  /\ UNCHANGED <<text, wrote, mutex, store, fd, main_fd, rest>>

(* send takes less than the line: the signal SIGPIPE ends the process, or  *)
(* the line is freed twice and free aborts it.                             *)
SendFails(c) ==
  /\ thread[c] = "reply"
  /\ ~Waits(c) /\ MoreToRead(c) /\ NextByte(c) = NL
  /\ alive' = FALSE
  /\ UNCHANGED <<thread, local, mutex, store, files, use_aesd_char_device,
                 sessions, stamps>>

(* The end of the data, after a whole line or inside one, which is then    *)
(* neither sent nor freed.                                                 *)
ReplyEnds(c) ==
  /\ Move(c, "reply", "close")
  /\ ~Waits(c) /\ Usable(c) /\ ~MoreToRead(c)
  /\ Return(c, IF line[c] = <<>> THEN 4 ELSE 5, <<>>)
  /\ UNCHANGED <<text, wrote, sent, mutex, store, files, rest>>

(* The loop ends for want of memory, or because a read fails.              *)
ReplyFails(c) ==
  /\ Move(c, "reply", "close")
  /\ ~Waits(c)
  /\ \E flag \in 1 .. 3 :
       /\ NoMemory(c, flag) \/ (flag = 3 /\ ~Usable(c))
       /\ Return(c, flag, <<>>)
  /\ UNCHANGED <<text, wrote, sent, mutex, store, files, rest>>

CloseUnlock(c) ==
  /\ Move(c, "close", "complete")
  /\ fd' = [fd EXCEPT ![c] = "none"]
  /\ mutex' = NULL
  /\ UNCHANGED <<local, store, f_pos, main_fd, main_pos, rest>>

(* The thread ends and is joined, and the client can come again.           *)
Joined(c) ==
  /\ Move(c, "complete", "none")
  /\ UNCHANGED <<local, mutex, store, files, rest>>

-----------------------------------------------------------------------------
(* td.lock = fd_mutex copies the mutex while nobody has it: for the timer  *)
(* it is free, whichever session holds fd_mutex.                           *)
TimerLockFree == TRUE

(* timer_thread.  The descriptor is O_APPEND, and its position ends up     *)
(* behind the line.                                                        *)
Timestamp ==
  /\ ~use_aesd_char_device /\ main_fd /\ TimerLockFree
  /\ stamps < MaxStamps /\ stamps' = stamps + 1
  /\ FileWrite(Stamp)
  /\ main_pos' = Len(Content) + Len(Stamp)
  /\ UNCHANGED <<thread, local, mutex, log, pending, device, fd, f_pos, main_fd,
                 use_aesd_char_device, sessions, alive>>

(* main at DONE closes the shared descriptor, before it joins the threads. *)
CloseMain ==
  /\ ~use_aesd_char_device /\ main_fd
  /\ main_fd' = FALSE
  /\ UNCHANGED <<thread, local, mutex, store, fd, f_pos, main_pos, rest>>

Read(c) ==
  \/ ReceiveByte(c) \/ ReceiveLine(c) \/ ReceiveNothing(c)
  \/ ReplyByte(c) \/ ReplyLine(c) \/ ReplyEnds(c) \/ ReplyFails(c) \/ SendFails(c)

Serve(c) ==
  \/ Lock(c) \/ WriteLine(c) \/ WriteFails(c) \/ WriteKills(c) \/ Seek(c)
  \/ CloseUnlock(c)

Next ==
  /\ alive
  /\ \/ \E c \in Clients : Connect(c) \/ Read(c) \/ Serve(c) \/ Joined(c)
     \/ Timestamp \/ CloseMain

Spec == Init /\ [][Next]_vars

-----------------------------------------------------------------------------
TypeOK ==
  /\ use_aesd_char_device \in BOOLEAN /\ alive \in BOOLEAN /\ main_fd \in BOOLEAN
  /\ thread \in [Clients -> {"none", "receive", "lock", "write", "seek", "reply",
                             "close", "complete", "killed"}]
  /\ return_flag \in [Clients -> -1 .. 5]
  /\ wrote \in [Clients -> BOOLEAN]
  /\ mutex \in Clients \cup {NULL}
  /\ fd \in [Clients -> {"none", "open", "failed"}]
  /\ f_pos \in [Clients -> Nat] /\ main_pos \in Nat
  /\ device \in {"ok", "locked"}
  /\ ~Contains(pending, NL)
  /\ Len(log) <= Capacity

(* The bytes of a line and the null character behind them fit into the     *)
(* buffer, at every length, after every growth and behind the last byte    *)
(* (read_until_term).                                                      *)
BufferFits == \A c \in Clients : Len(line[c]) < bufsize[c]

(* What a client has been sent, and the line being read for it.            *)
Reply(c) == FlattenSeq(sent[c]) \o line[c]

(* A reply is an unbroken piece of the content, from its beginning when    *)
(* the client's line was written, no matter what other sessions and the    *)
(* timer do meanwhile (the loop of sock_thread_func).                      *)
ReplyIsContent == \A c \in Clients : thread[c] = "reply" =>
  LET n == Len(Reply(c))
  IN  /\ \E k \in 0 .. Len(Content) - n : SubSeq(Content, k + 1, k + n) = Reply(c)
      /\ wrote[c] => IsPrefix(Reply(c), Content)

(* The client's text as a whole line without null characters.              *)
WholeLine(c) ==
  /\ text[c] # <<>> /\ Last(text[c]) = NL
  /\ \A i \in 1 .. Len(text[c]) - 1 : text[c][i] \notin {NL, NUL}

(* A client whose line was written, and to whom the loop has sent all it   *)
(* could read, gets its own line back, at the end of the last one.  In the *)
(* file build a timestamp written meanwhile, or main at DONE, can cut the  *)
(* reply short (sock_thread_func, timer_thread).                           *)
ReplyEndsWithOwnLine == \A c \in Clients :
  /\ thread[c] = "close" /\ return_flag[c] \in {4, 5}
  /\ wrote[c] /\ WholeLine(c)
  /\ use_aesd_char_device \/ (main_fd /\ Last(file) # Stamp)
  => sent[c] # <<>> /\ IsSuffix(text[c], Last(sent[c]))
=============================================================================
