# Formal models of the AESD character driver and socket server

The repository holds the course work of an embedded Linux class. Its core is a
Linux character driver, `/dev/aesdchar`, that keeps the last ten commands
written to it, and a threaded TCP server, `aesdsocket`, that writes each line it
receives to that device and sends the device's content back. This directory
models both in TLA+, from the life of the kernel module to the bytes a client
gets back, and with them the small exercises beside them (system calls, threads,
a timer). TLC checks the models on small instances, and TLAPS proves every safety
property and every refinement that a passing run checks, for all values of the
constants. Liveness is left to TLC.

## The system

### Circular buffer (`aesd-char-driver/aesd-circular-buffer.c`, `.h`)

*State*: an array of ten entries (pointer and size), `in_offs`, `out_offs`,
`full`. *Operations*: initialise, add an entry (the overwritten entry's pointer
is returned for the caller to free), find the entry and byte for a position in
the concatenation of all entries. *Used by* the driver, under its mutex except
in `aesd_llseek`. *Hard*: off-by-one at the edges of entries and at the wrap;
the search visits the slots from `in_offs` on, empty or not. *Correct when* it
is a log of the ten most recent entries, oldest first, and the search agrees
with the concatenation.

### Driver calls (`aesd-char-driver/main.c`)

*State*: the buffer, `g_ent` (a command that still lacks its newline), the
device mutex, the memory from `kmalloc`, and for each open file `f_pos`.
*Operations*: `open`, `release`, `read`, `write`, `llseek` and the
`AESDCHAR_IOCSEEKTO` ioctl. *Interaction*: all open files share one device;
`read`, `write` and the ioctl take the mutex with `mutex_lock_interruptible`,
`llseek` does not. *Hard*: concurrency of calls, ownership of memory through
several exits, user copies that stop midway, allocations that fail, error
returns that skip the unlock, positions that outlive what they pointed at.
*Correct when* every block of memory has one owner, sizes describe data, reads
stay inside an entry and end only at the end, commands stay whole and in order,
the mutex is given back, and every call returns.

### Module lifecycle (`aesd_init_module`, `aesd_setup_cdev`, `aesd_cleanup_module`, load scripts)

*State*: the device number, the cdev, `g_ent`, what the device stores, and the
node `/dev/aesdchar`. *Operations*: each call of init and cleanup that registers,
frees or can fail; `aesdchar_load` and `aesdchar_unload`. *Interaction*: sessions
open the device at any moment; the kernel counts open files. *Hard*: partial
failure of initialisation, what cleanup frees, unloading under a running server,
a node with yesterday's number. *Correct when* a failed or finished load leaves
nothing registered, memory is lost in known places only, no call runs into
cleanup, and the node is that of the loaded module.

### Server: main and the thread list (`server/aesdsocket.c`, `server/include/utils.c`)

*State*: the list of `struct sock_thread_data`, `local_sock_thread_data`,
`caught_signal`, `fd_mutex`, the sockets. *Operations*: set-up, accept and start
a thread, join and free finished threads, unwind at `DONE`, the signal handler.
*Interaction*: main and threads share the nodes (two flags set by the thread,
read by main without a lock) and the mutex; threads use the device. *Hard*:
signals between a test and a blocking call, nodes freed while in use, a failure
of any of accept, malloc and pthread_create, a join that waits for ever, a send
that waits for its client with the mutex held. *Correct when* a thread's node
lives as long as the thread and is freed exactly once, the reaping never blocks
main, and the server stops when told.

### Server: sessions (`sock_thread_func`, `read_until_term`, `writer_func_fd`)

*State*: the thread's place, its line in a buffer that grows, its descriptor and
position. *Operations*: receive a line, lock, open, write or ioctl, send the
content line by line, close, unlock, set the flags. Built for a file instead of
the device (`USE_AESD_CHAR_DEVICE 0`), all sessions and `timer_thread`
(`timestamp_thread.c`) share one descriptor, and `setup_timer` starts the timer.
*Hard*: the room for the null character, the position at which a reply begins, a
timer whose lock is a copy, a descriptor that `main` closes first. *Correct
when* one session at a time uses the device, each is served to the end, a reply
is an unbroken piece of the content, and a client finds its own line in it.

### System calls, threads (`examples/systemcalls`, `examples/threading`)

`do_system`, `do_exec` and `do_exec_redirect` run a command in a child process;
*hard* are the failures of open, fork, dup2, execv and waitpid in two processes
and a child that outlives its call. `start_thread_obtaining_mutex` starts a
thread that sleeps, locks, sleeps and unlocks. *Correct when* a result is that of
the command, redirected output goes to the file only and the file is the last
call's, threads exclude each other and end.

### The rest

`finder-app` has a writer and a finder utility. `main_20260507.c` is
an older copy of `main.c` that nothing builds; `local_test_*`, `test_*`,
`autotest-validate` and `student-test` are tests; the remaining scripts build
the kernel image, start QEMU and run CI.

## Modules

| module | what it is |
| --- | --- |
| `CircularBuffer` | the three functions of the circular buffer as operators on the value of the struct |
| `CircularBufferUse` | a caller that adds entries: the state machine for the runs and proofs about the buffer alone |
| `RecentWrites` | abstract: a log of the most recent writes |
| `AesdDriver` | the driver's calls, EXTENDS `CircularBuffer` |
| `CommandStore` | abstract: what the device promises its users |
| `AesdSocket` | the server: main, the list, the control of the sessions |
| `AesdModule` | the life of the driver as a kernel module, and the scripts |
| `AesdSession` | the data of the sessions, in both builds, with `timer_thread` |
| `AesdSystem` | EXTENDS `AesdSession`, composes it with `AesdModule` |
| `EchoService` | abstract: what the server promises its clients |
| `SystemCalls` | `systemcalls.c`: the caller and its children |
| `Threading` | `threading.c` |
| `TimestampTimer` | the time functions, and the timer `setup_timer` starts |
| `MCCircularBuffer`, `MCAesdDriver`, `MCAesdSocket`, `MCAesdSystem` | instances for TLC |
| `MCPrograms` | `SystemCalls`, `Threading` and `TimestampTimer` in one instance; the initial state chooses which one runs |
| `AesdDriverComments`, `AesdDriverSeekEnd`, `AesdSocketComments` | what comments say and the code does not do |
| `CircularBufferLemmas`, `CircularBufferProofs` | proofs: the operators of the buffer, and the buffer alone |
| `FlattenLemmas` | proofs: what `FlattenSeq` of the community modules returns |
| `AesdDriverProofs` | proofs: the driver, and that it implements `CommandStore` |
| `AesdModuleProofs` | proofs: the module's life |
| `AesdSocketProofs` | proofs: the thread list, the nodes and the mutex of the server |
| `AesdSystemProofs` | proofs: the sessions on top of the module, and that they implement `EchoService` |
| `ProgramsProofs` | proofs: the three small programs |

### How the models correspond to the code

**CircularBuffer.** `buffptr` is the identity of the memory, since the buffer
never reads the bytes. `add_entry` is split into its result
(`aesd_circular_buffer_add_entry`) and its return value (`Overwritten`). The
search loop is the least pass of the loop whose test holds (`Hits`), with
`total_byte_count` as a prefix sum, which is a recursive function so that the
proofs can use it.

**AesdDriver.** An actor is an open file used by one thread. A call is a
sequence of steps, cut where others can get in between: before the mutex, and
inside a critical section at the calls that can sleep (the allocation and the
user copies). Everything else between is one step. `aesd_llseek` reads one slot
per step, because nothing keeps a writer out. `heap` gives the bytes of every
allocated block, and `kmalloc` returns any free block or NULL. The `l_ent`
structure itself, allocated and freed inside one call, has no block of its own;
its failed allocation has the effect of the other one (`WriteNoMemory`). Its
byte behind the data is an uninitialised read, so a newline there is a
nondeterministic choice (`StrayNewline`). `fixed_size_llseek` and `kfree` are
external and follow the kernel. `Interrupted` models a signal only while another
call holds the mutex; with the mutex free the effect is the same as that of a
call which is not made. `EFAULT` is positive, as in the source. What a call
returns to the user is in `returned`. Positions count the newlines, as the table
in `main.c:375-378` does; the example below it (`main.c:380-382`: byte 3 of
command 2 is at 15) contradicts the table, by which command 2 begins at 14 and
that byte is at 17, where the code and `SeekExactBeforeWrap` put it.

**AesdSocket.** A node stands for one `struct sock_thread_data` and its thread.
main is cut at each step another actor can observe: the loop test, accept, each
element of the scan, each join. The failure exits are actions: accept (any
errno), malloc, `pthread_create` (its node is freed while the list still holds
it, so that `DONE` frees it again and glibc aborts the process). `SLIST_FOREACH`
reads the next pointer of a node that was just freed; glibc's `free` overwrites
the first 16 bytes of the block only and the pointer lies behind them, so the
model reads the old value. The mutex of the driver is one value, `device`: it is
`"locked"` once a refused seek or a killed thread has lost it (the cases
`AesdDriver` derives), and then every read, write and ioctl waits for ever. The
reply is a loop of two steps: a line is read (`ReplyLine`), and `send` takes it
(`Sent`) or fails (`SendFails`). In between the thread is in `send`, which waits
until the client reads, and holds `fd_mutex` all that time. The node allocated
for `e` at `DONE` is in `allocated` like any other; `leaked` says which one it is.
A failure of `bind` jumps to `DONE` over the initialisation of the variables it
uses, and the process ends or crashes (`Setup`).

**AesdModule.** `module` names the call of `aesd_init_module` or
`aesd_cleanup_module` that is next. The failure exits are those of the source:
without memory for `g_ent` all of `aesd_cleanup_module` runs, with a cdev that was
never added (`"bad"` afterwards; the kernel warns and goes on); after a failed
`cdev_add` only the region is given back. When the kernel removes the module
(`Out`), what its pointers still point to (`Memory`) goes to `lost`: by
`KnownLosses` that is `g_ent` after a failed `cdev_add` and the unfinished command
at unload, and nothing else. The scripts stop at the first command that fails;
`insmod` of a loaded module does, `modprobe`, which `aesdchar_load` uses when
there is no local file, does not (`ModprobeLoaded`). That `rmmod` is refused while a
file is open is the kernel's doing, on account of `.owner`. `Users` is what the
rest of the system may do to the device.

**AesdSession.** A thread is named after its client. `text` is what the client
sends before it waits or hangs up, `line` the bytes in `read_until_term`'s
buffer, `bufsize` its size; each byte read is a step. `return_flag` is the flag
of the source. Growing the buffer and reading the byte that needs the room are
one step. A complete line has its buffer shrunk to it and the null character,
unless the buffer is no larger (`Shrunk`); that `realloc` to a smaller size may
fail, which leaves more room than the model has. The write and the `lseek`
behind it are one step: nothing that happens in between outlasts the `lseek`.
The device is `CommandStore`'s: `DeviceWrite` has the choice of a stray newline,
`Seek` goes anywhere in the content and may lose the mutex (the cases
`AesdDriver` derives), and a write of no bytes kills the thread. In the file
build `main_pos` is the position that all threads share; `Timestamp` ignores
`mutex`, since the timer locks a copy, and `CloseMain` may come before the
threads are joined. A short `send` ends the process (the line is freed twice, or
`SIGPIPE`). A text that is a well-formed seek line is a member of `Seeks`; the
parse itself is abstracted to that.

**AesdSystem.** `opens`, the open files `AesdModule` counts, are the sessions
with the device open; the stored commands are one variable of both. A session's
open succeeds only while `CanOpen` holds. A new load brings a new driver mutex.

**SystemCalls.** Call *n* is made by one caller; its child has the same number
and its own place. All calls name the same output file, the case in which they
disturb each other. `opened` is never reduced: the caller does not close.

**Threading.** The sleeps are the freedom of scheduling. `failed` has the threads
whose `pthread_mutex_lock` returned an error; they go on as the source does. The caller that joins
is external and may itself hold the mutex, as the assignment's test does.

**TimestampTimer.** Times are in nanoseconds of which a second has few. The
product of milliseconds is taken modulo `UINT`; comparison of floats is modelled
by a step below which two times are the same float. Timers are absolute, so a
delay of `setup_timer` between reading the clock and setting the timer does not
shift it.

## Runs

| run | question | result |
| --- | --- | --- |
| `buffer` | does the buffer keep its invariant, implement `RecentWrites`, and does the search agree with the concatenation? | holds |
| `driver` | memory, sizes, read bounds, the unlocked sum and the mutex, with two files and all calls; is every interleaving of reads and writes one of `CommandStore`? | holds |
| `driver_live` | do calls return and is the mutex given back? | holds |
| `server` | list, nodes, exit and exclusion with three nodes | holds |
| `server_live` | do sessions, the scan and the exit end? | holds |
| `system` | do lines fit their buffers, do clients get an unbroken reply with their own line in it, does the server implement `EchoService`, is nothing left registered of an unloaded module and no memory lost but in two known places, and is it never unloaded under a session? | holds |
| `programs` | are results those of the commands, is output redirected and the file the last call's, do the calls return, do threads exclude each other and end, does the timer fire on time? | holds |

The remaining runs ask whether the code does what a comment says, and end in a
violation:

| run | what the comment says | what TLC finds |
| --- | --- | --- |
| `seek_command` | the ioctl finds the `write_cmd`-th oldest command | another one after the wrap |
| `seek_returns` | it returns | it waits for ever after an earlier `-EINVAL` |
| `newline` | a command in the buffer has its newline | a newline behind the data was taken for one |
| `seek_end` | `SEEK_END` is relative to the size | the sum of a command written during the loop without the one written before it, for which the loop was too far |
| `signal` | the server stops on a signal | a signal before the sleep in accept |

Each of these checks one property; `PROJECT.json` quotes the comments under
`findings`. Other disagreements are in the models, or beside them, without a run
of their own:

- `main.c:266` says that `aesd_adjust_file_offset` returns zero if successful; it
  returns what `aesd_llseek` returns, the new position (`IoctlSeek`). What the
  value is, `SeekExactBeforeWrap` leaves open.
- `main.c:268` promises `-EINVAL` for a command that is not there; the loop stops
  at the first empty slot, or at the last one if `write_cmd` is the number of
  slots, and the seek goes to the end of the data (`TotalOffset`).
- `main.c:543` says that cleanup releases what the device has; `g_ent->buffptr`, an
  unfinished command, is not freed (`KnownLosses`).
- `utils.c:353` promises that open sockets are closed at the end; no code closes
  that of a client, until accept fails for want of descriptors (`TooManyFiles`).
- `aesdsocket.c:322` looks for a memory leak of 40 bytes in the loop; it is behind
  `DONE` (`leaked`).
- In the file build a timestamp can move the shared position while a session
  replies, and `main` can close the descriptor under it (`Timestamp`,
  `CloseMain`): against `utils.c:133` and `utils.c:352` the reply is cut short.
- `systemcalls.c:14` promises false for a command that fails; `do_system` tests
  `WIFEXITED` only (`Success`).
- `systemcalls.c:121` says that the output file is closed when the call returns;
  the caller's descriptor stays open (`opened`).
- `threading.h:24` says that the flag is true if the thread completed without
  error; after a failed lock it is true, too (`LockFails`). `ThreadsEnd` says
  nothing about the flag.
- `threading.c:77` promises false if no thread could be started; without memory -1
  is returned, which is true (`StartNoMemory`).
- `utils.c:376` leaves `free` of a line to the caller; `sock_thread_func` does
  not free the line of a seek command, nor a last line without a newline.
- `utils.c:353` promises that `/var/tmp/aesdsocketdata` is deleted at the end;
  the file build deletes it only at the next start.
- `systemcalls.c:40` promises true for commands executed successfully; `do_exec`
  and `do_exec_redirect` return true for a command killed by a signal, whose
  `WEXITSTATUS` is 0. A failed open of the output file shows only as a failed
  `dup2` in the child.
- `time_functions_shared.h:98`: a sum of exactly one second of nanoseconds is not
  carried over, and `timer_settime` refuses it (`RefusedAtOneMoment`). The period
  of the server has no milliseconds, so it does not meet this.
- `writer.c:35` promises to overwrite an existing file; it is opened without
  `O_TRUNC`, so the end of a longer content stays.
- `aesdsocket.c:403` speaks of threads that are complete and successful; the
  test is for either flag (`Scan`).

### Bounds

- `MaxOps` is 10 in the code; the runs use 1 to 3. Three slots (`buffer`) have a
  first, a middle and a last one; two have every order of wrap, overwrite and
  empty slots that the driver's properties tell apart. The proofs cover all
  values.
- Two files: the hazards are between a reader, a seeker and a writer, and the
  mutex makes a third one wait. Symmetry over files and blocks is used where
  only safety is checked.
- Four blocks: two commands in the buffer, pending data, and the block being
  allocated, so `kmalloc` fails only when it is chosen to.
- Payloads of one byte, with and without newline (and of none in
  `driver_live`). `MaxPending` bounds the unfinished command, `MaxPos` the
  position a write may advance to; both are guards of `AesdDriver`. Commands of
  two bytes arise from two writes.
- CONSTRAINTs keep the runs small. `OneLseek` (`driver`) lets a call of
  `aesd_llseek` overlap writes, against which it has no protection, but not
  reads, ioctls and other `aesd_llseek`s, which change nothing it looks at.
  `LseekAndWrite` (`seek_end`) leaves out all but writes and seeks. In `driver` a VIEW
  leaves out `returned`, which no step reads; a property that looks at
  `returned'` is still evaluated on every step, and the steps `CommandStore`
  allows do not depend on the earlier `returned` either.
- Server: three nodes have a first, middle and last list element; the process
  can open `MaxSockets` sockets, one more than there are nodes, so that a node's
  memory is used again.
- `system`: two clients, two connections (`MaxSessions`), two loads
  (`MaxLoads`), two device numbers, two timestamps (`MaxStamps`), one command
  kept. Two connections are enough for an unfinished line that the next client
  completes, for a command that pushes out another one, and for sessions that
  wait for each other. The first buffer has two bytes instead of 128, so a line
  of four bytes doubles it twice; the texts are whole lines of two and four
  bytes, an unfinished one, one with a null character and a seek. Clients and
  device numbers are symmetric.
- `programs`: two calls and two descriptors: a call's command runs on beside the
  next call, which truncates the file it writes to; an open may fail at any
  time. Three threads and their caller. The timer has four nanoseconds and two
  milliseconds to a second, `UINT` is 8: periods of less than a second, of
  exactly one, and such that wrap are all among those asked for.

### Fairness

A thread inside a driver call, and main and the session threads of the server
where they wait for no client, are scheduled again: weak fairness of these steps.
The kernel's mutex is handed to its first waiter, and a thread that waits for
glibc's mutex while others take and release it for ever is assumed to get it:
strong fairness of taking a mutex. A reply whose lines the client takes comes to
the end of the data: strong fairness of `EndReply`, because a `send` comes between
any two reads. The device is not written to meanwhile, as its only user is the
holder of `fd_mutex`, and each read advances.

Users of the device, network clients, signals and failures owe nothing. `send`
waits for a client that does not read, with `fd_mutex` held, and such a client
stops every other session and the exit. What depends on it says so as a premise
of the property: `SessionsEnd` holds if clients read what they are sent
(`ClientsRead`), `ExitCompletes` if they also send their line or go away
(`ClientsAct`); `ScanEnds` needs neither. Both premises leave the driver's lost
mutex as an exception, so these properties say nothing about a session after it;
`seek_returns` shows that case. accept fails by itself when no descriptor is left.

A child of `SystemCalls` is scheduled, but a command may run for ever. The caller
of `Threading` does not keep the mutex for ever. `AesdSystem` states no fairness;
liveness of the sessions is checked on `AesdSocket`.

## Proofs

Every invariant, action property and refinement of a passing run is a theorem of
the specification that run checks. Each proof has the same shape: an invariant
that implies the property holds initially and is kept by every step, with one
lemma per group of actions or per conjunct.

### The circular buffer

`CircularBufferProofs`, from `MaxOpsAssumption` (at least one slot) and
`UseAssumption` (NULL is neither a pointer nor a result of the search; sizes are
numbers).

- `BufferInvariant`, `BufferImplementsLog`: `add_entry` on the list of the entries
  in order of age (`Ordered`) is an append, which drops the oldest entry of a full
  buffer.
- `SearchIsConcatenation`: the search finds the byte at a position of the
  concatenation. In `CircularBufferLemmas` the least pass of the loop whose test
  holds is shown to be the one whose entry covers the position (`SearchFinds`),
  for which the prefix sums must be monotone (`PrefixSumsGrow`). A search that
  visits all slots, empty ones too, is a search by age (`SearchByAge`), because
  the sum over the slots in the order visited and the sum over the entries differ
  by empty slots only (`StartsByAge`). `FlattenLemmas` says where a byte of an
  entry stands in the concatenation (`FlattenAt`).

The prefix sums, `FlattenSeq` and the sums of `CommandStore` are recursive. The
library's induction theorems cannot be used, since they take an operator as a
parameter; each lemma is instead proved by the least counterexample, with
`WFMin` for the numbers (`LeastNatural`), and that a recursive function exists is
shown by extending one by an element (`FlattenExists`).

### The driver

`AesdDriverProofs`, for any files, blocks, payloads and slots, from
`MaxOpsAssumption` and `DriverAssumption` (NULL is none of the other values, a
newline is a byte, bounds are numbers). There are two invariants. `IInv`
(`DriverInvariant`) is about memory and control:

- `TypeOK`;
- `MutexHeld`: a call in its critical section is the holder, hence alone there;
- `LocalsLive`: `l_ent`, `ret_ent` and `seekto` exist only inside their calls,
  and while a write owns the pending data `g_ent` is empty. Without it,
  `HeapOwned` is not inductive: storing `l_ent` into `g_ent` would lose a block;
- `WellFormed(circ_buff)`: a buffer that is not full has empty slots from
  `in_offs` on, so a write to one loses no block;
- `HeapOwned`, `SizesMatchData`, `CommandsMoveOn`, `FoundInRange`.

From it follow `DriverTypes`, `MemoryOwnedOnce`, `DataIsWhole`,
`CommandsComplete`, `ReadStaysInEntry` and `MutexKeptOnlyByInvalidSeek`.

`PlaceInv` (`PlaceInvariant`) is about where the data is:

- `SlotsFilled`: the slots in use hold commands, so that each stands for bytes on
  the heap. `SizesMatchData` says nothing of a slot without memory;
- `FoundIsCurrent`: what `aesd_read` found before the copy is what a search would
  find now, since only the holder of the mutex changes the buffer;
- `ScanWithinSize`: until the first wrap the sum of `aesd_llseek`, which reads
  the slots without the mutex, is at most the size of the slots it has passed.

From it follow `SeekEndInside`, `EndOnlyAtEnd` (the sum in slot order is the sum
in the order of the search, `RotatedSums`) and `SeekExact`. `ImplementsStore`
shows step by step that the driver implements `CommandStore`: the commands are
the bytes behind the entries in order of age (`StoredCommandsAre`), the pending
bytes those behind `g_ent`. The step that copies the user's bytes is the append
(`StoreWrite`) and the copy to the user the read (`StoreRead`); all other steps
change positions and answers only.

### The module and the system

`AesdModuleProofs`: `IInv` lists what is registered and allocated when each call
of init and cleanup comes next (`Stages`) and at which of these calls each script
can be (`Scripted`). `NodeIsCurrent` is not inductive without
`Scripted`: a step of init between two scripts would change the device number.
`ModuleSafety` and `Losses` follow; the latter needs that nothing is stored when
`cdev_add` is called and only the unfinished command when cleanup has freed the
rest.

`AesdSystemProofs`, from `SessionAssumption` and `SystemAssumption`: texts and
the timestamp are sequences, the first buffer has room for a byte and the null
character, a newline is not a null character, the store keeps at least one
command. The lemma `ModuleSteps` maps each step of the composed system to a step
of `AesdModule` or a stutter. That much holds by construction of `AesdSystem`,
except that sessions change what is stored only while they have the device open;
it serves to carry the module's theorems over to the system
(`NothingRegistered`, `OnlyKnownLosses`, `NoCallIntoCleanup`, `NodeOfModule`). About the sessions
three invariants build on one another:

- `SessionInv`: types with `BufferFits` (line and buffer grow together);
  `Holding`, that a session holds the mutex and the device from lock to unlock
  and has sent nothing before its reply; and `InReply`, that a reply so far
  starts at some place of the content and the position is right behind it, or at
  the end. `ReplyIsContent` alone says nothing about the position, so the next
  line read need not continue the reply;
- `OwnLineInv`: what was received is the beginning of the client's text; what is
  sent are whole lines; and while a reply goes on, the content ends with the line
  written, unless a timestamp came behind it;
- `EchoInv`: lines sent stay a piece of the content until the mutex is given
  back.

They give `SessionTypeCorrect`, `LineFitsBuffer`, `ReplyUnbroken`,
`OwnLineReturned` and `ImplementsEcho`. The proof of `InReply` uses
`NoCallIntoCleanup`: an unload would empty the content under an open session.

### The server's threads

`AesdSocketProofs`, for any number of nodes, from `SocketAssumption`: `IInv` adds
to the properties where `local_sock_thread_data` can point while main is at each
place (`CurInList`) and that the one node that is freed and still in the list is
that of a failed `pthread_create` (`Stale`). Without `CurInList`, `ListOwnsNodes`
is not inductive, as a join could remove and free a node that is not in the list.
`leaked` is a node only once main is behind `DONE` (`NothingLeaked` before), so
`CleanExit` counts it: when main returns no node but this one is allocated.
It gives `TypeCorrect`, `ListOwnership`, `ThreadMemory`, `CleanExit` and
`OneSession`.

### The small programs

`ProgramsProofs`, from `ProgramsAssumption`; each program has an invariant the
others leave alone.

- `MutualExclusion`: for any number of threads; the caller is not one of them.
- `HonestResult`, `OutputInFile`, `FileOfLastCall`: the invariant says how far call and child have
  got (`CallOrder`, `ChildProgress`); a call that is over leaves a child behind
  only when its `waitpid` failed, and a child that executes the command of a
  redirected call has redirected its output.
- `NoDrift`, `OneMomentRefused`, `ExactDifference`: for any clock and period, by
  uniqueness of seconds and nanoseconds (`TimespecUnique`). The assumption that a
  second of nanoseconds fits an `unsigned int` is true of the code's types.

### Only model-checked, only proved

- Liveness, out of the prover's reach: `MutexGivenBack`, `CallsReturn`,
  `SessionsEnd`, `ScanEnds`, `ExitCompletes` and `ThreadsEnd`. That
  `seek_returns` and `signal` find counterexamples is TLC's result, too.
- That the properties are not vacuous: TLC shows that each action fires, and the
  mutants in `PROJECT.json` that each property fails for a changed action.
- `ExactDifference`, the other way round, is proved and not part of a run: it is
  about a function of two times, and `timespec_diff` is not called by the server.

## Not modelled

Listed with reasons in `PROJECT.json`: `seconds_to_timespec`, `writer_func` and
`readLine`, which nothing calls; the writer and finder utilities, which are
sequential and keep no state; superseded code (`main_20260507.c`), tests and
build scripts. Left out of what is modelled:

- a read in `read_until_term` that is interrupted before the first byte
  evaluates `buf[-1]`; with glibc that is the high byte of the block's size,
  never a newline, and the read is repeated;
- the array `cmd` of `do_exec` has one element too few for the final NULL
  (`systemcalls.c:77`); what lies behind it is the compiler's choice;
- `td` in `main` (`aesdsocket.c:303`) is used by the timer after its block has
  ended; compilers leave its place alone until `main` returns;
- short writes to the file when the disk is full; two threads that share one open
  file of the driver.

## Plan

Done: the circular buffer, the driver, the server's control and data, the
module's life, the composition of both, the file build with its timer and the
exercises; proofs of all their safety properties and refinements.

Next:

1. An inductive invariant of `AesdSession` by itself, so that the proof about a
   session without the module's life can be read on its own.
2. That the ways in which `AesdSession` and `AesdSocket` use the device are steps
   of `CommandStore` (`DeviceWrite`, `Seek` and `Read` against `Write`, `Move` and
   `Read`), as lemmas; so far they are the same by construction of the models.
3. Safety lemmas that carry the liveness arguments: while a call of the driver
   waits, the holder of the mutex is another call or the mutex is lost; while
   main joins a thread, that thread has nothing left to wait for.
