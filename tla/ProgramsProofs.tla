------------------------------ MODULE ProgramsProofs ------------------------------
(***************************************************************************)
(* What holds of the small programs of the repository for every number of  *)
(* threads and calls, and for every clock and period.  Each program has an *)
(* inductive invariant of its own, which the steps of the other programs   *)
(* leave alone.                                                            *)
(***************************************************************************)
EXTENDS MCPrograms, TLAPS

-----------------------------------------------------------------------------
(* threading.c.                                                            *)

(* As long as every lock has succeeded, the mutex is held by the thread    *)
(* that is between its two sleeps, or by the caller, or by nobody.         *)
ThreadingInv ==
  /\ thread \in [Threads -> {"none", "obtain", "release", "report", "done", "joined"}]
  /\ mutex \in Threads \cup {"caller", NULL}
  /\ HoldersExclude

(* Every step of threading.c preserves this.                               *)
LEMMA ThreadingInvStep ==
  ASSUME ThreadingInv, T!Next
  PROVE  ThreadingInv'
<1> USE ProgramsAssumption
    DEF ProgramsAssumption, ThreadingInv, HoldersExclude, T!HoldersExclude, T!Move
<1>1. ASSUME NEW t \in Threads, T!StartCall(t)
      PROVE  ThreadingInv'
  BY <1>1 DEF T!StartCall, T!StartNoMemory, T!Start, T!StartNoThread
<1>2. ASSUME NEW t \in Threads, T!Lock(t) \/ T!LockFails(t)
      PROVE  ThreadingInv'
  BY <1>2 DEF T!Lock, T!LockFails
<1>3. ASSUME NEW t \in Threads, T!Unlock(t)
      PROVE  ThreadingInv'
  BY <1>3 DEF T!Unlock
<1>4. ASSUME NEW t \in Threads, T!Report(t) \/ T!Join(t)
      PROVE  ThreadingInv'
  BY <1>4 DEF T!Report, T!Join
<1>5. CASE T!CallerLock \/ T!CallerUnlock
  BY <1>5 DEF T!CallerLock, T!CallerUnlock
<1> QED BY <1>1, <1>2, <1>3, <1>4, <1>5 DEF T!Next, T!Threadfunc

(* A thread that sleeps with the mutex is its only holder, as long as      *)
(* every lock has succeeded (threadfunc).                                  *)
THEOREM MutualExclusion == Spec => []HoldersExclude
<1>1. Init => ThreadingInv
  BY DEF Init, T!Init, ThreadingInv, HoldersExclude, T!HoldersExclude
<1>2. ThreadingInv /\ [Next]_vars => ThreadingInv'
  <2> SUFFICES ASSUME ThreadingInv, [Next]_vars
               PROVE  ThreadingInv'
    OBVIOUS
  <2>1. CASE ThreadingStep
    BY <2>1, ThreadingInvStep DEF ThreadingStep
  <2>2. CASE UNCHANGED threadVars
    BY <2>2 DEF threadVars, ThreadingInv, HoldersExclude, T!HoldersExclude
  <2> QED BY <2>1, <2>2 DEF Next, SystemCallsStep, TimerStep, vars
<1>3. ThreadingInv => HoldersExclude
  BY DEF ThreadingInv
<1> QED BY <1>1, <1>2, <1>3, PTL DEF Spec

-----------------------------------------------------------------------------
(* systemcalls.c.                                                          *)

CallerTypeOK ==
  /\ calls \in 0 .. MaxCalls
  /\ caller \in {"idle", "fork", "wait"}
  /\ function \in [S!Calls -> S!Functions \cup {"none"}]
  /\ result \in [S!Calls -> {"none", "true", "false"}]
  /\ child \in [S!Calls -> {"none", "dup2", "exec", "command", "exited", "reaped"}]
  /\ status \in [S!Calls -> {"zero", "failure", "signal"}]

(* Call n has returned.                                                    *)
Over(n) == n < calls \/ (n = calls /\ caller = "idle")

(* Where a call and its child can be: a call that is over has left a child *)
(* behind only when its waitpid failed.                                    *)
CallOrder == \A n \in S!Calls :
  /\ n > calls => child[n] = "none" /\ n \notin terminal \cup opened \cup unwaited
  /\ result[n] # "none" => Over(n)
  /\ Over(n) => n \in unwaited \/ child[n] \in {"none", "reaped"}
  /\ n = calls /\ caller = "fork" => child[n] = "none"
  /\ n = calls /\ caller = "wait" => child[n] # "none"

(* How far a child has got, and what it has done by then.                  *)
ChildProgress == \A n \in S!Calls :
  /\ child[n] \in {"none", "dup2", "exec"} => n \notin ran
  /\ child[n] = "command" => n \in ran
  /\ child[n] \in {"exited", "reaped"} /\ n \notin ran => status[n] = "failure"
  /\ child[n] \in {"exec", "command"} /\ S!Redirects(n) => n \in redirected

Redirection ==
  /\ caller # "idle" => calls \in S!Calls
  /\ opened \subseteq S!Calls /\ redirected \subseteq opened /\ terminal \subseteq S!Calls
  /\ file \subseteq opened

SystemCallsInv ==
  /\ CallerTypeOK
  /\ CallOrder
  /\ ChildProgress
  /\ Redirection
  /\ ResultIsOfCommand
  /\ OutputRedirected
  /\ FileHoldsLastCall

(* A call, and what it opens.                                              *)
LEMMA CallStep ==
  ASSUME SystemCallsInv, NEW f \in S!Functions, S!Call(f)
  PROVE  SystemCallsInv'
<1> USE ProgramsAssumption
    DEF ProgramsAssumption, SystemCallsInv, S!Call, S!Calls
<1>0. calls + 1 \in S!Calls /\ calls \in 0 .. MaxCalls
  BY DEF CallerTypeOK
<1>1. CallerTypeOK'
  BY <1>0 DEF CallerTypeOK
<1>2. \A n \in S!Calls : n # calls + 1 => function'[n] = function[n]
  BY DEF CallerTypeOK
<1>3. \A n \in S!Calls : Over(n)' => Over(n)
  BY <1>0 DEF Over
<1>4. CallOrder'
  BY <1>0, <1>3 DEF CallOrder, Over
<1>5. ChildProgress'
  BY <1>0, <1>2 DEF ChildProgress, CallOrder, S!Redirects
<1>6. Redirection'
  BY <1>0 DEF Redirection
<1>7. ResultIsOfCommand'
  BY <1>0, <1>2 DEF ResultIsOfCommand, S!ResultIsOfCommand, CallOrder, Over, CallerTypeOK
<1>8. OutputRedirected'
  <2>1. \A n \in terminal' : ~S!Redirects(n)'
    BY <1>0, <1>2 DEF OutputRedirected, S!OutputRedirected, S!Redirects, CallOrder, Redirection
  <2> QED BY <2>1 DEF OutputRedirected, S!OutputRedirected, S!Redirects
<1>9. FileHoldsLastCall'
  <2>1. CASE UNCHANGED <<opened, file>>
    BY <2>1 DEF FileHoldsLastCall, S!FileHoldsLastCall
  <2>2. CASE file' = {}
    BY <2>2 DEF FileHoldsLastCall, S!FileHoldsLastCall
  <2> QED BY <2>1, <2>2
<1> QED BY <1>1, <1>4, <1>5, <1>6, <1>7, <1>8, <1>9

(* fork, which may fail.                                                   *)
LEMMA ForkStep ==
  ASSUME SystemCallsInv, S!Fork \/ S!ForkFails
  PROVE  SystemCallsInv'
<1> USE ProgramsAssumption
    DEF ProgramsAssumption, SystemCallsInv, S!Calls
<1>0. caller = "fork" /\ calls \in S!Calls /\ UNCHANGED calls
  BY DEF S!Fork, S!ForkFails, Redirection
<1>1. CASE S!Fork
  <2> USE <1>1 DEF S!Fork
  <2>1. CallerTypeOK'
    BY <1>0 DEF CallerTypeOK
  <2>2. CallOrder'
    BY <1>0 DEF CallOrder, Over, CallerTypeOK
  <2>3. ChildProgress'
    BY <1>0 DEF ChildProgress, CallOrder, CallerTypeOK, S!Redirects
  <2>4. Redirection'
    BY <1>0 DEF Redirection
  <2>5. ResultIsOfCommand'
    BY <1>0 DEF ResultIsOfCommand, S!ResultIsOfCommand, CallOrder, CallerTypeOK
  <2>6. OutputRedirected' /\ FileHoldsLastCall'
    BY DEF OutputRedirected, S!OutputRedirected, S!Redirects, FileHoldsLastCall,
           S!FileHoldsLastCall
  <2> QED BY <2>1, <2>2, <2>3, <2>4, <2>5, <2>6
<1>2. CASE S!ForkFails
  <2> USE <1>2 DEF S!ForkFails, S!Return, S!children
  <2>1. CallerTypeOK'
    BY <1>0 DEF CallerTypeOK
  <2>2. CallOrder'
    BY <1>0 DEF CallOrder, Over, CallerTypeOK
  <2>3. ChildProgress'
    BY <1>0 DEF ChildProgress, S!Redirects
  <2>4. Redirection'
    BY <1>0 DEF Redirection
  <2>5. ResultIsOfCommand'
    BY <1>0 DEF ResultIsOfCommand, S!ResultIsOfCommand, CallOrder, ChildProgress, CallerTypeOK
  <2>6. OutputRedirected' /\ FileHoldsLastCall'
    BY DEF OutputRedirected, S!OutputRedirected, S!Redirects, FileHoldsLastCall,
           S!FileHoldsLastCall
  <2> QED BY <2>1, <2>2, <2>3, <2>4, <2>5, <2>6
<1> QED BY <1>1, <1>2

(* waitpid, which may fail.                                                *)
LEMMA WaitStep ==
  ASSUME SystemCallsInv, S!Wait \/ S!WaitFails
  PROVE  SystemCallsInv'
<1> USE ProgramsAssumption
    DEF ProgramsAssumption, SystemCallsInv, S!Calls
<1>0. caller = "wait" /\ calls \in S!Calls /\ UNCHANGED calls
  BY DEF S!Wait, S!WaitFails, Redirection
<1>1. CASE S!Wait
  <2> USE <1>1 DEF S!Wait, S!Return
  <2>1. CallerTypeOK'
    BY <1>0 DEF CallerTypeOK
  <2>2. CallOrder'
    BY <1>0 DEF CallOrder, Over, CallerTypeOK
  <2>3. ChildProgress'
    BY <1>0 DEF ChildProgress, CallerTypeOK, S!Redirects
  <2>4. Redirection'
    BY <1>0 DEF Redirection
  <2>5. ResultIsOfCommand'
    BY <1>0 DEF ResultIsOfCommand, S!ResultIsOfCommand, ChildProgress, CallerTypeOK, S!Success
  <2>6. OutputRedirected' /\ FileHoldsLastCall'
    BY DEF OutputRedirected, S!OutputRedirected, S!Redirects, FileHoldsLastCall,
           S!FileHoldsLastCall
  <2> QED BY <2>1, <2>2, <2>3, <2>4, <2>5, <2>6
<1>2. CASE S!WaitFails
  <2> USE <1>2 DEF S!WaitFails, S!Return, S!children
  <2>1. CallerTypeOK'
    BY <1>0 DEF CallerTypeOK
  <2>2. CallOrder'
    BY <1>0 DEF CallOrder, Over, CallerTypeOK
  <2>3. ChildProgress'
    BY <1>0 DEF ChildProgress, S!Redirects
  <2>4. Redirection'
    BY <1>0 DEF Redirection
  <2>5. ResultIsOfCommand'
    BY <1>0 DEF ResultIsOfCommand, S!ResultIsOfCommand, CallerTypeOK
  <2>6. OutputRedirected' /\ FileHoldsLastCall'
    BY DEF OutputRedirected, S!OutputRedirected, S!Redirects, FileHoldsLastCall,
           S!FileHoldsLastCall
  <2> QED BY <2>1, <2>2, <2>3, <2>4, <2>5, <2>6
<1> QED BY <1>1, <1>2

(* The child, until it executes the command or exits.                      *)
LEMMA ChildStep ==
  ASSUME SystemCallsInv, NEW n \in S!Calls, S!Child(n)
  PROVE  SystemCallsInv'
<1> USE DEF SystemCallsInv, S!Child, S!Dup2, S!Exec, S!ExecFails, S!Exit, S!parent
<1>1. CallerTypeOK'
  BY DEF CallerTypeOK
<1>2. CallOrder'
  BY DEF CallOrder, Over, CallerTypeOK
<1>3. ChildProgress'
  BY DEF ChildProgress, CallerTypeOK, S!Redirects
<1>4. Redirection'
  BY DEF Redirection
<1>5. ResultIsOfCommand'
  BY DEF ResultIsOfCommand, S!ResultIsOfCommand, CallOrder, CallerTypeOK
<1>6. OutputRedirected' /\ FileHoldsLastCall'
  BY DEF OutputRedirected, S!OutputRedirected, S!Redirects, FileHoldsLastCall,
         S!FileHoldsLastCall
<1> QED BY <1>1, <1>2, <1>3, <1>4, <1>5, <1>6

(* The command writes to where its output goes, and ends.                  *)
LEMMA CommandStep ==
  ASSUME SystemCallsInv, NEW n \in S!Calls, S!Command(n)
  PROVE  SystemCallsInv'
<1> USE DEF SystemCallsInv, S!Command, S!CommandWrites, S!CommandEnds, S!Exit, S!parent
<1>1. CallerTypeOK'
  BY DEF CallerTypeOK
<1>2. CallOrder'
  <2>1. n <= calls
    BY DEF CallOrder, CallerTypeOK, S!Calls
  <2>2. child[n] = "command" /\ child'[n] \in {"command", "exited"}
    BY DEF CallerTypeOK
  <2>3. \A m \in S!Calls : m # n => child'[m] = child[m]
    BY DEF CallerTypeOK
  <2>4. UNCHANGED <<calls, caller, result, unwaited, opened>> /\ terminal' \subseteq terminal \cup {n}
    OBVIOUS
  <2> QED BY <2>1, <2>2, <2>3, <2>4 DEF CallOrder, Over, CallerTypeOK, S!Calls
<1>3. ChildProgress'
  <2>1. CASE S!CommandWrites(n)
    BY <2>1 DEF ChildProgress, S!Redirects
  <2>2. CASE S!CommandEnds(n)
    <3>1. n \in ran
      BY <2>2 DEF ChildProgress
    <3> QED BY <2>2, <3>1 DEF ChildProgress, CallerTypeOK, S!Redirects
  <2> QED BY <2>1, <2>2
<1>4. Redirection'
  BY DEF Redirection
<1>5. ResultIsOfCommand'
  BY DEF ResultIsOfCommand, S!ResultIsOfCommand, CallOrder, CallerTypeOK
<1>6. OutputRedirected'
  BY DEF OutputRedirected, S!OutputRedirected, S!Redirects, ChildProgress
<1>7. FileHoldsLastCall'
  <2>1. ASSUME NEW m \in opened, \A k \in opened : k <= m, n \in redirected,
               child[n] = "command"
        PROVE  n \in {m} \cup unwaited
    <3>1. n \in opened /\ m \in S!Calls /\ n <= m
      BY <2>1 DEF Redirection
    <3>2. m <= calls
      BY <3>1 DEF CallOrder, CallerTypeOK, S!Calls
    <3>3. n # m => Over(n)
      BY <3>1, <3>2 DEF Over, CallerTypeOK, S!Calls
    <3> QED BY <2>1, <3>3 DEF CallOrder
  <2> QED BY <2>1 DEF FileHoldsLastCall, S!FileHoldsLastCall
<1> QED BY <1>1, <1>2, <1>3, <1>4, <1>5, <1>6, <1>7

(* The invariant holds in every state.                                     *)
LEMMA SystemCallsInvariant == Spec => []SystemCallsInv
<1> USE DEF SystemCallsInv
<1>1. Init => SystemCallsInv
  BY ProgramsAssumption
     DEF ProgramsAssumption, Init, S!Init, S!Calls, CallerTypeOK, CallOrder, Over, ChildProgress,
         Redirection, ResultIsOfCommand, S!ResultIsOfCommand, OutputRedirected,
         S!OutputRedirected, FileHoldsLastCall, S!FileHoldsLastCall
<1>2. SystemCallsInv /\ [Next]_vars => SystemCallsInv'
  <2> SUFFICES ASSUME SystemCallsInv, [Next]_vars
               PROVE  SystemCallsInv'
    OBVIOUS
  <2>1. CASE SystemCallsStep
    BY <2>1, CallStep, ForkStep, WaitStep, ChildStep, CommandStep
       DEF SystemCallsStep, S!Next, S!Caller
  <2>2. CASE UNCHANGED systemVars
    BY <2>2 DEF systemVars, CallerTypeOK, CallOrder, Over, ChildProgress, Redirection,
                ResultIsOfCommand, S!ResultIsOfCommand, OutputRedirected, S!OutputRedirected,
                S!Redirects, FileHoldsLastCall, S!FileHoldsLastCall
  <2> QED BY <2>1, <2>2 DEF Next, ThreadingStep, TimerStep, vars
<1> QED BY <1>1, <1>2, PTL DEF Spec

(* do_exec and do_exec_redirect never report success without the command's *)
(* own, for any number of calls (lines 95-116, 168-193).                   *)
THEOREM HonestResult == Spec => []ResultIsOfCommand
<1>1. SystemCallsInv => ResultIsOfCommand
  BY DEF SystemCallsInv
<1> QED BY <1>1, SystemCallsInvariant, PTL

(* Redirected output goes to the file and never to the caller's own       *)
(* output, whichever step fails (lines 155-176).                           *)
THEOREM OutputInFile == Spec => []OutputRedirected
<1>1. SystemCallsInv => OutputRedirected
  BY DEF SystemCallsInv
<1> QED BY <1>1, SystemCallsInvariant, PTL

(* The file is the last call's, but for commands whose waitpid failed, for *)
(* any number of calls and of open descriptors (lines 155-193).            *)
THEOREM FileOfLastCall == Spec => []FileHoldsLastCall
<1>1. SystemCallsInv => FileHoldsLastCall
  BY DEF SystemCallsInv
<1> QED BY <1>1, SystemCallsInvariant, PTL

-----------------------------------------------------------------------------
(* time_functions_shared.h and the timer of timestamp_thread.c.            *)

Times == [tv_sec : Nat, tv_nsec : Nat]

(* A second has nanoseconds.                                               *)
LEMMA SecondPositive == C!G \in Nat \ {0}
<1>1. ASSUME NEW m \in Nat \ {0}, NEW n \in Nat \ {0}
      PROVE  m * n \in Nat \ {0}
  OBVIOUS
<1> QED BY <1>1, ProgramsAssumption DEF ProgramsAssumption, C!G

(* Division with remainder.                                                *)
LEMMA Division ==
  ASSUME NEW n \in Nat, NEW g \in Nat \ {0}
  PROVE  n \div g \in Nat /\ n % g \in 0 .. g - 1 /\ n = (n \div g) * g + (n % g)
OBVIOUS

(* Quotient and remainder are unique.                                      *)
LEMMA DivisionUnique ==
  ASSUME NEW g \in Nat \ {0}, NEW q \in Nat, NEW r \in 0 .. g - 1
  PROVE  (q * g + r) \div g = q /\ (q * g + r) % g = r
OBVIOUS

(* A moment and its struct timespec.                                       *)
LEMMA TimespecOf ==
  ASSUME NEW n \in Nat
  PROVE  /\ C!ToTimespec(n) \in Times /\ C!IsValid(C!ToTimespec(n))
         /\ C!Nanos(C!ToTimespec(n)) = n
<1>1. n \div C!G \in Nat /\ n % C!G \in 0 .. C!G - 1 /\ n = (n \div C!G) * C!G + (n % C!G)
  BY Division, SecondPositive
<1> QED BY <1>1, SecondPositive
        DEF C!ToTimespec, C!Timespec, C!Nanos, C!IsValid, Times

(* A valid struct timespec is that of its moment.                          *)
LEMMA TimespecUnique ==
  ASSUME NEW q \in Nat, NEW r \in 0 .. C!G - 1, NEW n \in Nat, n = q * C!G + r
  PROVE  C!ToTimespec(n) = C!Timespec(q, r)
<1>1. n \div C!G = q /\ n % C!G = r
  BY SecondPositive, DivisionUnique
<1> QED BY <1>1 DEF C!ToTimespec

(* timespec_add adds, and gives a valid sum of valid times unless the      *)
(* nanoseconds add up to a second exactly.                                 *)
LEMMA AddExact ==
  ASSUME NEW s \in Times, NEW t \in Times
  PROVE  /\ C!timespec_add(s, t) \in Times
         /\ C!Nanos(C!timespec_add(s, t)) = C!Nanos(s) + C!Nanos(t)
         /\ C!IsValid(s) /\ C!IsValid(t) /\ s.tv_nsec + t.tv_nsec # C!G
              => C!IsValid(C!timespec_add(s, t))
<1> DEFINE g == C!G
<1>1. g \in Nat \ {0}
  BY SecondPositive
<1>2. s.tv_sec \in Nat /\ s.tv_nsec \in Nat /\ t.tv_sec \in Nat /\ t.tv_nsec \in Nat
  BY DEF Times
<1>3. ASSUME NEW p \in Nat, NEW q \in Nat
      PROVE  (p + q) * g = p * g + q * g /\ (p + q + 1) * g = p * g + q * g + g
             /\ p * g \in Nat /\ q * g \in Nat
  BY <1>1
<1> HIDE DEF g
<1>4. CASE s.tv_nsec + t.tv_nsec > g
  BY <1>1, <1>2, <1>3, <1>4
     DEF C!timespec_add, C!Timespec, C!Nanos, C!IsValid, Times, g
<1>5. CASE ~(s.tv_nsec + t.tv_nsec > g)
  BY <1>1, <1>2, <1>3, <1>5
     DEF C!timespec_add, C!Timespec, C!Nanos, C!IsValid, Times, g
<1> QED BY <1>4, <1>5

(* timespec_diff_before_after subtracts.                                   *)
LEMMA DiffOfTimes ==
  ASSUME NEW m \in Nat, NEW n \in Nat, m <= n
  PROVE  C!timespec_diff_before_after(C!ToTimespec(m), C!ToTimespec(n)) = C!ToTimespec(n - m)
<1> DEFINE g == C!G
           p == m \div g
           q == n \div g
           a == m % g
           b == n % g
<1>1. g \in Nat \ {0}
  BY SecondPositive
<1>2. p \in Nat /\ q \in Nat /\ a \in 0 .. g - 1 /\ b \in 0 .. g - 1
      /\ m = p * g + a /\ n = q * g + b
  BY <1>1, Division
<1>3. C!timespec_diff_before_after(C!ToTimespec(m), C!ToTimespec(n))
        = IF b < a THEN C!Timespec(q - p - 1, g - a + b) ELSE C!Timespec(q - p, b - a)
  BY DEF C!timespec_diff_before_after, C!ToTimespec, C!Timespec
<1> HIDE DEF g, p, q, a, b
<1>4. p * g \in Nat /\ q * g \in Nat /\ (q - p) * g = q * g - p * g
      /\ (q - p - 1) * g = q * g - p * g - g
  BY <1>1, <1>2
<1>5. CASE b < a
  <2>1. q - p - 1 \in Nat
    <3>1. q * g > p * g
      BY <1>1, <1>2, <1>4, <1>5
    <3>2. q > p
      BY <3>1, <1>1, <1>2
    <3> QED BY <3>2, <1>2
  <2>2. g - a + b \in 0 .. g - 1 /\ n - m = (q - p - 1) * g + (g - a + b)
    BY <1>1, <1>2, <1>4, <1>5
  <2>3. C!ToTimespec(n - m) = C!Timespec(q - p - 1, g - a + b)
    BY <2>1, <2>2, TimespecUnique DEF g
  <2> QED BY <2>3, <1>3, <1>5
<1>6. CASE ~(b < a)
  <2>1. q - p \in Nat
    <3>1. q * g + g > p * g
      BY <1>1, <1>2, <1>4, <1>6
    <3>2. q + 1 > p
      BY <3>1, <1>1, <1>2
    <3> QED BY <3>2, <1>2
  <2>2. b - a \in 0 .. g - 1 /\ n - m = (q - p) * g + (b - a)
    BY <1>1, <1>2, <1>4, <1>6
  <2>3. C!ToTimespec(n - m) = C!Timespec(q - p, b - a)
    BY <2>1, <2>2, TimespecUnique DEF g
  <2> QED BY <2>3, <1>3, <1>6
<1> QED BY <1>5, <1>6

(* start_time is a moment, and the period set is the one asked for unless  *)
(* the milliseconds have wrapped.                                          *)
TimerInv ==
  /\ timer_period_ms \in Nat /\ timer_period_sec \in Nat
  /\ now \in Nat /\ fired \in Nat
  /\ timer \in {"created", "starting", "armed", "refused", "expired"}
  /\ \E n \in Nat : start_time = C!ToTimespec(n)
  /\ it_interval \in Times /\ it_value \in Times
  /\ timer \in {"created", "starting"} => fired = 0
  /\ timer = "armed" /\ C!NoWrap => C!Nanos(it_interval) = C!Period
  /\ FiresOnTime
  /\ RefusedAtOneMoment

(* The clock is read for start_time.                                       *)
LEMMA GetTimeStep ==
  ASSUME TimerInv, C!GetTime
  PROVE  TimerInv'
<1>1. \E n \in Nat : start_time' = C!ToTimespec(n)
  BY DEF C!GetTime, TimerInv
<1> QED BY <1>1 DEF C!GetTime, C!request, TimerInv, FiresOnTime, C!FiresOnTime,
                    RefusedAtOneMoment, C!RefusedAtOneMoment

(* What setup_timer puts into it_interval.                                 *)
LEMMA Interval ==
  ASSUME TimerInv, C!SetTime
  PROVE  /\ it_interval' \in Times
         /\ C!NoWrap => C!Nanos(it_interval') = C!Period
         /\ timer_period_ms < MsPerSec =>
              C!IsValid(it_interval') /\ C!NoWrap /\ it_interval'.tv_nsec = timer_period_ms * NsPerMs
<1> DEFINE ns == timer_period_ms * NsPerMs
<1>1. ns \in Nat /\ UINT \in Nat \ {0} /\ timer_period_sec \in Nat
  BY ProgramsAssumption DEF ProgramsAssumption, TimerInv
<1>2. it_interval' = [tv_sec |-> timer_period_sec, tv_nsec |-> ns % UINT]
  BY DEF C!SetTime, C!Timespec
<1>3. C!NoWrap <=> ns < UINT
  BY DEF C!NoWrap
<1>4. C!Period = timer_period_sec * C!G + ns
  BY DEF C!Period
<1>5. timer_period_ms < MsPerSec => ns < C!G /\ C!G <= UINT
  <2>1. timer_period_ms < MsPerSec => ns < MsPerSec * NsPerMs
    BY ProgramsAssumption DEF ProgramsAssumption, TimerInv
  <2> QED BY <2>1, ProgramsAssumption DEF ProgramsAssumption, C!G
<1> HIDE DEF ns
<1>6. ns % UINT \in Nat
  BY <1>1
<1>7. ns < UINT => ns % UINT = ns
  BY <1>1
<1> QED BY <1>1, <1>2, <1>3, <1>4, <1>5, <1>6, <1>7, SecondPositive
        DEF Times, C!Nanos, C!IsValid, ns

(* The timer is set, or refused.                                           *)
LEMMA SetTimeStep ==
  ASSUME TimerInv, C!SetTime
  PROVE  TimerInv'
<1>1. PICK n \in Nat : start_time = C!ToTimespec(n)
  BY DEF TimerInv
<1>2. start_time \in Times /\ C!IsValid(start_time) /\ C!Nanos(start_time) = n
  BY <1>1, TimespecOf
<1>3. /\ it_interval' \in Times
      /\ C!NoWrap => C!Nanos(it_interval') = C!Period
      /\ timer_period_ms < MsPerSec =>
           C!IsValid(it_interval') /\ C!NoWrap /\ it_interval'.tv_nsec = timer_period_ms * NsPerMs
  BY Interval
<1>4. it_value' = C!timespec_add(start_time, it_interval')
  BY DEF C!SetTime
<1>5. /\ it_value' \in Times
      /\ C!Nanos(it_value') = n + C!Nanos(it_interval')
      /\ C!IsValid(it_interval') /\ start_time.tv_nsec + it_interval'.tv_nsec # C!G
           => C!IsValid(it_value')
  BY <1>2, <1>3, <1>4, AddExact
<1>6. /\ timer = "starting" /\ fired = 0
      /\ timer' = IF C!IsValid(it_interval') /\ C!IsValid(it_value') THEN "armed" ELSE "refused"
      /\ UNCHANGED <<timer_period_ms, timer_period_sec, now, start_time, fired>>
  BY DEF C!SetTime, C!request, TimerInv
<1>7. C!NoWrap' = C!NoWrap /\ C!Period' = C!Period
  BY <1>6 DEF C!NoWrap, C!Period
<1>8. C!Period \in Nat
  <2>1. ASSUME NEW p \in Nat, NEW q \in Nat PROVE p * q \in Nat
    OBVIOUS
  <2> QED BY <2>1, SecondPositive, ProgramsAssumption DEF ProgramsAssumption, C!Period, TimerInv
<1>9. FiresOnTime'
  BY <1>1, <1>2, <1>3, <1>5, <1>6, <1>7, <1>8 DEF FiresOnTime, C!FiresOnTime
<1>10. RefusedAtOneMoment'
  <2> SUFFICES ASSUME timer' = "refused", timer_period_ms < MsPerSec
               PROVE  timer_period_ms > 0 /\ (C!Nanos(start_time) + C!Period) % C!G = 0
    BY <1>6, <1>7, ProgramsAssumption
       DEF ProgramsAssumption, RefusedAtOneMoment, C!RefusedAtOneMoment, TimerInv
  <2>1. start_time.tv_nsec + it_interval'.tv_nsec = C!G
    BY <1>3, <1>5, <1>6
  <2>2. C!Nanos(it_interval') = C!Period
    BY <1>3
  <2>3. timer_period_ms # 0
    <3>1. start_time.tv_nsec \in 0 .. C!G - 1
      BY <1>2 DEF C!IsValid
    <3>2. timer_period_ms = 0 => it_interval'.tv_nsec = 0
      BY <1>3, ProgramsAssumption DEF ProgramsAssumption
    <3> QED BY <2>1, <3>1, <3>2, SecondPositive
  <2>4. (C!Nanos(start_time) + C!Period) % C!G = 0
    <3> DEFINE q == start_time.tv_sec + it_interval'.tv_sec + 1
    <3>1. ASSUME NEW i \in Nat, NEW k \in Nat, NEW g \in Nat
          PROVE  (i + k + 1) * g = i * g + k * g + g
      OBVIOUS
    <3>2. /\ start_time.tv_sec \in Nat /\ start_time.tv_nsec \in Nat
          /\ it_interval'.tv_sec \in Nat /\ it_interval'.tv_nsec \in Nat /\ C!G \in Nat
      BY <1>2, <1>3, SecondPositive DEF Times
    <3>3. ASSUME NEW i \in Nat, NEW k \in Nat PROVE i * k \in Nat
      OBVIOUS
    <3>4. C!Nanos(start_time) + C!Nanos(it_interval') = q * C!G + 0
      BY <2>1, <3>1, <3>2, <3>3 DEF C!Nanos
    <3>5. (q * C!G + 0) % C!G = 0
      <4>1. q \in Nat /\ 0 \in 0 .. C!G - 1
        BY <3>2, SecondPositive
      <4> HIDE DEF q
      <4> QED BY <4>1, SecondPositive, DivisionUnique
    <3> QED BY <2>2, <3>4, <3>5
  <2> QED BY <2>3, <2>4 DEF TimerInv
<1> QED BY <1>1, <1>3, <1>5, <1>6, <1>7, <1>9, <1>10 DEF TimerInv

(* The timer fires, and is set one interval further.                       *)
LEMMA ExpireStep ==
  ASSUME TimerInv, C!Expire
  PROVE  TimerInv'
<1>1. /\ timer = "armed" /\ fired' = fired + 1 /\ fired \in Nat
      /\ timer' \in {"armed", "expired"}
      /\ UNCHANGED <<timer_period_ms, timer_period_sec, now, start_time, it_interval>>
  BY DEF C!Expire, C!request, TimerInv
<1>2. C!Nanos(it_value) \in Nat /\ C!Nanos(it_interval) \in Nat
  <2>1. ASSUME NEW i \in Nat, NEW k \in Nat PROVE i * k \in Nat
    OBVIOUS
  <2> QED BY <2>1, SecondPositive DEF TimerInv, Times, C!Nanos
<1>3. it_value' \in Times
  BY <1>2, TimespecOf DEF C!Expire, TimerInv
<1>4. timer' = "armed" => C!Nanos(it_value') = C!Nanos(it_value) + C!Nanos(it_interval)
  <2>1. timer' = "armed" => it_value' = C!ToTimespec(C!Nanos(it_value) + C!Nanos(it_interval))
    BY DEF C!Expire
  <2> QED BY <1>2, <2>1, TimespecOf
<1>5. C!NoWrap' = C!NoWrap /\ C!Period' = C!Period /\ C!Nanos(start_time') = C!Nanos(start_time)
  BY <1>1 DEF C!NoWrap, C!Period
<1>6. C!NoWrap => C!Nanos(it_interval) = C!Period
  BY <1>1 DEF TimerInv
<1>7. C!NoWrap => C!Nanos(it_value) = C!Nanos(start_time) + (fired + 1) * C!Period
  BY <1>1 DEF TimerInv, FiresOnTime, C!FiresOnTime
<1>8. FiresOnTime'
  <2> SUFFICES ASSUME timer' = "armed", C!NoWrap
               PROVE  C!Nanos(it_value') = C!Nanos(start_time) + (fired' + 1) * C!Period
    BY <1>5 DEF FiresOnTime, C!FiresOnTime
  <2>1. C!Nanos(start_time) \in Nat
    BY TimespecOf DEF TimerInv
  <2>2. C!Period \in Nat
    BY <1>2, <1>6
  <2>3. ASSUME NEW k \in Nat, NEW d \in Nat, NEW n \in Nat
        PROVE  n + (k + 1) * d + d = n + (k + 1 + 1) * d
    OBVIOUS
  <2> QED BY <1>1, <1>4, <1>6, <1>7, <2>1, <2>2, <2>3
<1>9. RefusedAtOneMoment'
  BY <1>1 DEF RefusedAtOneMoment, C!RefusedAtOneMoment
<1> QED BY <1>1, <1>3, <1>5, <1>6, <1>8, <1>9 DEF TimerInv

(* The invariant holds in every state.                                     *)
LEMMA TimerInvariant == Spec => []TimerInv
<1>1. Init => TimerInv
  <2> SUFFICES ASSUME Init PROVE TimerInv
    OBVIOUS
  <2>1. C!ToTimespec(0) \in Times
    BY TimespecOf
  <2> QED BY <2>1, SecondPositive, ProgramsAssumption
          DEF ProgramsAssumption, Init, C!Init, TimerInv, FiresOnTime, C!FiresOnTime,
              RefusedAtOneMoment, C!RefusedAtOneMoment
<1>2. TimerInv /\ [Next]_vars => TimerInv'
  <2> SUFFICES ASSUME TimerInv, [Next]_vars
               PROVE  TimerInv'
    OBVIOUS
  <2>1. CASE TimerStep /\ C!Tick
    BY <2>1 DEF C!Tick, C!request, TimerInv, FiresOnTime, C!FiresOnTime, RefusedAtOneMoment,
                C!RefusedAtOneMoment, C!NoWrap, C!Period
  <2>2. CASE TimerStep /\ ~C!Tick
    BY <2>2, GetTimeStep, SetTimeStep, ExpireStep DEF TimerStep, C!Next
  <2>3. CASE UNCHANGED timerVars
    BY <2>3 DEF timerVars, TimerInv, FiresOnTime, C!FiresOnTime, RefusedAtOneMoment,
                C!RefusedAtOneMoment, C!NoWrap, C!Period
  <2> QED BY <2>1, <2>2, <2>3 DEF Next, ThreadingStep, SystemCallsStep, vars
<1> QED BY <1>1, <1>2, PTL DEF Spec

(* The timer does not drift, for any period whose milliseconds do not wrap *)
(* (setup_timer, timespec_add).                                            *)
THEOREM NoDrift == Spec => []FiresOnTime
<1>1. TimerInv => FiresOnTime
  BY DEF TimerInv
<1> QED BY <1>1, TimerInvariant, PTL

(* timer_settime refuses the timer at one moment only, if the caller's     *)
(* milliseconds are less than a second (setup_timer).                      *)
THEOREM OneMomentRefused == Spec => []RefusedAtOneMoment
<1>1. TimerInv => RefusedAtOneMoment
  BY DEF TimerInv
<1> QED BY <1>1, TimerInvariant, PTL

(* The difference of two moments, in both orders.                          *)
LEMMA DiffOfMoments ==
  ASSUME NEW m \in Nat, NEW n \in Nat
  PROVE  LET d == n - m
             s == C!ToTimespec(m)
             t == C!ToTimespec(n)
         IN  \/ C!timespec_diff(s, t) = C!ToTimespec(IF d < 0 THEN -d ELSE d)
             \/ d < 0 /\ C!timespec_to_seconds(s) = C!timespec_to_seconds(t)
<1>1. /\ C!timespec_to_seconds(C!ToTimespec(m)) = m \div FloatStep
      /\ C!timespec_to_seconds(C!ToTimespec(n)) = n \div FloatStep
  BY TimespecOf DEF C!timespec_to_seconds
<1>2. ASSUME NEW i \in Nat, NEW k \in Nat, i <= k
      PROVE  i \div FloatStep <= k \div FloatStep
  <2>1. ASSUME NEW g \in Nat \ {0} PROVE i \div g <= k \div g
    BY <1>2
  <2> QED BY <2>1, ProgramsAssumption DEF ProgramsAssumption
<1>3. m \div FloatStep \in Int /\ n \div FloatStep \in Int
  <2>1. FloatStep \in Nat \ {0}
    BY ProgramsAssumption DEF ProgramsAssumption
  <2> QED BY <2>1, Division
<1>4. CASE m <= n
  <2>1. C!timespec_diff(C!ToTimespec(m), C!ToTimespec(n)) = C!ToTimespec(n - m)
    <3>1. n \div FloatStep >= m \div FloatStep
      BY <1>2, <1>3, <1>4
    <3>2. C!timespec_diff_before_after(C!ToTimespec(m), C!ToTimespec(n)) = C!ToTimespec(n - m)
      BY <1>4, DiffOfTimes
    <3> QED BY ONLY <1>1, <3>1, <3>2 DEF C!timespec_diff
  <2>2. ~(n - m < 0)
    BY <1>4
  <2> QED BY <2>1, <2>2
<1>5. CASE n < m
  <2>1. n \div FloatStep <= m \div FloatStep
    BY <1>2, <1>5
  <2>2. n \div FloatStep # m \div FloatStep =>
          C!timespec_diff(C!ToTimespec(m), C!ToTimespec(n)) = C!ToTimespec(m - n)
    <3>1. n \div FloatStep # m \div FloatStep => ~(n \div FloatStep >= m \div FloatStep)
      BY <1>3, <2>1
    <3> QED BY <1>1, <1>5, <3>1, DiffOfTimes DEF C!timespec_diff
  <2>3. n - m < 0 /\ -(n - m) = m - n
    BY <1>5
  <2> QED BY <1>1, <2>2, <2>3
<1> QED BY <1>4, <1>5

(* timespec_diff is exact in both orders, unless the floats do not tell    *)
(* the two moments apart, for any two moments (time_functions_shared.h).   *)
THEOREM ExactDifference == Spec => []DiffExact
<1>1. TimerInv => DiffExact
  <2> SUFFICES ASSUME TimerInv PROVE DiffExact
    OBVIOUS
  <2>1. PICK n \in Nat : start_time = C!ToTimespec(n)
    BY DEF TimerInv
  <2>2. now \in Nat /\ C!Nanos(start_time) = n /\ C!Nanos(C!ToTimespec(now)) = now
    BY <2>1, TimespecOf DEF TimerInv
  <2> QED BY <2>1, <2>2, DiffOfMoments DEF DiffExact, C!DiffExact
<1> QED BY <1>1, TimerInvariant, PTL
=============================================================================
