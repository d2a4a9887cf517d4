------------------------------ MODULE MCPrograms ------------------------------
(***************************************************************************)
(* The small programs of the repository, which share nothing, in one       *)
(* instance: the initial state chooses the program, and only that one      *)
(* takes steps.                                                            *)
(***************************************************************************)
EXTENDS Integers

CONSTANTS MaxCalls, MaxFiles,                                       \* SystemCalls
          Threads, NULL,                                            \* Threading
          MsPerSec, NsPerMs, UINT, FloatStep, PeriodsMs, PeriodsSec, MaxNow

ASSUME ProgramsAssumption ==
  /\ {MaxCalls, MaxFiles, MaxNow} \subseteq Nat
  /\ NULL \notin Threads /\ "caller" \notin Threads \cup {NULL}
  /\ {MsPerSec, NsPerMs, UINT, FloatStep} \subseteq Nat \ {0}
  /\ UINT >= MsPerSec * NsPerMs
  /\ PeriodsMs \subseteq Nat /\ PeriodsSec \subseteq Nat

VARIABLES
  program,
  calls, function, caller, result, unwaited, opened,
  child, status, redirected, ran, file, terminal,
  thread, data, started, success, mutex, failed,
  timer_period_ms, timer_period_sec, now, timer, start_time, it_interval, it_value, fired

systemVars == <<calls, function, caller, result, unwaited, opened,
                child, status, redirected, ran, file, terminal>>
threadVars == <<thread, data, started, success, mutex, failed>>
timerVars  == <<timer_period_ms, timer_period_sec, now, timer, start_time,
                it_interval, it_value, fired>>
vars       == <<program, systemVars, threadVars, timerVars>>

S == INSTANCE SystemCalls
T == INSTANCE Threading
C == INSTANCE TimestampTimer

Init ==
  /\ program \in {"systemcalls", "threading", "timer"}
  /\ S!Init /\ T!Init /\ C!Init
  /\ program # "timer" => timer_period_ms = 0 /\ timer_period_sec = 0 /\ now = 1

SystemCallsStep ==
  /\ program = "systemcalls" /\ S!Next
  /\ UNCHANGED <<program, threadVars, timerVars>>

ThreadingStep ==
  /\ program = "threading" /\ T!Next
  /\ UNCHANGED <<program, systemVars, timerVars>>

TimerStep ==
  /\ program = "timer" /\ C!Next
  /\ UNCHANGED <<program, systemVars, threadVars>>

Next == SystemCallsStep \/ ThreadingStep \/ TimerStep

(* The fairness that SystemCalls and Threading state.  A step of a program *)
(* is enabled only in its own behaviours.                                  *)
Fairness ==
  /\ program = "systemcalls" => S!Fairness
  /\ program = "threading" => T!Fairness

Spec == Init /\ [][Next]_vars /\ Fairness

ResultIsOfCommand  == S!ResultIsOfCommand
OutputRedirected   == S!OutputRedirected
FileHoldsLastCall  == S!FileHoldsLastCall
CallsReturn        == S!CallsReturn
HoldersExclude     == T!HoldersExclude
ThreadsEnd         == T!ThreadsEnd
FiresOnTime        == C!FiresOnTime
RefusedAtOneMoment == C!RefusedAtOneMoment
DiffExact          == C!DiffExact
=============================================================================
