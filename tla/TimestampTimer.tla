----------------------------- MODULE TimestampTimer -----------------------------
(***************************************************************************)
(* The time functions (server/include/time_functions_shared.h) and the     *)
(* timer that setup_timer (timestamp_thread.c) starts with them.  A        *)
(* nanosecond is the unit of the clock; a second has few of them in an     *)
(* instance.  The clock and the kernel's timer are external.               *)
(***************************************************************************)
EXTENDS Integers

CONSTANTS
  MsPerSec, NsPerMs, \* 1000 and 1000000
  UINT,              \* 2^32: unsigned int wraps there
  FloatStep,         \* nanoseconds that a float of seconds does not tell apart
  PeriodsMs, PeriodsSec, \* the periods that a caller asks for
  MaxNow             \* bound: the last moment

G == MsPerSec * NsPerMs    \* 1000000000L

VARIABLES
  timer_period_ms, timer_period_sec,
  now,         \* CLOCK_MONOTONIC
  timer,       \* "created", "starting", "armed", "refused" or "expired"
  start_time,  \* a struct timespec
  it_interval, \* a struct timespec
  it_value,    \* a struct timespec: when the timer fires next
  fired        \* how often it has fired

request == <<timer_period_ms, timer_period_sec>>
vars    == <<request, now, timer, start_time, it_interval, it_value, fired>>

Timespec(sec, nsec) == [tv_sec |-> sec, tv_nsec |-> nsec]
ToTimespec(n) == Timespec(n \div G, n % G)
Nanos(ts)     == ts.tv_sec * G + ts.tv_nsec
IsValid(ts)   == ts.tv_nsec \in 0 .. G - 1

Init ==
  /\ timer_period_ms \in PeriodsMs /\ timer_period_sec \in PeriodsSec
  /\ now \in 1 .. G
  /\ timer = "created" /\ fired = 0
  /\ start_time = ToTimespec(0) /\ it_interval = ToTimespec(0) /\ it_value = ToTimespec(0)

-----------------------------------------------------------------------------
(* The time functions.                                                     *)

timespec_diff_before_after(ts_start, ts_end) ==
  IF ts_end.tv_nsec < ts_start.tv_nsec
    THEN Timespec(ts_end.tv_sec - ts_start.tv_sec - 1,
                  G - ts_start.tv_nsec + ts_end.tv_nsec)
    ELSE Timespec(ts_end.tv_sec - ts_start.tv_sec,
                  ts_end.tv_nsec - ts_start.tv_nsec)

(* A float has 24 bits for the seconds with their fraction.                *)
timespec_to_seconds(ts) == Nanos(ts) \div FloatStep

timespec_diff(time1, time2) ==
  IF timespec_to_seconds(time2) >= timespec_to_seconds(time1)
    THEN timespec_diff_before_after(time1, time2)
    ELSE timespec_diff_before_after(time2, time1)

(* Bug: the second carried over gets lost.                                 *)
AddNoCarry(ts_1, ts_2) ==
  LET nsec == ts_1.tv_nsec + ts_2.tv_nsec
  IN  Timespec(ts_1.tv_sec + ts_2.tv_sec, IF nsec > G THEN nsec - G ELSE nsec)

(* Bug: the sum is left as it is.                                          *)
AddNoRollover(ts_1, ts_2) ==
  Timespec(ts_1.tv_sec + ts_2.tv_sec, ts_1.tv_nsec + ts_2.tv_nsec)

(* The rollover is at more than a second, not at one.                      *)
timespec_add(ts_1, ts_2) ==
  LET sec  == ts_1.tv_sec + ts_2.tv_sec
      nsec == ts_1.tv_nsec + ts_2.tv_nsec
  IN  IF nsec > G THEN Timespec(sec + 1, nsec - G) ELSE Timespec(sec, nsec)

-----------------------------------------------------------------------------
(* setup_timer: the clock is read, and the timer set to an absolute time,  *)
(* which may have passed by then.  The milliseconds are multiplied as      *)
(* unsigned int.  timer_settime refuses a timespec with nanoseconds that   *)
(* make a second.                                                          *)
GetTime ==
  /\ timer = "created" /\ timer' = "starting"
  /\ start_time' = ToTimespec(now)
  /\ UNCHANGED <<request, now, it_interval, it_value, fired>>

SetTime ==
  /\ timer = "starting"
  /\ it_interval' = Timespec(timer_period_sec, (timer_period_ms * NsPerMs) % UINT)
  /\ it_value' = timespec_add(start_time, it_interval')
  /\ timer' = IF IsValid(it_interval') /\ IsValid(it_value') THEN "armed" ELSE "refused"
  /\ UNCHANGED <<request, now, start_time, fired>>

Expire ==
  /\ timer = "armed" /\ Nanos(it_value) <= now
  /\ fired' = fired + 1
  /\ IF Nanos(it_interval) = 0
       THEN timer' = "expired" /\ UNCHANGED it_value
       ELSE it_value' = ToTimespec(Nanos(it_value) + Nanos(it_interval)) /\ UNCHANGED timer
  /\ UNCHANGED <<request, now, start_time, it_interval>>

Tick ==
  /\ now < MaxNow /\ now' = now + 1
  /\ UNCHANGED <<request, timer, start_time, it_interval, it_value, fired>>

Next == GetTime \/ SetTime \/ Expire \/ Tick

Spec == Init /\ [][Next]_vars

-----------------------------------------------------------------------------
Period  == timer_period_sec * G + timer_period_ms * NsPerMs
NoWrap  == timer_period_ms * NsPerMs < UINT

(* The timer fires one period after start_time, and then after every       *)
(* further period, without drift, if the milliseconds do not wrap          *)
(* (setup_timer, timespec_add).                                            *)
FiresOnTime == timer = "armed" /\ NoWrap =>
  Nanos(it_value) = Nanos(start_time) + (fired + 1) * Period

(* Apart from milliseconds that make a second, which setup_timer does not  *)
(* carry over, the timer can be started at every moment except one: when   *)
(* start_time and the period add up to a whole second of nanoseconds       *)
(* exactly.                                                                *)
RefusedAtOneMoment == timer = "refused" =>
  \/ timer_period_ms >= MsPerSec
  \/ timer_period_ms > 0 /\ (Nanos(start_time) + Period) % G = 0

(* The difference of two times is exact in both orders, unless the earlier *)
(* one is given last and the floats do not tell them apart (timespec_diff).*)
DiffExact ==
  LET exact(time1, time2) ==
        LET d == Nanos(time2) - Nanos(time1)
        IN  \/ timespec_diff(time1, time2) = ToTimespec(IF d < 0 THEN -d ELSE d)
            \/ d < 0 /\ timespec_to_seconds(time1) = timespec_to_seconds(time2)
  IN  exact(start_time, ToTimespec(now)) /\ exact(ToTimespec(now), start_time)
=============================================================================
