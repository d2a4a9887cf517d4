CONSTANTS
  MaxCalls = 2
  MaxFiles = 2
  Threads = {t1, t2, t3}
  NULL = NULL
  MsPerSec = 2
  NsPerMs = 2
  UINT = 8
  FloatStep = 2
  PeriodsMs = {0, 1, 2, 4, 5}
  PeriodsSec = {0, 1}
  MaxNow = 12
SPECIFICATION Spec
CHECK_DEADLOCK FALSE
INVARIANTS ResultIsOfCommand OutputRedirected FileHoldsLastCall HoldersExclude FiresOnTime RefusedAtOneMoment
PROPERTIES  ThreadsEnd
