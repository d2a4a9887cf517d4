CONSTANTS
  Nodes = {n1, n2}
  MaxSockets = 3
  NULL = NULL
  Dead = Dead
SPECIFICATION FairSpec
CHECK_DEADLOCK FALSE
PROPERTIES SessionsEnd ScanEnds ExitCompletes
