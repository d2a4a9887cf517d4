CONSTANTS
  Nodes = {n1, n2}
  MaxSockets = 2
  NULL = NULL
  Dead = Dead
SPECIFICATION FairSpec
CHECK_DEADLOCK FALSE
PROPERTY GracefulExit
