CONSTANTS
  Nodes = {n1, n2, n3}
  MaxSockets = 4
  NULL = NULL
  Dead = Dead
SPECIFICATION Spec
SYMMETRY Symmetry
CHECK_DEADLOCK FALSE
INVARIANTS TypeOK ListOwnsNodes ThreadsKeepNodes ExitClean SessionExclusive
