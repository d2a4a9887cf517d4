CONSTANTS
  Clients = {c1, c2}
  Texts <- MCTexts
  Seeks <- MCSeeks
  Stamp <- MCStamp
  NL = NL
  NUL = NUL
  a = a
  b = b
  s = s
  t = t
  INITIAL_BUFFER_SIZE = 2
  Capacity = 1
  MaxSessions = 2
  MaxStamps = 2
  MaxLoads = 2
  Majors = {m1, m2}
  NULL = NULL
SPECIFICATION SystemSpec
SYMMETRY Symmetry
CHECK_DEADLOCK FALSE
INVARIANTS TypeOK BufferFits ReplyIsContent ReplyEndsWithOwnLine AllOrNothing OpenKeepsModule NodeIsCurrent
PROPERTIES EchoSpec KnownLosses
