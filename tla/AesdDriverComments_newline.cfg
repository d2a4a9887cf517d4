CONSTANTS
  MaxOps = 2
  NULL = NULL
  a = a
  NL = NL
  Files = {f1}
  Blocks = {b1, b2, b3, b4}
  Byte <- MCByte
  Payloads <- MCPayloads
  Offsets = {0}
  CmdOffsets <- MCCmdOffsets
  MaxPos = 2
  MaxPending = 1
SPECIFICATION Spec
SYMMETRY Symmetry
INVARIANT CommandsEndInNewline
