CONSTANTS
  MaxOps = 2
  NULL = NULL
  a = a
  NL = NL
  Files = {f1, f2}
  Blocks = {b1, b2, b3, b4}
  Byte <- MCByte
  Payloads <- MCPayloads
  Offsets = {0}
  CmdOffsets <- MCCmdOffsets
  MaxPos = 2
  MaxPending = 1
SPECIFICATION SpecH
SYMMETRY Symmetry
CONSTRAINT LseekAndWrite
INVARIANT SeekEndIsASize
