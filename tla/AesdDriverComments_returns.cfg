CONSTANTS
  MaxOps = 1
  NULL = NULL
  a = a
  NL = NL
  Files = {f1}
  Blocks = {b1, b2, b3}
  Byte <- MCByte
  Payloads <- MCPayloadsNL
  Offsets = {0}
  CmdOffsets <- MCCmdOffsets
  MaxPos = 2
  MaxPending = 0
SPECIFICATION FairSpec
PROPERTY AdjustReturns
