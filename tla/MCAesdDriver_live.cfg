CONSTANTS
  MaxOps = 1
  NULL = NULL
  a = a
  NL = NL
  Files = {f1, f2}
  Blocks = {b1, b2, b3}
  Byte <- MCByte
  Payloads <- MCPayloadsLive
  Offsets = {0}
  CmdOffsets <- MCCmdOffsets
  MaxPos = 1
  MaxPending = 0
SPECIFICATION FairSpec
PROPERTIES MutexGivenBack CallsReturn
