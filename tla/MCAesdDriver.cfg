CONSTANTS
  MaxOps = 2
  NULL = NULL
  a = a
  NL = NL
  Files = {f1, f2}
  Blocks = {b1, b2, b3, b4}
  Byte <- MCByte
  Payloads <- MCPayloads
  Offsets <- MCOffsets
  CmdOffsets <- MCCmdOffsets
  MaxPos = 3
  MaxPending = 1
SPECIFICATION Spec
SYMMETRY Symmetry
CONSTRAINT OneLseek
VIEW View
INVARIANTS TypeOK HeapOwned SizesMatchData CommandsMoveOn FoundInRange ScanWithinSize
PROPERTIES NothingOnlyAtEnd SeekExactBeforeWrap OnlyInvalidSeekKeepsMutex StoreSpec
