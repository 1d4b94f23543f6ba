SPECIFICATION InterpreterSpec
CONSTANTS
  M = 4
  Fuel = 20
  FrameCells = 24
  RetType = "i32"
  LocalTypes <- MCLocals
  Args <- MCArgs
  Themes <- MCThemes
  W32 = 4
  W64 = 8
  Gran = 2
  Byte = 2
  AddrMod = 32
  Words <- MCWords
  Mags <- MCMags
  Memories <- MCMemories
  Offsets <- MCOffsets
  Contents <- MCContents
CHECK_DEADLOCK FALSE
INVARIANTS
  
  
  FrameSuffices
  IRWellFormed
  OperatorsMatch
  MemoryMatches
