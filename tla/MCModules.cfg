SPECIFICATION Spec
CONSTANTS
  PageSize = 4
  PoolPages = 3
  HeapMin = 8
  HeapMax = 16
  HeapDefault = 8
  NativeGlobals <- MCGlobals
  Target <- X86
  PltSize = 6
  Runtime <- MCRuntime
  Half = 64
  Binaries <- MCLinked
  Objects <- MCObjects
  Rich <- MCRich
  Quotas <- MCQuotas
  Plenty <- MCPlenty
  AppHeap = 3
  Base = 100
  Layouts <- MCLayouts
  CompiledFuncs <- MCCompiled
  Increments <- MCIncrements
  Underscore = 0
  Env = 999
  IntRegs <- MCIntRegs
  FloatRegs <- MCFloatRegs
  BufSlots = 7
  Tables <- MCTables
  Calls <- MCCalls
INVARIANTS EmittedFits LoadedAsWritten LinkedAsCompiled InstancesAgree CallsAgree NativeCalled NothingHeld
CHECK_DEADLOCK FALSE
