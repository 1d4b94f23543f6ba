CONSTANTS
  Threads = {t1, t2}
  FileSystems <- MCFileSystems
  Below <- MCBelow
  Paths <- MCPaths
  Wants <- MCWants
  NewPaths <- MCNewPaths
  OpenFlags <- MCOpenFlags
  TableSize = 16
  MaxObjects = 6
  MaxCalls = 2
  MaxPathCalls = 1
  MaxChanges = 1
  Draws = 1
  Word = 256
  MaxFds = 4
  MaxPaths = 3
  MaxExpansions = 4
SPECIFICATION Spec
INVARIANTS RefsMatch HeldIsOpen NothingLost PathConfined ResolvesAsMeant
PROPERTY RightsNeverGrow
SYMMETRY Symmetry
CHECK_DEADLOCK FALSE
