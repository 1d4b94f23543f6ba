SPECIFICATION HeapSpec
CONSTANTS
  Size = 16
  NormalMax = 3
  Smallest = 2
  Requests = {1, 3, 4}
  MaxMoves = 1
  MaxDrift = 1
INVARIANTS Tiled Indexed Accounted BestFit
CHECK_DEADLOCK FALSE
