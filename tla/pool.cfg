\* Buckets of 2 and 4 bytes under a maximum of 5, two tasks.
SPECIFICATION Spec
CONSTANTS
  t1 = t1  t2 = t2
  Tasks <- MCTasks
  MinLen = 2
  MaxLen = 5
  PreAlloc = 1
  MaxCeiling = 1
  MaxStartup = 8
  Lengths = {0, 2, 3, 4, 5}
  MaxDepth = 2
  MaxBufs = 8
SYMMETRY MCSymmetry
INVARIANTS NoPanic OneOwnerInBounds OnlyOwnBytes StockKept
CHECK_DEADLOCK FALSE
