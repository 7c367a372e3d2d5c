CONSTANTS
  Threads = {t1, t2}
  Devices = {d1, d2}
  Total = 3
  Sizes = {1, 2}
  PollCost = 3
  Answers = {0, 2}
  MaxCpu = 3
  MaxCalls = 3
  MaxLimit = 5
  MaxHeap = 8
SYMMETRY Interchangeable
SPECIFICATION MCSpec
INVARIANTS ClockExact MemoryAccounted PinnedExact
CHECK_DEADLOCK FALSE
