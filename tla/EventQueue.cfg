CONSTANTS
  MaxEvents = 6
  GraphEvents = 3
  Times = {0, 1}
  Durations = {0, 1}
  Spans = {0, 3}
  NsPerUs = 2
  NoneDep = NoneDep
SPECIFICATION MCSpec
INVARIANTS UnwrapSafe QueueNetAgree NoLostWakeup DependencyOrder OneRollbackAtATime LoopTargetsUnfinished EmptyMeansBarrier
PROPERTIES CallsReturn ImplementsDepGraph
CHECK_DEADLOCK FALSE
