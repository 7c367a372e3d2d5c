CONSTANTS
  MaxEvents = 6
  GraphEvents = 0
  Times = {0, 1}
  Durations = {1}
  Spans = {3}
  NsPerUs = 2
  NoneDep = NoneDep
SPECIFICATION MCSpec
INVARIANT DependencyOrderStrict
CHECK_DEADLOCK FALSE
