CONSTANTS
  MaxEvents = 6
  Times = {}
  Durations = {2}
  Spans = {1}
  NsPerUs = 1
  NoneDep = NoneDep
  Hosts = {"a", "b"}
  Streams <- OneStream
  CudaEvents = {"c"}
  MaxCalls = 2
  MaxTime = 1
  PollCost = 1
SPECIFICATION PollSpec
INVARIANT QueryIsPresent
CHECK_DEADLOCK FALSE
