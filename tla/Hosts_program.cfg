CONSTANTS
  MaxEvents = 15
  Times = {}
  Durations = {2}
  Spans = {1}
  NsPerUs = 1
  NoneDep = NoneDep
  Hosts = {"a", "b"}
  Streams <- OneStream
  CudaEvents = {"c"}
  MaxCalls = 4
  MaxTime = 6
  PollCost = 1
SPECIFICATION ProgramSpec
INVARIANTS SyncMeansDone WaiterRegistered
PROPERTY ProgramsEnd
CHECK_DEADLOCK FALSE
