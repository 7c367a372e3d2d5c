CONSTANTS
  MaxEvents = 6
  Times = {}
  Durations = {1}
  Spans = {0}
  NsPerUs = 1
  NoneDep = NoneDep
  Hosts = {"a"}
  Streams <- TwoStreams
  CudaEvents = {"c"}
  MaxCalls = 4
  MaxTime = 2
  PollCost = 2
SPECIFICATION SoloSpec
INVARIANTS SyncMeansDone StreamOrder NotReadyIsTrue
CHECK_DEADLOCK FALSE
