CONSTANTS
  EventIds <- AllEvents
  NoneDep = NoneDep
  Ranks = {0, 1, 2}
  Kinds = {"allreduce", "allgather"}
  Streams = {"s1", "s2"}
  Flows = {"f", "g"}
  MaxCalls = 3
SPECIFICATION SpmdSpec
INVARIANTS SameNthCall NeitherEarlyNorLate WaitingIsHeld FlowsBetweenStreams
PROPERTY AllCollectivesEnd
CHECK_DEADLOCK FALSE
