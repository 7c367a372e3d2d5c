CONSTANTS
  EventIds <- AllEvents
  NoneDep = NoneDep
  Ranks = {0, 1}
  Streams = {"s1", "s2"}
  Batches <- TwoStreams
  MaxCalls = 4
  PairCalls = 4
  MaxGroups = 1
SPECIFICATION MCSpec
INVARIANT PeerOrder
CHECK_DEADLOCK FALSE
