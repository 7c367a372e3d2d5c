CONSTANTS
  EventIds <- AllEvents
  NoneDep = NoneDep
  Ranks = {0, 1, 2}
  Streams = {"s1", "s2"}
  Batches <- AllGroups
  MaxCalls = 5
  PairCalls = 4
  MaxGroups = 1
SPECIFICATION MCSpec
INVARIANTS NeverBothWait MatchedInArrivalOrder PeerOrder UnmatchedIsHeld TransferOccupiesStreams
PROPERTY MatchedTransfersEnd
CHECK_DEADLOCK FALSE
