CONSTANTS
  Spines = 2
  Racks = 2
  RackSize = 2
  HostBw = 7
  UplinkBw = 5
  NsPerUs = 4
  LoopbackSpeed = 20
  MaxRate = 1000
  MaxSpan = 60
  NoEvent = NoEvent
  NoToken = NoToken
  Starts = {0, 4, 8, 12}
  HostMapping <- MCHostMapping
SPECIFICATION Spec
INVARIANTS HistoryExact MaxMinFair RoutesValid AppsGetOwnFlows
PROPERTIES ImplementsNetContract AppRunEnds
CHECK_DEADLOCK FALSE
