\* ParallelLightstream: the arrival-order merge, with a caller that may abandon a
\* send.  ParallelTables: every transport and both orders, two streams, channels
\* and windows of one table, one write_table dropped or one stream, connection
\* or accept lost.
CONSTANTS
  N = 2
  Depth = 1
  NetCap = 1
  Wrap = 16
  Sort = "Arrival"
  MaxSent = 4
  MaxFaults = 1
  PtKinds = {"tcp", "http", "quic"}
  PtSorts = {"Ordered", "Arrival"}
  PtN = 2
  PtDepth = 1
  PtWindow = 1
  PtWindowMax = 4
  PtAcceptInOrder = TRUE
  FewTables = 4
  PtMaxTables = 6
  PtMaxAbandoned = 1
  PtMaxFaults = 1
SPECIFICATION MCSpec
INVARIANTS
  ConnectionOrder
  CleanEndIsComplete
  PtInOrder
  PtOkIsComplete
PROPERTIES
  ReaderReleased
  PtBothReturn
