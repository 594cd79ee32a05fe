\* Two connections, one-deep channels and sockets, one failure anywhere. Four
\* sends take the rotation past the wrap of its counter, which N does not divide.
CONSTANTS
  N = 2
  Depth = 1
  NetCap = 1
  Wrap = 3
  Sort = "Ordered"
  MaxSent = 4
  MaxFaults = 1
SPECIFICATION FairSpec
INVARIANTS
  TypeOK
  CleanEndIsComplete
PROPERTIES
  ImplementsOrderedDelivery
  EveryFrameSurfaces
  FinishReturns
  ReaderReleased
