\* A stream of every kind of frame, one with flaws and one out of order, cut
\* anywhere; a four-byte arena that the body of five outgrows.
CONSTANTS
  Slots = {w1, w2, w3}
  Unit = 2
  Capacity = 4
  MaxNeed = 0
  MaxGen = 0
  Streams <- MCStreams
  SplitDict = FALSE
  Truncate = TRUE
  MaxFaults = 1
  MaxErrors = 2
SPECIFICATION FairSpec
INVARIANTS
  DecoderTypeOK
  TablesIntact
  BodyInPlace
  TablesAligned
PROPERTIES
  ImplementsTableDelivery
  StreamEnds
