\* Two batches of the same size and a caller that drops each table at once.
CONSTANTS
  Slots = {w1, w2, w3}
  Unit = 2
  Capacity = 4
  MaxNeed = 0
  MaxGen = 0
  Streams <- SameSize
  SplitDict = FALSE
  Truncate = FALSE
  MaxFaults = 0
  MaxErrors = 1
SPECIFICATION Spec
PROPERTIES
  RewindsOnceReleased
