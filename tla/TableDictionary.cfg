\* A dictionary frame, and a read that may end inside it.
CONSTANTS
  Slots = {w1, w2, w3}
  Unit = 2
  Capacity = 4
  MaxNeed = 0
  MaxGen = 0
  Streams <- WithDictionary
  SplitDict = TRUE
  Truncate = FALSE
  MaxFaults = 0
  MaxErrors = 1
SPECIFICATION Spec
INVARIANTS
  SegmentationIndependent
