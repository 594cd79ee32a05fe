\* A Stream sink closed while a frame is pending.
CONSTANTS
  Kinds = {"stream"}
  FrameSize = 2
  CloseOverPending = TRUE
  MaxItems = 2
  MaxFaults = 0
SPECIFICATION SinkSpec
INVARIANTS
  OkIsComplete
CHECK_DEADLOCK FALSE
