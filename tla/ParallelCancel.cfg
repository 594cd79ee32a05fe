\* The ordered merge when the caller abandons a send: no failure is injected.
CONSTANTS
  N = 2
  Depth = 1
  NetCap = 1
  Wrap = 16
  Sort = "Ordered"
  MaxSent = 5
  MaxFaults = 0
SPECIFICATION CancelSpec
INVARIANTS
  OrderedOutput
