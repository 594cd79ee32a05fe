\* Columns whose dictionary indices mix repeated and single values freely, groups
\* of two: a segment of single values may end inside a group, and a run follow it.
CONSTANTS
  PqTables <- MCPqTables
  PqGroup = 2
  PqPageRows = 6
  PqPadInside = TRUE
  PqFailures = FALSE
SPECIFICATION PqSpec
INVARIANTS
  PqRoundTrip
CHECK_DEADLOCK FALSE
