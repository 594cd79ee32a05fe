\* StreamArena: two windows alive together over a backing of six bytes, aligned
\* to four: the second frame meets the end of the backing, a request of seven
\* grows it.
\* Csv and Parquet: the tables of MCStorage and MCParquet, batches of one, two and
\* all rows, pages of six rows, groups of two.
\* Files: windows of at least two rows, two failures.
\* Chunked: two callers of par_write_all with two threads, three tables, one
\* failure or crash.
\* RecordBatch: bytes of two bits, alignment to two, windows from every fourth
\* row of a decoded table, any rows of a sent one.
CONSTANTS
  w1 = w1
  w2 = w2
  Slots <- MCSlots
  Unit = 4
  Capacity = 6
  MaxNeed = 7
  MaxGen = 2
  CsvTables <- MCCsvTables
  CsvBatches = {1, 2, 9}
  CsvSample = 2
  PqTables <- MCPqTables
  PqGroup = 2
  PqPageRows = 6
  PqPadInside = FALSE
  PqFailures = TRUE
  FlTables <- MCFlTables
  FlTargets = {0, 1, 3, 4, 9}
  FlStep = 2
  FlGoesOn = FALSE
  FlMaxFaults = 2
  caller1 = caller1
  caller2 = caller2
  ChFormats = {"framed", "csv"}
  ChCallers <- MCCallers
  ChThreads = 2
  ChMaxTables = 3
  ChMaxFaults = 1
  RbTables <- MCRbTables
  RbByte = 2
  RbAlign = 2
  RbStep = 4
SYMMETRY StorageSymmetry
SPECIFICATION MCSpec
INVARIANTS
  ArenaTypeOK
  WindowsIntact
  CsvRoundTrip
  CsvBatchesAgree
  PqRoundTrip
  FileReadsBack
  ChAckedInOrder
  RbRoundTrip
  RbViewsAligned
PROPERTIES
  OneBackingInSteadyState
CHECK_DEADLOCK FALSE
