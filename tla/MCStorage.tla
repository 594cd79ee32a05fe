------------------------------- MODULE MCStorage -------------------------------
(* StreamArena, RecordBatch and the formats of files for TLC - Csv, Parquet,    *)
(* Files and Chunked - one beside the other: the initial state says which runs. *)
EXTENDS StreamArena, Csv, MCParquet, Files, Chunked, RecordBatch, TLC

CONSTANTS w1, w2, caller1, caller2

MCSlots == {w1, w2}
MCCallers == {caller1, caller2}
StorageSymmetry == Permutations(MCSlots) \cup Permutations(MCCallers)

VARIABLE part

SomeOf(S) == CHOOSE x \in S : TRUE

CsvRests ==
  /\ csvTables = SomeOf(CsvTables) /\ csvBatch = SomeOf(CsvBatches)
  /\ csvHeader = FALSE /\ csvTyped = FALSE /\ csvEnded = TRUE
  /\ CsvInit
ParquetRests == pqTable = <<>> /\ pqWanted = {} /\ PqInit
FilesRest ==
  /\ flTables = SomeOf(FlTables) /\ flCoded = FALSE /\ flHow = "each"
  /\ FlInit
ChunksRest == ChInit
BatchRests ==
  /\ rbTable = SomeOf(RbTables) /\ rbView = [off |-> 0, len |-> 0]
  /\ rbZip = FALSE /\ rbWanted = {}
  /\ RbInit

MCInit ==
  \/ part = "arena" /\ ArenaInit /\ CsvRests /\ ParquetRests /\ FilesRest /\ ChunksRest /\ BatchRests
  \/ part = "csv" /\ ArenaInit /\ CsvInit /\ ParquetRests /\ FilesRest /\ ChunksRest /\ BatchRests
  \/ part = "parquet" /\ ArenaInit /\ CsvRests /\ PqInit /\ FilesRest /\ ChunksRest /\ BatchRests
  \/ part = "files" /\ ArenaInit /\ CsvRests /\ ParquetRests /\ FlInit /\ ChunksRest /\ BatchRests
  \/ part = "chunks" /\ ArenaInit /\ CsvRests /\ ParquetRests /\ FilesRest /\ ChInit /\ BatchRests
  \/ part = "batches" /\ ArenaInit /\ CsvRests /\ ParquetRests /\ FilesRest /\ ChunksRest /\ RbInit

MCNext ==
  \/ part = "arena" /\ ArenaNext /\ UNCHANGED <<part, csvvars, pqvars, flvars, chvars, rbvars>>
  \/ part = "csv" /\ CsvNext /\ UNCHANGED <<part, avars, pqvars, flvars, chvars, rbvars>>
  \/ part = "parquet" /\ PqNext /\ UNCHANGED <<part, avars, csvvars, flvars, chvars, rbvars>>
  \/ part = "files" /\ FlNext /\ UNCHANGED <<part, avars, csvvars, pqvars, chvars, rbvars>>
  \/ part = "chunks" /\ ChNext /\ UNCHANGED <<part, avars, csvvars, pqvars, flvars, rbvars>>
  \/ part = "batches" /\ RbNext /\ UNCHANGED <<part, avars, csvvars, pqvars, flvars, chvars>>

MCSpec == MCInit /\ [][MCNext]_<<part, avars, csvvars, pqvars, flvars, chvars, rbvars>>

------------------------------------------------------------------------------
(* CSV: one table, of one or two columns, with cells of every kind where rows  *)
(* are few; or two tables.                                                      *)

AllCells == {<<>>, <<Digit>>, <<Letter>>, <<Letter, Quote>>, <<Delim>>,
             <<Quote, Newline>>, <<Letter, Newline, Letter>>}
FewCells == {<<>>, <<Digit>>, <<Letter>>}
RowsOf(width, n, S) == [1 .. n -> [1 .. width -> S]]

MCCsvTables ==
  {<<t>> : t \in RowsOf(1, 1, AllCells) \cup RowsOf(1, 2, AllCells) \cup RowsOf(1, 3, FewCells)
                 \cup RowsOf(2, 1, AllCells) \cup RowsOf(2, 2, FewCells)}
    \cup {<<a, b>> : a \in RowsOf(1, 2, FewCells), b \in RowsOf(1, 2, FewCells)}

(* Arrow files: none, one or more tables, with and without rows and bodies.    *)

Table(meta, body, rows) == [meta |-> meta, body |-> body, rows |-> rows]

MCFlTables ==
  { <<>>, <<Table(1, 0, 0)>>, <<Table(1, 1, 1), Table(1, 1, 1)>>,
    <<Table(1, 4, 5), Table(2, 0, 0), Table(1, 4, 5)>>, <<Table(2, 9, 4), Table(1, 3, 6)>> }

(* Record batches: columns of every kind with six rows, with and without masks *)
(* and nulls, one the encoder has no layout for, and a dictionary without values. *)

RbColumnOf(kind, nullable, mask, values, uniques) ==
  [kind |-> kind, nullable |-> nullable, mask |-> mask, values |-> values, uniques |-> uniques]

SomeValid == <<TRUE, FALSE, TRUE, TRUE, FALSE, TRUE>>
AllValid == <<TRUE, TRUE, TRUE, TRUE, TRUE, TRUE>>
FixedCol(n, m) == RbColumnOf("fixed", n, m, <<1, 2, 3, 4, 5, 6>>, <<>>)
BoolCol(n, m) == RbColumnOf("bool", n, m, <<TRUE, TRUE, FALSE, TRUE, FALSE, FALSE>>, <<>>)
StringCol(n, m) ==
  RbColumnOf("string", n, m, << <<1>>, <<>>, <<2, 3>>, <<4>>, <<>>, <<5, 6, 7>> >>, <<>>)
DictionaryCol(n, m) ==
  RbColumnOf("dictionary", n, m, <<0, 1, 1, 0, 2, 1>>, << <<8>>, <<>>, <<9, 9>> >>)

MCRbTables ==
  { <<StringCol(TRUE, SomeValid), FixedCol(FALSE, <<>>), BoolCol(TRUE, SomeValid)>>,
    <<DictionaryCol(TRUE, SomeValid), StringCol(FALSE, <<>>), FixedCol(TRUE, <<>>)>>,
    <<BoolCol(FALSE, <<>>), FixedCol(TRUE, SomeValid), DictionaryCol(FALSE, SomeValid)>>,
    <<FixedCol(FALSE, SomeValid), BoolCol(TRUE, AllValid), StringCol(TRUE, <<>>)>>,
    <<FixedCol(FALSE, <<>>), RbColumnOf("other", FALSE, <<>>, <<1, 2, 3, 4, 5, 6>>, <<>>)>>,
    <<RbColumnOf("dictionary", TRUE, <<>>, <<>>, <<>>), RbColumnOf("fixed", FALSE, <<>>, <<>>, <<>>)>> }
==============================================================================
