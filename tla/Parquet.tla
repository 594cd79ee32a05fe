-------------------------------- MODULE Parquet --------------------------------
(***************************************************************************)
(* Parquet files: write_parquet_table, which writes a table page by page   *)
(* and ends with a footer, and read_parquet_impl, which reads the columns  *)
(* it is asked for by the offsets of that footer.                          *)
(*                                                                         *)
(* A file is a sequence of pages, closed by the footer; an offset is the   *)
(* index of a page.  A page keeps its definition levels and, when it is of *)
(* a categorical column, its dictionary indices as runs of the hybrid      *)
(* encoding: a value and how often it comes (RLE), or values bit-packed in *)
(* groups.  Bits, varints, Thrift and compression are left out.            *)
(***************************************************************************)
EXTENDS Integers, Sequences, SequencesExt, FiniteSets, FiniteSetsExt

CONSTANTS
  PqTables,   \* the tables: sequences of columns [kind, nullable, cells]
  PqGroup,    \* values in a bit-packed group, and the shortest RLE run: 8
  PqPageRows, \* PARQUET_PAGE_CHUNK_SIZE
  PqPadInside, \* whether a padded segment may come before another run
  PqFailures  \* whether writing may fail

PqKinds == {"plain", "categorical"}

\* A null cell, and the index the encoder pads with.
PqNull == 0
PqPadding == 0

ASSUME PqAssumption ==
  /\ PqGroup \in Nat \ {0} /\ PqPageRows \in Nat \ {0}
  /\ PqPadInside \in BOOLEAN /\ PqFailures \in BOOLEAN
  /\ \A t \in PqTables : \A c \in DOMAIN t :
       /\ t[c].kind \in PqKinds /\ t[c].nullable \in BOOLEAN
       /\ Len(t[c].cells) = Len(t[1].cells)
       /\ PqNull \in ToSet(t[c].cells) => t[c].nullable

VARIABLES
  pqTable,    \* the table that is written
  pqWanted,   \* the columns that are read
  pqPhase,    \* write, written, failed, panicked, read, refused, done
  pqFile,     \* the pages in the file
  pqColumn,   \* the column being written, or read
  pqRow,      \* the first of its rows that is not: `start`, `levels_read`
  pqDict,     \* where its dictionary page is, or 0
  pqChunks,   \* ColumnMetadata: the pages of a column, and its rows
  pqNext,     \* the page the reader is at
  pqCells,    \* the cells read of the column
  pqRead      \* the columns read

pqWriter == <<pqFile, pqChunks>>
pqReader == <<pqNext, pqCells, pqRead>>
pqvars == <<pqTable, pqWanted, pqPhase, pqColumn, pqRow, pqDict, pqWriter, pqReader>>

------------------------------------------------------------------------------
(* The hybrid encoding.                                                    *)

\* A run; the last `pad` of its values are padding, which its header does not say.
PqRle(v, n) == [values |-> [i \in 1 .. n |-> v], pad |-> 0]
PqPack(s, pads) == [values |-> s \o pads, pad |-> Len(pads)]

\* How many times the value at i comes in a row, from i on.
PqRunAt(s, i) == Max({n \in 1 .. Len(s) - i + 1 : \A k \in 0 .. n - 1 : s[i + k] = s[i]})

\* Where a bit-packed segment that begins at i ends: at the end, or after a
\* group or more, where values come that make an RLE run.
PqSegment(s, i) ==
  Min({n \in 1 .. Len(s) - i + 1 :
         i + n > Len(s) \/ (n >= PqGroup /\ PqRunAt(s, i + n) >= PqGroup)})

\* The padding of n values to whole groups.
PqPads(n, v) == [k \in 1 .. (-n) % PqGroup |-> v]

\* A segment is padded to whole groups, with the value of the run that follows
\* or with zeros.
PqPadded(s, i, n) ==
  PqPack(SubSeq(s, i, i + n - 1), PqPads(n, IF i + n <= Len(s) THEN s[i + n] ELSE PqPadding))

PqEncode(s) ==
  LET from[i \in 1 .. Len(s) + 1] ==
        IF i > Len(s) THEN <<>>
        ELSE LET run == PqRunAt(s, i)
                 n == IF run >= PqGroup THEN run ELSE PqSegment(s, i)
             IN <<IF run >= PqGroup THEN PqRle(s[i], run) ELSE PqPadded(s, i, n)>> \o from[i + n]
  IN from[1]

\* The decoder takes every value of a run but those past the number it wants.
PqDecoded(runs, n) ==
  LET all == FlattenSeq([i \in DOMAIN runs |-> runs[i].values]) IN
    SubSeq(all, 1, IF Len(all) < n THEN Len(all) ELSE n)

\* Levels are one RLE run, or one bit-packed run.
PqLevels(s) ==
  IF \A i \in DOMAIN s : s[i] = s[1] THEN <<PqRle(s[1], Len(s))>>
  ELSE <<PqPack(s, PqPads(Len(s), FALSE))>>

------------------------------------------------------------------------------
(* The writer.                                                             *)

PqRows(t) == IF t = <<>> THEN 0 ELSE Len(t[1].cells)
PqAt == pqTable[pqColumn]

\* The categories of a column in the order of their first use; an index into
\* them is one less than a position.
PqCategories(cells) ==
  LET valid == SelectSeq(cells, LAMBDA v : v # PqNull) IN
    SelectSeq([i \in DOMAIN valid |-> IF \E k \in 1 .. i - 1 : valid[k] = valid[i]
                                      THEN PqNull ELSE valid[i]],
              LAMBDA v : v # PqNull)
PqIndex(cells, v) == CHOOSE i \in 0 .. Len(cells) : PqCategories(cells)[i + 1] = v

\* The values of the rows a page holds; the nulls are dropped.
PqValid(cells) == SelectSeq(cells, LAMBDA v : v # PqNull)

PqPage(col, from, to) ==
  LET cells == SubSeq(col.cells, from, to)
      values == PqValid(cells)
      indices == [i \in DOMAIN values |-> PqIndex(col.cells, values[i])]
  IN [type |-> "data", rows |-> to - from + 1,
      defs |-> PqLevels([i \in DOMAIN cells |-> cells[i] # PqNull]),
      values |-> IF col.kind = "plain" THEN values ELSE PqEncode(indices)]

\* The pages of a column, and whether one pads a segment that other runs follow.
PqPages(col) ==
  [k \in 1 .. (Len(col.cells) + PqPageRows - 1) \div PqPageRows |->
     PqPage(col, (k - 1) * PqPageRows + 1, Min({k * PqPageRows, Len(col.cells)}))]
PqPadsInside(col) ==
  col.kind = "categorical" /\ \E k \in DOMAIN PqPages(col) :
    LET runs == PqPages(col)[k].values IN \E i \in 1 .. Len(runs) - 1 : runs[i].pad > 0

PqInit ==
  /\ pqTable \in PqTables /\ pqWanted \in SUBSET DOMAIN pqTable
  /\ PqPadInside \/ \A c \in DOMAIN pqTable : ~PqPadsInside(pqTable[c])
  /\ pqPhase = "write" /\ pqFile = <<>>
  /\ pqColumn = 1 /\ pqRow = 0 /\ pqDict = 0 /\ pqChunks = <<>>
  /\ pqCells = <<>> /\ pqNext = 1 /\ pqRead = <<>>

PqWriting == pqPhase = "write" /\ pqColumn \in DOMAIN pqTable

\* A categorical column begins with a page of its categories.
PqWriteDictionary ==
  /\ PqWriting /\ PqAt.kind = "categorical" /\ pqDict = 0
  /\ pqFile' = Append(pqFile, [type |-> "dictionary", values |-> PqCategories(PqAt.cells)])
  /\ pqDict' = Len(pqFile')
  /\ UNCHANGED <<pqTable, pqWanted, pqPhase, pqColumn, pqRow, pqChunks, pqReader>>

\* What a page adds to num_values.
PqCount(page) == page.rows

PqWritePage ==
  /\ PqWriting
  /\ PqAt.kind = "categorical" => pqDict # 0
  /\ pqRow < Len(PqAt.cells)
  /\ pqRow' = Min({pqRow + PqPageRows, Len(PqAt.cells)})
  /\ pqFile' = Append(pqFile, PqPage(PqAt, pqRow + 1, pqRow'))
  /\ UNCHANGED <<pqTable, pqWanted, pqPhase, pqColumn, pqDict, pqChunks, pqReader>>

\* The column's metadata.  A column without rows has no data page, and the
\* writer panics.
PqEndColumn ==
  /\ PqWriting
  /\ PqAt.kind = "categorical" => pqDict # 0
  /\ pqRow = Len(PqAt.cells)
  /\ LET data == {p \in DOMAIN pqFile : p > pqDict /\ pqFile[p].type = "data"
                                        /\ \A c \in DOMAIN pqChunks : p > pqChunks[c].last}
     IN IF data = {} THEN pqPhase' = "panicked" /\ UNCHANGED <<pqColumn, pqRow, pqDict, pqChunks>>
        ELSE /\ pqChunks' = Append(pqChunks,
                  [dict |-> pqDict, first |-> Min(data), last |-> Max(data),
                   count |-> FoldSet(LAMBDA p, n : n + PqCount(pqFile[p]), 0, data)])
             /\ pqColumn' = pqColumn + 1 /\ pqRow' = 0 /\ pqDict' = 0
             /\ UNCHANGED pqPhase
  /\ UNCHANGED <<pqTable, pqWanted, pqFile, pqReader>>

PqWriteFooter ==
  /\ pqPhase = "write" /\ pqColumn \notin DOMAIN pqTable
  /\ pqFile' = Append(pqFile, [type |-> "footer", rows |-> PqRows(pqTable), chunks |-> pqChunks])
  /\ pqPhase' = "written"
  /\ UNCHANGED <<pqTable, pqWanted, pqColumn, pqRow, pqDict, pqChunks, pqReader>>

\* A write to the file fails, and what it has stays.
PqWriteErr ==
  /\ pqPhase = "write" /\ PqFailures
  /\ pqPhase' = "failed"
  /\ UNCHANGED <<pqTable, pqWanted, pqColumn, pqRow, pqDict, pqWriter, pqReader>>

------------------------------------------------------------------------------
(* The reader.                                                             *)

PqFooted == pqFile # <<>> /\ Last(pqFile).type = "footer"
PqChunk == Last(pqFile).chunks[pqColumn]

\* The reader is at column c, or past the last it wants.
PqSeek(c) ==
  LET ahead == {k \in pqWanted : k >= c} IN
    IF ahead = {} THEN /\ pqPhase' = "done" /\ pqColumn' = Len(pqTable) + 1
                       /\ UNCHANGED <<pqDict, pqNext>>
    ELSE LET chunk == Last(pqFile).chunks[Min(ahead)] IN
           /\ pqPhase' = "read" /\ pqColumn' = Min(ahead)
           /\ pqDict' = chunk.dict /\ pqNext' = chunk.first

\* The magic at the end is read first.
PqOpen ==
  /\ pqPhase \in {"failed", "panicked", "written"}
  /\ IF PqFooted THEN PqSeek(1)
     ELSE pqPhase' = "refused" /\ UNCHANGED <<pqColumn, pqDict, pqNext>>
  /\ pqRow' = 0
  /\ UNCHANGED <<pqTable, pqWanted, pqFile, pqChunks, pqCells, pqRead>>

\* A REQUIRED column has no definition levels.
PqDefs(page) ==
  IF PqAt.nullable THEN PqDecoded(page.defs, page.rows) ELSE [i \in 1 .. page.rows |-> TRUE]

\* The entries of a page: its values, or the categories its indices stand for.
PqEntries(page, n) ==
  IF pqDict = 0 THEN page.values
  ELSE LET categories == pqFile[pqDict].values IN
         [i \in DOMAIN PqDecoded(page.values, n) |->
            LET at == PqDecoded(page.values, n)[i] + 1 IN
              IF at \in DOMAIN categories THEN categories[at] ELSE PqNull]

\* Mutant: the entries come first, then the nulls.
PqScatterPacked(defs, entries) ==
  [i \in DOMAIN defs |-> IF i <= Len(entries) THEN entries[i] ELSE PqNull]

\* scatter_by_definition_levels: the entries in order, one to a valid row.
PqScatter(defs, entries) ==
  [i \in DOMAIN defs |->
     IF defs[i] THEN entries[Cardinality({k \in 1 .. i : defs[k]})] ELSE PqNull]

\* The next page of the column's chunk, until it has given the rows of the
\* chunk; too few entries, or an index without a category, are an error.
PqReadPage ==
  /\ pqPhase = "read" /\ pqRow < PqChunk.count
  /\ LET page == pqFile[pqNext]
         defs == PqDefs(page)
         n == Cardinality({i \in DOMAIN defs : defs[i]})
         entries == PqEntries(page, n)
     IN IF page.type = "data" /\ Len(entries) >= n /\ PqNull \notin ToSet(entries)
        THEN /\ pqCells' = pqCells \o PqScatter(defs, entries)
             /\ pqRow' = pqRow + Len(defs) /\ pqNext' = pqNext + 1
             /\ UNCHANGED pqPhase
        ELSE pqPhase' = "refused" /\ UNCHANGED <<pqCells, pqRow, pqNext>>
  /\ UNCHANGED <<pqTable, pqWanted, pqFile, pqColumn, pqDict, pqChunks, pqRead>>

\* A column has the rows the footer says, and the next one follows.
PqReadColumn ==
  /\ pqPhase = "read" /\ pqRow >= PqChunk.count
  /\ IF Len(pqCells) = Last(pqFile).rows
     THEN pqRead' = Append(pqRead, pqCells) /\ PqSeek(pqColumn + 1)
     ELSE pqPhase' = "refused" /\ UNCHANGED <<pqRead, pqColumn, pqDict, pqNext>>
  /\ pqCells' = <<>> /\ pqRow' = 0
  /\ UNCHANGED <<pqTable, pqWanted, pqFile, pqChunks>>

------------------------------------------------------------------------------
PqNext ==
  \/ PqWriteDictionary \/ PqWritePage \/ PqEndColumn \/ PqWriteFooter \/ PqWriteErr
  \/ PqOpen \/ PqReadPage \/ PqReadColumn

PqSpec == PqInit /\ [][PqNext]_pqvars

------------------------------------------------------------------------------
(* Properties.                                                             *)

\* The cells of the wanted columns, in the order of the schema.
PqExpected == SelectSeq([c \in DOMAIN pqTable |-> c], LAMBDA c : c \in pqWanted)

\* A table that is read is the one that was written: values at their rows,
\* nulls where they were, categories as their strings, pages in order, and of
\* the columns that were asked for only; a file whose writing ended well is
\* never refused, and one whose writing failed always is, wherever it stopped
\* (read_parquet_impl over write_parquet_table).
PqRoundTrip ==
  /\ pqPhase = "done" =>
       /\ Len(pqRead) = Len(PqExpected)
       /\ \A k \in DOMAIN pqRead : pqRead[k] = pqTable[PqExpected[k]].cells
  /\ pqPhase = "refused" => ~PqFooted
  /\ pqPhase \in {"read", "done"} => PqFooted
=============================================================================
