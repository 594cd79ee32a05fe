---------------------------------- MODULE Csv ----------------------------------
(***************************************************************************)
(* CSV: encode_supertable_csv, which writes the tables of a SuperTable one *)
(* after the other, and CsvReader over decode_csv_bytes, which reads the   *)
(* text at once (load_table) or in batches of lines (next_batch, schema).  *)
(*                                                                         *)
(* Text is a sequence of characters of five classes: quote, delimiter,     *)
(* newline, digit and letter.  A value is its text; numbers other than     *)
(* strings of digits, spaces and carriage returns are left out, and so are *)
(* the tokens for null and for booleans.                                   *)
(***************************************************************************)
EXTENDS Integers, Sequences, SequencesExt, FiniteSets, FiniteSetsExt

CONSTANTS
  CsvTables,   \* the SuperTables: sequences of tables, sequences of rows of cells
  CsvBatches,  \* the batch sizes a reader may be made with
  CsvSample    \* INFER_SAMPLE: rows the types are inferred from

Quote == "q"
Delim == "d"
Newline == "n"
Digit == "7"
Letter == "a"
CsvChars == {Quote, Delim, Newline, Digit, Letter}

\* What a blank cell reads as, and a cell of a boolean column that is not one.
CsvNull == <<>>
CsvFalse == <<"false">>

ASSUME CsvAssumption ==
  /\ CsvBatches \subseteq Nat \ {0} /\ CsvSample \in Nat \ {0}
  /\ \A st \in CsvTables : \A t \in DOMAIN st : \A r \in DOMAIN st[t] :
       /\ Len(st[t][r]) = Len(st[1][1]) /\ Len(st[t][r]) > 0
       /\ \A c \in DOMAIN st[t][r] : st[t][r][c] \in Seq(CsvChars)

VARIABLES
  csvTables,    \* the SuperTable that is written
  csvHeader,    \* write_header, has_header
  csvTyped,     \* the reader infers types; all_as_text otherwise
  csvEnded,     \* the file ends with a newline, or has lost its last one
  csvBatch,     \* batch_size
  csvWritten,   \* tables written
  csvText,      \* the file
  csvAt,        \* characters of it the reader has taken
  csvSchema,    \* the types of the columns, or <<>> for None
  csvFinished,  \* finished
  csvRows,      \* the rows returned so far
  csvDropped,   \* rows before them that schema() read and did not return
  csvEnd        \* how reading ended: none, loaded, end, failed

csvOptions == <<csvTables, csvHeader, csvTyped, csvEnded, csvBatch>>
csvReader == <<csvAt, csvSchema, csvFinished, csvRows, csvDropped, csvEnd>>
csvvars == <<csvOptions, csvWritten, csvText, csvReader>>

------------------------------------------------------------------------------
(* Encoding.                                                               *)

\* Mutant: a newline needs no quotes.
CsvQuotesButNewline(cell) == {Quote, Delim} \cap ToSet(cell) # {}

CsvNeedsQuoting(cell) == {Quote, Delim, Newline} \cap ToSet(cell) # {}

\* A cell, in quotes with its own quotes doubled where it needs them.
CsvCell(cell) ==
  IF ~CsvNeedsQuoting(cell) THEN cell
  ELSE <<Quote>> \o FlattenSeq([i \in DOMAIN cell |-> IF cell[i] = Quote THEN <<Quote, Quote>>
                                                      ELSE <<cell[i]>>]) \o <<Quote>>

CsvLine(row) ==
  FlattenSeq([i \in DOMAIN row |-> (IF i = 1 THEN <<>> ELSE <<Delim>>) \o CsvCell(row[i])])
    \o <<Newline>>

CsvNames(n) == [i \in 1 .. n |-> <<Letter>>]

------------------------------------------------------------------------------
(* Decoding.                                                               *)

\* The text from the first character that does not end a blank line.
CsvSkip(text) ==
  LET seen == {i \in DOMAIN text : text[i] # Newline} IN
    IF seen = {} THEN <<>> ELSE SubSeq(text, Min(seen), Len(text))

\* Pass 1: the fields and rows of a text.  A quote opens or closes a quoted
\* part, where nothing ends a field; data after the last newline is a row.
CsvScan(text) ==
  LET Step(s, ch) ==
        IF ch \in {Delim, Newline} /\ ~s.quoted
        THEN LET row == Append(s.row, s.field) IN
               IF ch = Delim THEN [s EXCEPT !.row = row, !.field = <<>>]
               ELSE [s EXCEPT !.rows = Append(@, row), !.row = <<>>, !.field = <<>>]
        ELSE [s EXCEPT !.field = Append(@, ch), !.quoted = (@ # (ch = Quote))]
      last == FoldLeft(Step, [rows |-> <<>>, row |-> <<>>, field |-> <<>>, quoted |-> FALSE], text)
  IN IF last.field = <<>> THEN last.rows ELSE Append(last.rows, Append(last.row, last.field))

\* unquote: the outer quotes go, and one of each two quotes.
CsvUnquote(field) ==
  IF Len(field) >= 2 /\ field[1] = Quote /\ Last(field) = Quote
  THEN LET inner == SubSeq(field, 2, Len(field) - 1)
           Step(s, i) == IF i > 1 /\ inner[i] = Quote /\ inner[i - 1] = Quote /\ ~s.half
                         THEN [s EXCEPT !.half = TRUE]
                         ELSE [text |-> Append(s.text, inner[i]), half |-> FALSE]
       IN FoldLeft(Step, [text |-> <<>>, half |-> FALSE], [i \in DOMAIN inner |-> i]).text
  ELSE field

\* Nothing but whitespace is a null.
CsvBlank(cell) == ToSet(cell) \subseteq {Newline}
CsvInt(cell) == ToSet(cell) \subseteq {Digit}

\* The type the first n cells of a column have in common.
CsvInfer(cells, n) ==
  LET some == {cells[i] : i \in {k \in DOMAIN cells : k <= n /\ ~CsvBlank(cells[k])}} IN
    IF some = {} THEN "bool" ELSE IF \A c \in some : CsvInt(c) THEN "int" ELSE "text"

\* The value of a cell in a column of a type.
CsvValue(cell, type) ==
  IF CsvBlank(cell) THEN CsvNull ELSE IF type = "bool" THEN CsvFalse ELSE cell

\* The rows of a text, and those that are not the header.
CsvFields(rows) ==
  [r \in DOMAIN rows |-> [c \in DOMAIN rows[r] |-> CsvUnquote(rows[r][c])]]
CsvData(rows, header) == IF header /\ rows # <<>> THEN Tail(rows) ELSE rows

CsvColumn(rows, c) == [r \in DOMAIN rows |-> rows[r][c]]

\* The types of n columns: the schema's, or the inferred ones.
CsvTypes(data, n, schema) ==
  IF schema # <<>> THEN schema
  ELSE [c \in 1 .. n |-> IF csvTyped THEN CsvInfer(CsvColumn(data, c), CsvSample) ELSE "text"]

\* The columns are built: an error when a number does not parse, a panic when the
\* schema has more columns than the text.
CsvBuild(data, n, types) ==
  IF \/ data # <<>> /\ Len(types) > n
     \/ \E r \in DOMAIN data, c \in DOMAIN types :
          types[c] = "int" /\ ~CsvBlank(data[r][c]) /\ ~CsvInt(data[r][c])
  THEN [ok |-> FALSE]
  ELSE [ok |-> TRUE, types |-> types,
        rows |-> [r \in DOMAIN data |-> [c \in DOMAIN types |-> CsvValue(data[r][c], types[c])]]]

\* decode_csv_bytes, once the text is scanned: rows differ in width, or the
\* columns follow the first.
CsvTable(rows, header, schema) ==
  IF \E r \in DOMAIN rows : Len(rows[r]) # Len(rows[1]) THEN [ok |-> FALSE]
  ELSE LET n == IF rows = <<>> THEN 0 ELSE Len(rows[1]) IN
         CsvBuild(CsvData(rows, header), n, CsvTypes(CsvData(rows, header), n, schema))
CsvDecode(text, header, schema) == CsvTable(CsvFields(CsvScan(CsvSkip(text))), header, schema)

------------------------------------------------------------------------------
CsvInit ==
  /\ csvTables \in CsvTables
  /\ csvHeader \in BOOLEAN /\ csvTyped \in BOOLEAN /\ csvEnded \in BOOLEAN
  /\ csvBatch \in CsvBatches
  /\ csvWritten = 0 /\ csvText = <<>>
  /\ csvAt = 0 /\ csvSchema = <<>> /\ csvFinished = FALSE
  /\ csvRows = <<>> /\ csvDropped = 0 /\ csvEnd = "none"

\* The next table of the SuperTable; the first writes the header.
CsvWrite ==
  /\ csvWritten < Len(csvTables)
  /\ csvWritten' = csvWritten + 1
  /\ LET t == csvTables[csvWritten']
         header == IF csvHeader /\ csvWritten = 0 THEN CsvLine(CsvNames(Len(t[1]))) ELSE <<>>
         text == csvText \o header \o FlattenSeq([r \in DOMAIN t |-> CsvLine(t[r])])
     IN csvText' = IF csvWritten' = Len(csvTables) /\ ~csvEnded THEN Front(text) ELSE text
  /\ UNCHANGED <<csvOptions, csvReader>>

CsvReading == csvWritten = Len(csvTables) /\ csvEnd = "none"

\* What a decoded table makes of the reader.
CsvFail == csvEnd' = "failed" /\ UNCHANGED <<csvSchema, csvFinished, csvRows, csvDropped>>
CsvLoaded(table) ==
  /\ table.ok
  /\ csvRows' = table.rows /\ csvEnd' = "loaded"
  /\ UNCHANGED <<csvSchema, csvFinished, csvDropped>>
CsvBatched(table, returned) ==
  /\ table.ok
  /\ IF returned THEN csvRows' = csvRows \o table.rows /\ UNCHANGED csvDropped
     ELSE csvDropped' = Len(table.rows) /\ UNCHANGED csvRows
  /\ csvSchema' = table.types
  /\ csvFinished' = (Len(table.rows) < csvBatch)
  /\ UNCHANGED csvEnd

\* load_table takes all of the text at once.
CsvLoadTable ==
  /\ CsvReading /\ csvAt = 0 /\ csvSchema = <<>>
  /\ csvAt' = Len(csvText)
  /\ \E table \in {CsvDecode(csvText, csvHeader, <<>>)} :
       CsvLoaded(table) \/ (~table.ok /\ CsvFail)
  /\ UNCHANGED <<csvOptions, csvWritten, csvText>>

\* Mutant: the header counts as a row.
CsvBatchOnly == csvBatch

\* The lines of a batch: its rows, and the header before the first.
CsvLimit == csvBatch + (IF csvSchema = <<>> /\ csvHeader THEN 1 ELSE 0)

\* The text up to the newline that ends line n, or all of it.
CsvTake(text, n) ==
  LET ends == {i \in DOMAIN text : text[i] = Newline
                 /\ Cardinality({k \in 1 .. i : text[k] = Newline}) = n} IN
    SubSeq(text, 1, IF ends = {} THEN Len(text) ELSE Min(ends))

\* The lines as they are decoded, each ended by a newline.
CsvChunk(lines) == IF Last(lines) = Newline THEN lines ELSE Append(lines, Newline)

\* No more rows.
CsvNoBatch ==
  /\ csvFinished' = TRUE /\ csvEnd' = "end"
  /\ csvAt' = IF csvFinished THEN csvAt ELSE Len(csvText)
  /\ UNCHANGED <<csvSchema, csvRows, csvDropped>>

\* A batch of lines out of the text that is left is decoded on its own, under
\* the types of the first batch; with fewer rows than a batch it is the last.
CsvBatch(left, lines, returned) ==
  /\ csvAt' = Len(csvText) - Len(left) + Len(lines)
  /\ \E table \in {CsvDecode(CsvChunk(lines), csvHeader /\ csvSchema = <<>>, csvSchema)} :
       CsvBatched(table, returned) \/ (~table.ok /\ CsvFail)

\* next_batch, after blank lines.
CsvPull(returned) ==
  /\ CsvReading
  /\ \E left \in {CsvSkip(SubSeq(csvText, csvAt + 1, Len(csvText)))} :
       IF csvFinished \/ left = <<>> THEN CsvNoBatch
       ELSE CsvBatch(left, CsvTake(left, CsvLimit), returned)
  /\ UNCHANGED <<csvOptions, csvWritten, csvText>>

CsvNextBatch == CsvPull(TRUE)

\* schema: the fields; before the first batch it reads that, and drops it.
CsvGetSchema == csvSchema = <<>> /\ ~csvFinished /\ CsvPull(FALSE)

CsvNext == CsvWrite \/ CsvLoadTable \/ CsvNextBatch \/ CsvGetSchema

CsvSpec == CsvInit /\ [][CsvNext]_csvvars

------------------------------------------------------------------------------
(* Properties.                                                             *)

CsvAll == FlattenSeq(csvTables)
CsvExpected ==
  [r \in DOMAIN CsvAll |-> [c \in DOMAIN CsvAll[r] |-> CsvValue(CsvAll[r][c], "text")]]

\* The first n rows show the types of all.
CsvTypesBy(n) ==
  csvTyped => \A c \in DOMAIN CsvAll[1] :
    CsvInfer(CsvColumn(CsvAll, c), n) = CsvInfer(CsvColumn(CsvAll, c), Len(CsvAll))

CsvEmptyLine(row) == row = <<CsvNull>>

\* What is written is read by load_table: cells with quotes, delimiters and
\* newlines, rows of every table in order, blanks as nulls.  Not promised: a
\* blank line where no header precedes it, a last line that ends in a delimiter
\* and no newline, and columns whose sample has another type.
CsvRoundTrip ==
  (/\ csvHeader \/ ~CsvEmptyLine(CsvAll[1])
   /\ csvEnded \/ Last(Last(CsvAll)) # CsvNull
   /\ CsvTypesBy(CsvSample))
  => /\ csvEnd = "loaded" => csvRows = CsvExpected
     /\ csvEnd = "failed" => csvSchema # <<>> \/ csvAt < Len(csvText)

\* Batches, of any size, are the rows of the file in order, and next_batch says
\* there are no more only after the last; schema() before next_batch costs the
\* caller the first of them.  Not promised: cells with newlines,
\* blank lines, and columns whose first batch has another type.
CsvBatchesAgree ==
  (/\ \A r \in DOMAIN CsvAll : ~CsvEmptyLine(CsvAll[r])
   /\ \A r \in DOMAIN CsvAll : \A c \in DOMAIN CsvAll[r] : Newline \notin ToSet(CsvAll[r][c])
   /\ CsvTypesBy(Min({CsvSample, csvBatch})) /\ csvEnd # "loaded")
  => /\ csvRows = SubSeq(CsvExpected, csvDropped + 1, csvDropped + Len(csvRows))
     /\ csvEnd = "end" => csvDropped + Len(csvRows) = Len(CsvExpected)
=============================================================================
