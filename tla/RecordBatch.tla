------------------------------ MODULE RecordBatch ------------------------------
(***************************************************************************)
(* A record batch on its way: compute_body_layout and encode_record_batch  *)
(* turn a window of rows into a body of aligned buffers; decode_record_    *)
(* batch walks the buffers by an index of its own, column after column,    *)
(* and hands out views; window_table cuts the decoded table once more.     *)
(*                                                                         *)
(* A buffer is a sequence of cells: a value, RbByte bits, an offset, a     *)
(* character, padding - each of the size of an address.  The flatbuffer is *)
(* the record of what it says.                                             *)
(***************************************************************************)
EXTENDS Integers, Sequences, SequencesExt, FiniteSets

CONSTANTS
  RbTables, \* tables: sequences of columns [kind, nullable, mask, values, uniques]
  RbByte,   \* bits of a byte: 8
  RbAlign,  \* B::ALIGN
  RbStep    \* rows a window starts at a multiple of: 512

\* "other" is any type the encoder has no layout for.
RbKinds == {"fixed", "bool", "string", "dictionary", "other"}

RbValues(kind) == IF kind = "bool" THEN BOOLEAN ELSE IF kind = "string" THEN Seq(Int) ELSE Int

\* A column has a value in each row; its mask says which are valid, or is <<>>.
ASSUME RbAssumption ==
  /\ RbByte \in Nat \ {0} /\ RbAlign \in Nat \ {0}
  /\ RbStep \in Nat \ {0} /\ RbStep % (RbByte * RbAlign) = 0
  /\ \A t \in RbTables :
       /\ Len(t) \in Nat \ {0} /\ DOMAIN t = 1 .. Len(t)
       /\ \A c \in DOMAIN t :
            /\ t[c].kind \in RbKinds /\ t[c].nullable \in BOOLEAN
            /\ t[c].values \in Seq(RbValues(t[c].kind)) /\ t[c].mask \in Seq(BOOLEAN)
            /\ Len(t[c].values) = Len(t[1].values)
            /\ Len(t[c].mask) \in {0, Len(t[1].values)}

VARIABLES
  rbTable,  \* the table
  rbView,   \* [off, len]: the rows that are sent
  rbZip,    \* whether bodies are compressed
  rbWanted, \* the columns that are decoded
  rbPhase,  \* encode, sent, decode, read, cut, refused
  rbFrame,  \* what is sent: nodes, buffers, dictionaries and body
  rbBatch,  \* the body being decoded, where it starts, and its buffers
  rbDicts,  \* the decoder's dictionaries
  rbIndex,  \* buffer_idx
  rbCol,    \* columns walked past
  rbCols,   \* the decoded columns
  rbCut     \* the rows of the decoded table that are kept

rbInput == <<rbTable, rbView, rbZip, rbWanted>>
rbvars == <<rbInput, rbPhase, rbFrame, rbBatch, rbDicts, rbIndex, rbCol, rbCols, rbCut>>

RbNone == <<>>

------------------------------------------------------------------------------
(* Buffers.                                                                *)

\* align_to: the padding behind n bytes.
RbPad(n) == (RbAlign - (n % RbAlign)) % RbAlign
RbFill(n) == [i \in 1 .. n |-> <<"pad">>]

\* div_ceil(8).
RbBytes(n) == (n + RbByte - 1) \div RbByte

\* How Minarrow keeps bits.
RbPacked(bits) ==
  [i \in 1 .. RbBytes(Len(bits)) |->
     <<"bits", [k \in 1 .. RbByte |-> LET j == (i - 1) * RbByte + k IN j <= Len(bits) /\ bits[j]]>>]

\* Mutant: the window starts at the byte its first bit is in.
RbUnshifted(bytes, shift, n) == SubSeq(bytes, 1, n)

\* RegionBytes::Bits: bytes shifted down, each filled up from the next.
RbShifted(bytes, shift, n) ==
  [i \in 1 .. n |->
     <<"bits", [k \in 1 .. RbByte |->
        IF shift + k <= RbByte THEN bytes[i][2][shift + k]
        ELSE i < Len(bytes) /\ bytes[i + 1][2][shift + k - RbByte]]>>]

\* window_bits: bytes as they are where the window starts on one.
RbWindowBits(bits, off, len) ==
  LET bytes == RbPacked(bits)
      n == RbBytes(len)
      first == off \div RbByte
  IN IF off % RbByte = 0 THEN SubSeq(bytes, first + 1, first + n)
     ELSE RbShifted(SubSeq(bytes, first + 1, RbBytes(off + len)), off % RbByte, n)

RbInts(values) == [i \in DOMAIN values |-> <<"value", values[i]>>]

\* Where each string starts, and the last one ends; and their characters.
RbOffsets(strings) ==
  LET end[i \in 0 .. Len(strings)] == IF i = 0 THEN 0 ELSE end[i - 1] + Len(strings[i])
  IN [i \in 1 .. Len(strings) + 1 |-> end[i - 1]]
RbChars(strings) == RbInts(FlattenSeq(strings))

\* Offsets are written less the first: RegionBytes::OffsetsU32 and rebase_offsets.
RbRebase(offsets) == [i \in DOMAIN offsets |-> offsets[i] - offsets[1]]
RbOffsetCells(offsets) == [i \in DOMAIN offsets |-> <<"offset", offsets[i]>>]

------------------------------------------------------------------------------
(* Encoding.                                                               *)

\* A region; the null region of a column without nulls is not in the body.
RbRegion(data) == [data |-> data, absent |-> FALSE]
RbNullRegion(col, off, len) ==
  IF col.nullable /\ col.mask # RbNone THEN RbRegion(RbWindowBits(col.mask, off, len))
  ELSE [data |-> <<>>, absent |-> TRUE]

\* The data regions of a column, by its type.
RbStringRegions(strings, off, len) ==
  LET offsets == SubSeq(RbOffsets(strings), off + 1, off + len + 1) IN
    << RbRegion(RbOffsetCells(RbRebase(offsets))),
       RbRegion(SubSeq(RbChars(strings), offsets[1] + 1, offsets[len + 1])) >>
RbDataRegions(col, off, len) ==
  CASE col.kind = "bool" -> <<RbRegion(RbWindowBits(col.values, off, len))>>
    [] col.kind = "string" -> RbStringRegions(col.values, off, len)
    [] OTHER -> <<RbRegion(RbInts(SubSeq(col.values, off + 1, off + len)))>>

\* compute_body_layout.
RbRegions(table, off, len) ==
  FlattenSeq([c \in DOMAIN table |->
     <<RbNullRegion(table[c], off, len)>> \o RbDataRegions(table[c], off, len)])

\* A compressed buffer: its length, and what takes the place of its cells.
RbCompress(data) == IF data = <<>> THEN <<>> ELSE << <<"length", Len(data)>>, <<"zip", data>> >>
RbWire(region, zip) ==
  IF zip THEN [data |-> RbCompress(region.data), absent |-> FALSE] ELSE region

\* The regions of a body one behind the other, padded, and their descriptors.
RbAppend(body, region) ==
  [cells |-> body.cells \o region.data \o RbFill(RbPad(Len(region.data))),
   buffers |-> Append(body.buffers,
     [off |-> IF region.absent THEN 0 ELSE Len(body.cells), len |-> Len(region.data)])]
RbBody(regions, zip) ==
  LET upto[k \in 0 .. Len(regions)] ==
        IF k = 0 THEN [cells |-> <<>>, buffers |-> <<>>]
        ELSE RbAppend(upto[k - 1], RbWire(regions[k], zip))
  IN upto[Len(regions)]

\* null_count of a window of a column.
RbNulls(col, off, len) ==
  IF col.mask = RbNone THEN 0 ELSE Cardinality({i \in off + 1 .. off + len : ~col.mask[i]})

\* encode_flatbuf_dictionary.
RbDictionary(uniques) == [offsets |-> RbOffsets(uniques), chars |-> RbChars(uniques)]

\* encode_record_batch.  The metadata is of any length; the body behind it is
\* padded to start on a boundary.
RbEncode ==
  /\ rbPhase = "encode"
  /\ IF \E c \in DOMAIN rbTable : rbTable[c].kind = "other"
     THEN rbPhase' = "refused" /\ UNCHANGED rbFrame
     ELSE \E meta \in 1 .. RbAlign :
       LET body == RbBody(RbRegions(rbTable, rbView.off, rbView.len), rbZip) IN
         /\ rbFrame' =
              [nodes |-> [c \in DOMAIN rbTable |->
                 [len |-> rbView.len, nulls |-> RbNulls(rbTable[c], rbView.off, rbView.len)]],
               dicts |-> [c \in DOMAIN rbTable |-> RbDictionary(rbTable[c].uniques)],
               buffers |-> body.buffers, body |-> body.cells, at |-> meta + RbPad(meta)]
         /\ rbPhase' = "sent"
  /\ UNCHANGED <<rbInput, rbBatch, rbDicts, rbIndex, rbCol, rbCols, rbCut>>

------------------------------------------------------------------------------
(* Decoding.                                                               *)

\* parse_dictionary_strings; it wants two offsets at least.
RbStrings(dict) ==
  [i \in 1 .. Len(dict.offsets) - 1 |->
     SubSeq(dict.chars, dict.offsets[i] + 1, dict.offsets[i + 1])]
RbDictionaryOK(c) == rbTable[c].kind = "dictionary" => Len(rbFrame.dicts[c].offsets) >= 2

\* Mutant: decompressed buffers follow each other without a gap.
RbNoGap(n) == 0

\* The gap behind n decompressed bytes.
RbGap(n) == RbPad(n)

\* decompress_ipc_body: the buffers anew, and the corrections that say where.
RbInflated(frame, z, b) ==
  IF b.len = 0 THEN [z EXCEPT !.buffers = Append(@, [off |-> Len(z.body), len |-> 0])]
  ELSE LET len == frame.body[b.off + 1][2]
           data == frame.body[b.off + 2][2]
       IN [z EXCEPT !.buffers = Append(@, [off |-> Len(z.body), len |-> len]),
                    !.body = @ \o data \o RbFill(RbGap(Len(@) + len))]
RbDecompressed(frame) ==
  LET upto[k \in 0 .. Len(frame.buffers)] ==
        IF k = 0 THEN [body |-> <<>>, at |-> 0, buffers |-> <<>>]
        ELSE RbInflated(frame, upto[k - 1], frame.buffers[k])
  IN upto[Len(frame.buffers)]

\* The dictionaries of the frames before, and the batch as far as its columns.
RbReceive ==
  /\ rbPhase = "sent"
  /\ IF \E c \in DOMAIN rbTable : ~RbDictionaryOK(c)
     THEN rbPhase' = "refused" /\ UNCHANGED <<rbDicts, rbBatch>>
     ELSE /\ rbDicts' = [c \in DOMAIN rbFrame.dicts |-> RbStrings(rbFrame.dicts[c])]
          /\ rbBatch' = IF rbZip THEN RbDecompressed(rbFrame)
                        ELSE [body |-> rbFrame.body, at |-> rbFrame.at, buffers |-> rbFrame.buffers]
          /\ rbPhase' = "decode"
  /\ UNCHANGED <<rbInput, rbFrame, rbIndex, rbCol, rbCols, rbCut>>

\* A view of buffer i: its cells, and its address.
RbBuffer(i) ==
  LET b == rbBatch.buffers[i + 1] IN
    [cells |-> SubSeq(rbBatch.body, b.off + 1, b.off + b.len), at |-> rbBatch.at + b.off]
RbInside(i) ==
  /\ i < Len(rbBatch.buffers)
  /\ rbBatch.buffers[i + 1].off + rbBatch.buffers[i + 1].len <= Len(rbBatch.body)

\* extract_null_mask takes a buffer for a nullable column; otherwise only one
\* that is empty or of the size of a mask.
RbMaskTaken(col, rows) ==
  \/ col.nullable
  \/ rbIndex < Len(rbBatch.buffers) /\ rbBatch.buffers[rbIndex + 1].len \in {0, RbBytes(rows)}

\* A nullable column has one, inside the body where it is looked at.
RbMaskOK(col, node) ==
  col.nullable =>
    /\ rbIndex < Len(rbBatch.buffers)
    /\ node.nulls = 0 \/ rbBatch.buffers[rbIndex + 1].len = 0 \/ RbInside(rbIndex)

\* The mask: none, all valid where the node counts no nulls, or a view.
RbMask(col, node) ==
  IF ~col.nullable THEN RbNone
  ELSE IF node.nulls = 0 \/ rbBatch.buffers[rbIndex + 1].len = 0
    THEN <<[cells |-> RbPacked([i \in 1 .. node.len |-> TRUE]), at |-> 0]>>
    ELSE <<RbBuffer(rbIndex)>>

\* data_buffer_count.
RbDataBuffers(kind) == IF kind = "string" THEN 2 ELSE 1

\* A column is built from its buffers, which lie inside the body, or skipped.  The
\* copy of a boolean column's values is not told from a view of them.
RbColumn ==
  LET c == rbCol + 1
      col == rbTable[c]
      node == rbFrame.nodes[c]
      first == rbIndex + (IF RbMaskTaken(col, node.len) THEN 1 ELSE 0)
      taken == IF col.kind = "string" THEN 2 ELSE 1
  IN /\ rbPhase = "decode" /\ rbCol < Len(rbTable)
     /\ rbCol' = c
     /\ IF ~RbMaskOK(col, node)
        THEN rbPhase' = "refused" /\ UNCHANGED <<rbIndex, rbCols>>
        ELSE IF c \notin rbWanted
        THEN rbIndex' = first + RbDataBuffers(col.kind) /\ UNCHANGED <<rbCols, rbPhase>>
        ELSE IF \E i \in first .. first + taken - 1 : ~RbInside(i)
        THEN rbPhase' = "refused" /\ UNCHANGED <<rbIndex, rbCols>>
        ELSE /\ rbIndex' = first + taken
             /\ rbCols' = Append(rbCols,
                  [col |-> c, mask |-> RbMask(col, node),
                   data |-> [k \in 1 .. taken |-> RbBuffer(first + k - 1)]])
             /\ UNCHANGED rbPhase
     /\ UNCHANGED <<rbInput, rbFrame, rbBatch, rbDicts, rbCut>>

RbDecoded ==
  /\ rbPhase = "decode" /\ rbCol = Len(rbTable)
  /\ rbPhase' = "read"
  /\ UNCHANGED <<rbInput, rbFrame, rbBatch, rbDicts, rbIndex, rbCol, rbCols, rbCut>>

------------------------------------------------------------------------------
(* Windows of the decoded table.                                           *)

\* window_buffer, and window_mask with the bits of a boolean column.
RbPart(buffer, off, len) ==
  [cells |-> SubSeq(buffer.cells, off + 1, off + len), at |-> buffer.at + off]
RbBitsPart(buffer, off, len) == RbPart(buffer, off \div RbByte, RbBytes(len))

\* window_string: offsets move to a buffer of their own unless they start at 0.
RbStringPart(data, off, len) ==
  LET offsets == [i \in 1 .. len + 1 |-> data[1].cells[off + i][2]] IN
    << IF off = 0 THEN RbPart(data[1], 0, len + 1)
       ELSE [cells |-> RbOffsetCells(RbRebase(offsets)), at |-> 0],
       RbPart(data[2], offsets[1], offsets[len + 1] - offsets[1]) >>

\* window_array.
RbArrayPart(col, kind, off, len) ==
  [col EXCEPT
     !.mask = [k \in DOMAIN @ |-> RbBitsPart(@[k], off, len)],
     !.data = CASE kind = "bool" -> <<RbBitsPart(@[1], off, len)>>
                [] kind = "string" -> RbStringPart(@, off, len)
                [] OTHER -> <<RbPart(@[1], off, len)>>]

\* window_table: all of it, or rows from a multiple of RbStep on.
RbWindow ==
  /\ rbPhase = "read"
  /\ \E off \in 0 .. rbView.len, len \in 0 .. rbView.len :
       /\ off + len <= rbView.len /\ off % RbStep = 0
       /\ rbCut' = [off |-> off, len |-> len]
       /\ rbCols' = [k \in DOMAIN rbCols |->
            RbArrayPart(rbCols[k], rbTable[rbCols[k].col].kind, off, len)]
  /\ rbPhase' = "cut"
  /\ UNCHANGED <<rbInput, rbFrame, rbBatch, rbDicts, rbIndex, rbCol>>

------------------------------------------------------------------------------
RbInit ==
  /\ rbTable \in RbTables
  /\ LET rows == Len(rbTable[1].values) IN
       rbView \in {[off |-> o, len |-> n] : o \in 0 .. rows, n \in 0 .. rows}
         /\ rbView.off + rbView.len <= rows
  /\ rbZip \in BOOLEAN /\ rbWanted \in SUBSET (DOMAIN rbTable)
  /\ rbPhase = "encode"
  /\ rbFrame = RbNone /\ rbBatch = RbNone /\ rbDicts = RbNone
  /\ rbIndex = 0 /\ rbCol = 0 /\ rbCols = <<>>
  /\ rbCut = [off |-> 0, len |-> rbView.len]

RbNext == RbEncode \/ RbReceive \/ RbColumn \/ RbDecoded \/ RbWindow

RbSpec == RbInit /\ [][RbNext]_rbvars

------------------------------------------------------------------------------
(* Properties.                                                             *)

\* What a decoded column shows in a row: a bit, a string, a category, a value.
RbBit(cells, r) == cells[((r - 1) \div RbByte) + 1][2][((r - 1) % RbByte) + 1]
RbText(data, r) == SubSeq(data[2].cells, data[1].cells[r][2] + 1, data[1].cells[r + 1][2])
RbShown(col, r) ==
  LET kind == rbTable[col.col].kind
      data == col.data
  IN IF col.mask # RbNone /\ ~RbBit(col.mask[1].cells, r) THEN <<"null">>
     ELSE CASE kind = "bool" -> <<"bit", RbBit(data[1].cells, r)>>
            [] kind = "string" -> <<"text", RbText(data, r)>>
            [] kind = "dictionary" -> <<"text", rbDicts[col.col][data[1].cells[r][2] + 1]>>
            [] OTHER -> data[1].cells[r]

\* What was put into the row.
RbPut(c, r) ==
  LET col == rbTable[c] IN
    IF col.nullable /\ col.mask # RbNone /\ ~col.mask[r] THEN <<"null">>
    ELSE CASE col.kind = "bool" -> <<"bit", col.values[r]>>
           [] col.kind = "string" -> <<"text", RbChars(<<col.values[r]>>)>>
           [] col.kind = "dictionary" -> <<"text", RbChars(<<col.uniques[col.values[r] + 1]>>)>>
           [] OTHER -> <<"value", col.values[r]>>

\* The wanted columns come back with the rows of the window that was sent, or of
\* a window of it: values, nulls, strings and categories, wherever the windows
\* start within a byte or a string, compressed or not, whichever columns are
\* skipped; and a table that was sent is not refused (compute_body_layout,
\* decode_record_batch, window_table).  Not promised: a dictionary without
\* values, which the encoder sends and the decoder refuses.
RbRoundTrip ==
  (\A c \in DOMAIN rbTable : rbTable[c].kind = "dictionary" => rbTable[c].uniques # <<>>)
  => /\ rbPhase = "refused" => \E c \in DOMAIN rbTable : rbTable[c].kind = "other"
     /\ rbPhase \in {"read", "cut"} =>
          /\ [k \in DOMAIN rbCols |-> rbCols[k].col] = SetToSortSeq(rbWanted, <)
          /\ \A k \in DOMAIN rbCols, r \in 1 .. rbCut.len :
               RbShown(rbCols[k], r) = RbPut(rbCols[k].col, rbView.off + rbCut.off + r)

\* Every buffer a decoded table views lies on a boundary, compressed or not, and
\* so do the masks, the bits and the values of a window of it ("so bit-packed and
\* fixed-width buffers cut on 64-byte boundaries", readers/ipc/file_table.rs).
RbViewsAligned ==
  rbPhase \in {"read", "cut"} =>
    \A k \in DOMAIN rbCols :
      LET col == rbCols[k]
          cut == rbPhase = "cut" /\ rbTable[col.col].kind = "string"
      IN \A b \in ToSet(col.mask) \cup {col.data[i] : i \in IF cut THEN {1} ELSE DOMAIN col.data} :
           b.cells # <<>> => b.at % RbAlign = 0
==============================================================================
