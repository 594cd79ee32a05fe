--------------------------------- MODULE Files ---------------------------------
(***************************************************************************)
(* Arrow IPC files.  TableStreamWriter encodes tables into frames and      *)
(* notes where each block lies, for the footer; SyncTableWriter and the    *)
(* async sink drain the frames into the file; FileTableReader finds the    *)
(* blocks by the footer and cuts batches into windows of rows.             *)
(*                                                                         *)
(* A file is a sequence of units of 8 bytes: what is padded to them on the *)
(* way is not modelled, and the bytes of a unit are its frame and place.   *)
(***************************************************************************)
EXTENDS Integers, Sequences, SequencesExt

CONSTANTS
  FlTables,    \* the sequences of tables: [meta, body, rows], sizes in units
  FlTargets,   \* target_bytes of batch_windows, in units
  FlStep,      \* 512: windows start at a multiple of it
  FlGoesOn,    \* whether a caller goes on writing after a write has failed
  FlMaxFaults  \* bound: refused tables and failed writes

ASSUME FlAssumption ==
  /\ FlTables \subseteq Seq([meta : Nat \ {0}, body : Nat, rows : Nat])
  /\ FlTargets \subseteq Nat /\ FlStep \in Nat \ {0}
  /\ FlGoesOn \in BOOLEAN /\ FlMaxFaults \in Nat

VARIABLES
  flTables,    \* the tables to be written
  flCoded,     \* whether the schema has a dictionary column
  flHow,       \* "each": drained per table; "end": write_tables_to_stream;
               \* "open": write_table_to_file, which never finishes
  flNext,      \* tables offered to the writer so far
  flState,     \* WriterState: Fresh, SchemaDone, Closed
  flDicts,     \* whether the dictionary is written: written_dict_ids
  flOffset,    \* total_len_offset
  flBlocks,    \* blocks_dictionaries and blocks_record_batches
  flQueue,     \* out_frames
  flBusy,      \* a call is draining them
  flFile,
  flFailed,    \* a write to the file has failed
  flAccepted,  \* the tables whose write returned Ok
  flRead,      \* what a reader gets from the file as it is: not yet
               \* known, refused, garbage, or the rows of its batches
  flFaults

flInput == <<flTables, flCoded, flHow>>
flEncoder == <<flNext, flState, flDicts, flOffset, flBlocks, flAccepted>>
flvars == <<flInput, flEncoder, flQueue, flBusy, flFile, flFailed, flRead, flFaults>>

------------------------------------------------------------------------------
(* Frames.                                                                 *)

FlSchema == -1
FlDictionary == 0

\* Continuation marker and length, then metadata, then body; the first frame
\* has the magic before them.
FlMeta(id) == IF id \in {FlSchema, FlDictionary} THEN 1 ELSE flTables[id].meta
FlBody(id) ==
  IF id = FlSchema THEN 0 ELSE IF id = FlDictionary THEN 1 ELSE flTables[id].body
FlUnits(id, kind, n) == [k \in 1 .. n |-> <<kind, id, k>>]
FlMessage(id) ==
  FlUnits(id, "head", 1) \o FlUnits(id, "meta", FlMeta(id)) \o FlUnits(id, "body", FlBody(id))
FlFrame(id, first) == (IF first THEN <<<<"magic">>>> ELSE <<>>) \o FlMessage(id)

\* The end marker, the footer, its length with the closing magic.
FlClosing(blocks, first) ==
  (IF first THEN <<<<"magic">>>> ELSE <<>>)
    \o <<<<"eos">>, <<"footer", blocks>>, <<"tail">>>>

\* Mutant: the magic before the first frame is not counted.
FlFrameLenNoMagic(id, first) == Len(FlMessage(id))

\* frame_len.
FlFrameLen(id, first) == Len(FlFrame(id, first))

------------------------------------------------------------------------------
(* Writing.                                                                *)

FlGot(how, rows) == [how |-> how, rows |-> rows]

FlInit ==
  /\ flTables \in FlTables /\ flCoded \in BOOLEAN
  /\ flHow \in {"each", "end", "open"}
  /\ flNext = 0 /\ flState = "Fresh" /\ flDicts = FALSE
  /\ flOffset = 0 /\ flBlocks = [dicts |-> <<>>, batches |-> <<>>] /\ flAccepted = <<>>
  /\ flQueue = <<>> /\ flBusy = FALSE /\ flFile = <<>> /\ flFailed = FALSE
  /\ flRead = FlGot("none", <<>>) /\ flFaults = 0

\* emit_frame.  A block is where its frame starts and how long the message's
\* metadata, with the header, and body are.
FlSoFar == [offset |-> flOffset, blocks |-> flBlocks, frames |-> flQueue]
FlNoted(blocks, block) ==
  [dicts |-> IF block.id = FlDictionary THEN Append(blocks.dicts, block) ELSE blocks.dicts,
   batches |-> IF block.id > FlDictionary THEN Append(blocks.batches, block) ELSE blocks.batches]
FlEmitted(e, id) ==
  LET first == e.offset = 0 IN
    [offset |-> e.offset + FlFrameLen(id, first),
     blocks |-> FlNoted(e.blocks, [id |-> id, offset |-> e.offset,
                                   meta |-> 1 + FlMeta(id), body |-> FlBody(id)]),
     frames |-> Append(e.frames, FlFrame(id, first))]
FlEmit(e) == flOffset' = e.offset /\ flBlocks' = e.blocks /\ flQueue' = e.frames

\* The schema, if nothing is written yet, and the dictionary, if it is not.
FlAhead ==
  LET schema == IF flState = "Fresh" THEN FlEmitted(FlSoFar, FlSchema) ELSE FlSoFar IN
    IF flCoded /\ ~flDicts THEN FlEmitted(schema, FlDictionary) ELSE schema

\* write: the schema once, the dictionary once, then the batch - unless it
\* cannot be encoded, and then what comes before it stays queued, or
\* write_tables_to_stream gives up.
FlWrite ==
  /\ flState # "Closed" /\ flNext < Len(flTables)
  /\ ~flBusy /\ (~flFailed \/ FlGoesOn)
  /\ flNext' = flNext + 1
  /\ flState' = "SchemaDone" /\ flDicts' = (flDicts \/ flCoded)
  /\ \/ /\ FlEmit(FlEmitted(FlAhead, flNext + 1))
        /\ flAccepted' = Append(flAccepted, flNext + 1)
        /\ flBusy' = (flHow # "end")
        /\ UNCHANGED <<flFaults, flFailed>>
     \/ /\ flFaults < FlMaxFaults /\ flFaults' = flFaults + 1
        /\ FlEmit(FlAhead)
        /\ flFailed' = (flFailed \/ flHow = "end")
        /\ UNCHANGED <<flAccepted, flBusy>>
  /\ UNCHANGED <<flInput, flFile, flRead>>

\* finish: the footer, behind whatever frames there are.
FlFinish ==
  /\ flState # "Closed" /\ flHow # "open"
  /\ flNext = Len(flTables)
  /\ ~flBusy /\ (~flFailed \/ FlGoesOn)
  /\ flState' = "Closed" /\ flBusy' = TRUE
  /\ flQueue' = Append(flQueue, FlClosing(flBlocks, flOffset = 0))
  /\ UNCHANGED <<flInput, flNext, flDicts, flOffset, flBlocks, flAccepted, flFile,
                 flFailed, flRead, flFaults>>

\* drain_frames: a frame is popped and written; if that fails a part of it is
\* in the file, and the rest of it is gone.
FlDrain ==
  /\ flBusy
  /\ flQueue' = Tail(flQueue)
  /\ \/ /\ flFile' = flFile \o Head(flQueue)
        /\ flBusy' = (flQueue' # <<>>)
        /\ UNCHANGED <<flAccepted, flFailed, flFaults>>
     \/ /\ flFaults < FlMaxFaults /\ flFaults' = flFaults + 1
        /\ \E n \in 0 .. Len(Head(flQueue)) - 1 :
             flFile' = flFile \o SubSeq(Head(flQueue), 1, n)
        /\ flFailed' = TRUE /\ flBusy' = FALSE
        /\ flAccepted' = IF flState = "Closed" THEN flAccepted ELSE Front(flAccepted)
  /\ flRead' = FlGot("none", <<>>)
  /\ UNCHANGED <<flInput, flNext, flState, flDicts, flOffset, flBlocks>>

------------------------------------------------------------------------------
(* Reading.                                                                *)

\* open: the closing magic, the footer before it, and no block outside the file.
FlFooter(file) == file[Len(file) - 1][2]
FlNotedIn(file) == Range(FlFooter(file).dicts) \cup Range(FlFooter(file).batches)
FlOpens(file) ==
  /\ Len(file) > 2 /\ file[Len(file)] = <<"tail">>
  /\ \A blk \in FlNotedIn(file) :
       blk.offset >= 1 /\ blk.offset + blk.meta + blk.body <= Len(file)

\* read_block and parse_frame_header: a block is where its message is.  What
\* is read where it is not is an error or garbage.
FlWhole(file, blk) ==
  SubSeq(file, blk.offset + 1, blk.offset + blk.meta + blk.body) = FlMessage(blk.id)

\* The rows of a window that starts at off.
FlWindowRows(rows, off, stride) == IF stride < rows - off THEN stride ELSE rows - off

\* batch_windows: every window but the last is a multiple of the step.
FlAtLeast(n, least) == IF n < least THEN least ELSE n
FlAtMost(n, most) == IF n > most THEN most ELSE n
FlStride(rows, body, target) ==
  LET perRow == FlAtLeast(body \div FlAtLeast(rows, 1), 1) IN
    FlAtMost(FlAtLeast(((target \div perRow) \div FlStep) * FlStep, FlStep), FlAtLeast(rows, 1))
FlWindows(rows, body, target) ==
  LET stride == FlStride(rows, body, target)
      count == (FlAtLeast(rows, 1) + stride - 1) \div stride
  IN [k \in 1 .. count |->
        [off |-> (k - 1) * stride, len |-> FlWindowRows(rows, (k - 1) * stride, stride)]]

\* window_table: the rows of a window, or an error for one that starts between
\* two steps or ends behind the table.
FlCut(i, rows, w) ==
  IF w.off = 0 /\ w.len = rows THEN [r \in 1 .. rows |-> <<i, r>>]
  ELSE IF w.off % FlStep # 0 \/ w.off + w.len > rows THEN <<<<0, 0>>>>
  ELSE [r \in 1 .. w.len |-> <<i, w.off + r>>]

\* A batch, in windows, put together again.
FlRows(i, target) ==
  LET t == flTables[i]
      ws == FlWindows(t.rows, t.body, target)
      upto[k \in 0 .. Len(ws)] ==
        IF k = 0 THEN <<>> ELSE upto[k - 1] \o FlCut(i, t.rows, ws[k])
  IN upto[Len(ws)]

\* open, load_all_dictionaries, load_batched, and batch_windows of each batch.
FlLoad(file, target) ==
  IF ~FlOpens(file) THEN FlGot("refused", <<>>)
  ELSE IF \E blk \in FlNotedIn(file) : ~FlWhole(file, blk) THEN FlGot("garbage", <<>>)
  ELSE LET tables == FlFooter(file).batches IN
         FlGot("ok", [b \in DOMAIN tables |-> FlRows(tables[b].id, target)])

FlOpen ==
  /\ flRead.how = "none"
  /\ \E target \in FlTargets : flRead' = FlLoad(flFile, target)
  /\ UNCHANGED <<flInput, flEncoder, flQueue, flBusy, flFile, flFailed, flFaults>>

FlNext == FlWrite \/ FlFinish \/ FlDrain \/ FlOpen

FlSpec == FlInit /\ [][FlNext]_flvars

------------------------------------------------------------------------------
(* Properties                                                              *)

\* All rows of the tables whose write returned Ok.
FlWritten ==
  [k \in DOMAIN flAccepted |->
     [r \in 1 .. flTables[flAccepted[k]].rows |-> <<flAccepted[k], r>>]]

\* The end of the file is there.
FlClosed == flFile # <<>> /\ flFile[Len(flFile)] = <<"tail">>

\* A file whose footer was written gives back the tables whose write returned
\* Ok, each in its place and every row in exactly one window; before that, and
\* after a failure, it is refused and never half read.
FileReadsBack ==
  flRead.how # "none" =>
    IF FlClosed THEN flRead = FlGot("ok", FlWritten) ELSE flRead.how = "refused"
==============================================================================
