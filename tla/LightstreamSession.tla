------------------------- MODULE LightstreamSession -------------------------
(***************************************************************************)
(* LightstreamSession: one direction of a Lightstream connection, from the *)
(* writer's calls to the reader's poll_next.  Messages and tables travel   *)
(* in TLV frames [tag, length, payload]; the payload of a table holds the  *)
(* Arrow IPC frames of its codec, the schema and the dictionary only the   *)
(* first time, so that both ends keep state per registered type.           *)
(*                                                                         *)
(* The transport is a sequence of cells [k, v]: a tag, a length, or a unit *)
(* of a payload.  A read takes any number of the cells that have arrived.  *)
(* A call of the writer appends its whole frame, since a read that sees    *)
(* only part of a frame is the same whether the rest is still on its way   *)
(* or not yet written; calls dropped in the middle of a write are left out.*)
(***************************************************************************)
EXTENDS Integers, Sequences

CONSTANTS
  Registry,   \* the types both ends register, in this order
  Tables,     \* the tables there are to send: [cats, sound]
  MsgLens,    \* the lengths of the messages there are to send
  TagRange,   \* the number of values of a u8
  LenRange,   \* the number of values of the length field
  MaxFrame,   \* max_frame_bytes of the reader's limits
  MaxSends    \* bound: calls of the writer

\* `cats` is the dictionary of the table's categorical column, as a number;
\* a table that is not `sound` holds a column the encoder has no layout for.
ASSUME SessionAssumption ==
  /\ Registry \in Seq([name : STRING, kind : {"Message", "Table"}, dict : BOOLEAN])
  /\ Tables \subseteq [cats : Nat \ {0}, sound : BOOLEAN]
  /\ MsgLens \subseteq Nat
  /\ TagRange \in Nat \ {0} /\ LenRange \in Nat \ {0}
  /\ MaxFrame \in Nat /\ MaxSends \in Nat

VARIABLES
  types,      \* the writer's types and name_index: [list, index]
  encoder,    \* per tag: [state, written] of its TableStreamEncoder
  encodeBuf,  \* the pooled encode_buf of send_table
  wire,       \* cells written and not yet read
  transport,  \* open; ended: the writer shut it down; reset
  known,      \* how many types the reader has registered
  decoder,    \* per tag: [fields, dicts] of its ArrowIpcCodec
  header,     \* header[..header_filled]
  target,     \* payload_target
  payload,    \* the payload read so far
  eof,        \* end of the source, an error of it, or a frame over the limit
  sent,       \* the frames handed to the transport
  refused,    \* the tags with a table that the encoder refused
  answers,    \* what poll_next yielded, one per frame
  ended       \* what poll_next yields for the stream: no, failed, clean

wvars == <<types, encoder, encodeBuf, sent, refused>>
rvars == <<known, decoder, header, target, payload, eof, answers, ended>>
vars == <<wvars, rvars, wire, transport>>

HeaderSize == 2
NoCats == 0
Tags == 0 .. Len(Registry) - 1

Cell(k, v) == [k |-> k, v |-> v]
Type(tag) == types.list[tag + 1]

Init ==
  /\ types = [list |-> <<>>, index |-> [n \in {} |-> 0]]
  /\ encoder = [t \in Tags |-> [state |-> "Fresh", written |-> FALSE]]
  /\ encodeBuf = <<>>
  /\ wire = <<>> /\ transport = "open"
  /\ known = 0
  /\ decoder = [t \in Tags |-> [fields |-> FALSE, dicts |-> NoCats]]
  /\ header = <<>> /\ target = 0 /\ payload = <<>> /\ eof = FALSE
  /\ sent = <<>> /\ refused = {} /\ answers = <<>> /\ ended = "no"

------------------------------------------------------------------------------
(* The writer.                                                             *)

\* The new type's tag is the number of types before it, cut to a u8; a name
\* registered twice stands for the later type.
Register(list, index, type) ==
  LET tag == Len(list) % TagRange IN
    [list |-> Append(list, type),
     index |-> [n \in DOMAIN index \cup {type.name} |->
                  IF n = type.name THEN tag ELSE index[n]]]

WriterRegister ==
  /\ Len(types.list) < Len(Registry)
  /\ types' = Register(types.list, types.index, Registry[Len(types.list) + 1])
  /\ UNCHANGED <<encoder, encodeBuf, sent, refused, rvars, wire, transport>>

Frame(tag, cells) ==
  <<Cell("tag", tag), Cell("len", Len(cells) % LenRange)>> \o cells

\* A message of n cells, encoded into a buffer of its own and written.
EncodeMessage(tag, n) ==
  /\ Type(tag).kind = "Message"
  /\ wire' = wire \o Frame(tag, [i \in 1 .. n |-> Cell("msg", Len(sent) + 1)])
  /\ sent' = Append(sent, [tag |-> tag, kind |-> "Message", cats |-> NoCats, len |-> n])
  /\ UNCHANGED <<types, encoder, encodeBuf, refused, rvars, transport>>

\* Mutant: one schema for the connection instead of one per type.
PrefixOncePerConnection(tag, cats) ==
  (IF \A t \in Tags : encoder[t].state = "Fresh" THEN <<Cell("schema", 0)>> ELSE <<>>)
    \o (IF Type(tag).dict /\ ~encoder[tag].written THEN <<Cell("dict", cats)>> ELSE <<>>)

\* The schema and dictionary frames that go before a record batch.
Prefix(tag, cats) ==
  LET e == encoder[tag] IN
    (IF e.state = "Fresh" THEN <<Cell("schema", 0)>> ELSE <<>>)
      \o (IF Type(tag).dict /\ ~e.written THEN <<Cell("dict", cats)>> ELSE <<>>)

\* The encoder takes the prefix for sent before the layout of the batch shows
\* whether the table can be sent at all.  (The dictionary it registers on each
\* call is the table's own, so that it is not kept here.)
Encoded(tag) == [state |-> "SchemaDone", written |-> Type(tag).dict]

\* Mutant: the pooled buffer is not drained before it is used again.
KeptBuf == encodeBuf

ClearedBuf == <<>>

EncodeTable(tag, t) ==
  LET cells == Prefix(tag, t.cats) \o <<Cell("batch", Len(sent) + 1)>>
      cats == IF Type(tag).dict THEN t.cats ELSE NoCats
  IN /\ Type(tag).kind = "Table"
     /\ encoder' = [encoder EXCEPT ![tag] = Encoded(tag)]
     /\ IF t.sound
        THEN /\ encodeBuf' = ClearedBuf \o Frame(tag, cells)
             /\ wire' = wire \o encodeBuf'
             /\ sent' = Append(sent, [tag |-> tag, kind |-> "Table",
                                      cats |-> cats, len |-> Len(cells)])
             /\ UNCHANGED refused
        ELSE /\ encodeBuf' = ClearedBuf \o Frame(tag, <<>>)
             /\ refused' = refused \cup {tag}
             /\ UNCHANGED <<wire, sent>>
     /\ UNCHANGED <<types, rvars, transport>>

\* A call with an unknown name or tag, or of the wrong kind, changes nothing.
MayCall == transport = "open" /\ Len(sent) < MaxSends

Send ==
  /\ MayCall
  /\ \E name \in DOMAIN types.index, n \in MsgLens : EncodeMessage(types.index[name], n)

SendTable ==
  /\ MayCall
  /\ \E name \in DOMAIN types.index, t \in Tables : EncodeTable(types.index[name], t)

\* A frame goes out by its tag, which also reaches a type whose name was
\* registered again.
SendFrame ==
  /\ MayCall
  /\ \E tag \in 0 .. Len(types.list) - 1 :
       \/ \E n \in MsgLens : EncodeMessage(tag, n)
       \/ \E t \in Tables : EncodeTable(tag, t)

Shutdown ==
  /\ transport = "open"
  /\ transport' = "ended"
  /\ UNCHANGED <<wvars, rvars, wire>>

\* The connection is lost, with any suffix of what is on its way.
Reset ==
  /\ transport # "reset"
  /\ transport' = "reset"
  /\ \E n \in 0 .. Len(wire) : wire' = SubSeq(wire, 1, n)
  /\ UNCHANGED <<wvars, rvars>>

------------------------------------------------------------------------------
(* The reader: each action is one turn of the loop in poll_next.           *)

ReaderRegister ==
  /\ known < Len(Registry)
  /\ known' = known + 1
  /\ UNCHANGED <<decoder, header, target, payload, eof, answers, ended, wvars, wire, transport>>

InHeader == target = 0 /\ Len(header) < HeaderSize
InPayload == target > 0 /\ Len(payload) < target

\* What a read may take at most.
Wanted == IF InHeader THEN HeaderSize - Len(header) ELSE target - Len(payload)

\* A read of a header or payload that is not complete.
ReadSome ==
  /\ (InHeader \/ InPayload) /\ ~eof
  /\ \E n \in 1 .. Wanted :
       /\ n <= Len(wire)
       /\ wire' = SubSeq(wire, n + 1, Len(wire))
       /\ IF InHeader
          THEN header' = header \o SubSeq(wire, 1, n) /\ UNCHANGED payload
          ELSE payload' = payload \o SubSeq(wire, 1, n) /\ UNCHANGED header
  /\ UNCHANGED <<known, decoder, target, eof, answers, ended, wvars, transport>>

\* Mutant: a source that has nothing yet is taken for one that has ended.
ReadEofWhenPending ==
  /\ (InHeader \/ InPayload) /\ ~eof
  /\ wire = <<>>
  /\ eof' = TRUE
  /\ UNCHANGED <<known, decoder, header, target, payload, answers, ended, wvars, wire, transport>>

\* A read of nothing: the source has ended.
ReadEof ==
  /\ (InHeader \/ InPayload) /\ ~eof
  /\ wire = <<>> /\ transport # "open"
  /\ eof' = TRUE
  /\ UNCHANGED <<known, decoder, header, target, payload, answers, ended, wvars, wire, transport>>

\* A lost connection may also show as an error, which the stream yields.
ReadErr ==
  /\ (InHeader \/ InPayload) /\ ~eof
  /\ wire = <<>> /\ transport = "reset"
  /\ eof' = TRUE
  /\ ended' = "failed"
  /\ UNCHANGED <<known, decoder, header, target, payload, answers, wvars, wire, transport>>

\* Mutant: an end inside a frame is waited out.
PollEndedBetweenFrames ==
  /\ InHeader /\ header = <<>> /\ eof
  /\ ended' = "clean"
  /\ UNCHANGED <<known, decoder, header, target, payload, eof, answers, wvars, wire, transport>>

\* A poll after the end: of the stream, or inside a frame.
PollEnded ==
  /\ (InHeader \/ InPayload) /\ eof
  /\ ended' = IF InHeader /\ header = <<>> THEN "clean" ELSE "failed"
  /\ UNCHANGED <<known, decoder, header, target, payload, eof, answers, wvars, wire, transport>>

\* What one IPC frame does to the fields, the dictionaries and the batch; what
\* comes after a frame that fails is not looked at.
WalkFrame(s, c) ==
  CASE s.failed -> s
    [] ~s.failed /\ c.k = "schema" -> [s EXCEPT !.fields = TRUE]
    [] ~s.failed /\ c.k = "dict" -> [s EXCEPT !.dicts = c.v]
    [] ~s.failed /\ c.k = "batch" /\ s.fields -> [s EXCEPT !.batch = c.v]
    [] OTHER -> [s EXCEPT !.failed = TRUE]

\* What the IPC frames of a payload leave of a decoder's state.
Walk(d, cells) ==
  LET s[i \in 0 .. Len(cells)] ==
        IF i = 0
        THEN [fields |-> d.fields, dicts |-> d.dicts, batch |-> 0, failed |-> FALSE]
        ELSE WalkFrame(s[i - 1], cells[i])
  IN s[Len(cells)]

\* An answer: the frame's tag, and what it decoded to or why it did not.
Answer(tag, result, id, cats) ==
  answers' = Append(answers, [tag |-> tag, result |-> result, id |-> id, cats |-> cats])

\* Mutant: one decoder state for all table types.
DecodeFrameSharingState(tag, cells) ==
  IF tag >= known
  THEN Answer(tag, "unknown", 0, NoCats) /\ UNCHANGED decoder
  ELSE IF Registry[tag + 1].kind = "Message"
  THEN Answer(tag, "ok", IF cells = <<>> THEN 0 ELSE cells[1].v, NoCats) /\ UNCHANGED decoder
  ELSE LET s == Walk(decoder[tag], cells) IN
         /\ decoder' = [t \in Tags |-> [fields |-> s.fields, dicts |-> s.dicts]]
         /\ IF s.failed \/ s.batch = 0 THEN Answer(tag, "invalid", 0, NoCats)
            ELSE Answer(tag, "ok", s.batch, s.dicts)

\* The codec's decode_frame of a payload.
DecodeFrame(tag, cells) ==
  IF tag >= known
  THEN Answer(tag, "unknown", 0, NoCats) /\ UNCHANGED decoder
  ELSE IF Registry[tag + 1].kind = "Message"
  THEN /\ Answer(tag, "ok", IF cells = <<>> THEN 0 ELSE cells[1].v, NoCats)
       /\ UNCHANGED decoder
  ELSE LET s == Walk(decoder[tag], cells)
           dict == Registry[tag + 1].dict
       IN /\ decoder' = [decoder EXCEPT ![tag] = [fields |-> s.fields, dicts |-> s.dicts]]
          /\ IF s.failed \/ s.batch = 0 \/ (dict /\ s.dicts = NoCats)
             THEN Answer(tag, "invalid", 0, NoCats)
             ELSE Answer(tag, "ok", s.batch, IF dict THEN s.dicts ELSE NoCats)

\* Mutant: an empty payload is read like any other.
ParseHeaderAnyLength ==
  /\ target = 0 /\ Len(header) = HeaderSize
  /\ IF header[2].v > MaxFrame
     THEN /\ eof' = TRUE /\ ended' = "failed"
          /\ UNCHANGED <<decoder, header, target, payload, answers>>
     ELSE /\ target' = header[2].v /\ payload' = <<>>
          /\ UNCHANGED <<decoder, header, eof, answers, ended>>
  /\ UNCHANGED <<known, wvars, wire, transport>>

\* The header is complete: a frame over the limit ends the stream and leaves
\* the header where it is, an empty one is decoded at once.
ParseHeader ==
  /\ target = 0 /\ Len(header) = HeaderSize
  /\ LET tag == header[1].v
         len == header[2].v
     IN IF len > MaxFrame
        THEN /\ eof' = TRUE /\ ended' = "failed"
             /\ UNCHANGED <<decoder, header, target, payload, answers>>
        ELSE IF len = 0
        THEN /\ header' = <<>> /\ target' = 0 /\ payload' = <<>>
             /\ DecodeFrame(tag, <<>>)
             /\ UNCHANGED <<eof, ended>>
        ELSE /\ target' = len /\ payload' = <<>>
             /\ UNCHANGED <<decoder, header, eof, answers, ended>>
  /\ UNCHANGED <<known, wvars, wire, transport>>

\* The payload is complete: the reader is set for the next frame before this
\* one is decoded, and stays so when it does not decode.
Decode ==
  /\ target > 0 /\ Len(payload) = target
  /\ header' = <<>> /\ target' = 0 /\ payload' = <<>>
  /\ DecodeFrame(header[1].v, payload)
  /\ UNCHANGED <<known, eof, ended, wvars, wire, transport>>

------------------------------------------------------------------------------
Call == Send \/ SendTable \/ SendFrame \/ Shutdown
Poll == ReadSome \/ ReadEof \/ ReadErr \/ PollEnded \/ ParseHeader \/ Decode

Next == WriterRegister \/ Call \/ Reset \/ ReaderRegister \/ Poll

Spec == Init /\ [][Next]_vars

\* The consumer keeps polling: a waiting poll is woken by the source.
FairSpec == Spec /\ WF_vars(Poll)

------------------------------------------------------------------------------
(* Properties.                                                             *)

\* Whatever was refused at either end, the reader never loses its place: its
\* n-th answer is about the n-th frame, and one that is not an error carries
\* what that frame carried (decode_frame after the reset of poll_next).
FramingKept ==
  /\ Len(answers) <= Len(sent)
  /\ \A i \in DOMAIN answers :
       /\ answers[i].tag = sent[i].tag
       /\ answers[i].result = "ok" =>
            answers[i].id = IF sent[i].len = 0 THEN 0 ELSE i

\* The reader met a frame of the tag, at or before its i-th answer, before
\* the type was registered there.
Late(tag, i) ==
  \E j \in 1 .. i : answers[j].tag = tag /\ answers[j].result = "unknown"

\* A frame does not decode only if one of its type came before the type was
\* registered, or the writer's encoder had refused a table of its type: what
\* happens to one type never reaches another (the per-type ipc_codec of
\* codecs/lightstream.rs).
TypesAreIsolated ==
  \A i \in DOMAIN answers :
    answers[i].result # "ok" =>
      Late(answers[i].tag, i) \/ answers[i].tag \in refused

\* A categorical column reads as it was written, as long as the tables of its
\* type share one dictionary, which only the first of them carries
\* (written_dict_ids of the encoder, dicts of the decoder).
CategoriesKept ==
  \A i \in DOMAIN answers :
    /\ answers[i].result = "ok"
    /\ \A j \in 1 .. i : sent[j].tag = sent[i].tag => sent[j].cats = sent[i].cats
    => answers[i].cats = sent[i].cats

\* The end of a stream its writer shut down is clean and comes after an
\* answer to every frame, or it is a failure at a frame over the limit
\* (poll_next, readers/lightstream.rs).
EndIsComplete ==
  transport = "ended" /\ ended # "no" =>
    IF ended = "clean" THEN Len(answers) = Len(sent)
    ELSE /\ Len(answers) < Len(sent)
         /\ sent[Len(answers) + 1].len > MaxFrame

\* Every frame is answered, unless the stream has failed or its connection is
\* lost (the loop of poll_next, which returns Pending only from a read).
EveryFrameAnswered ==
  \A n \in 1 .. MaxSends :
    Len(sent) >= n ~> (Len(answers) >= n \/ ended = "failed" \/ transport = "reset")

\* A stream that is shut down or lost ends for its consumer too.
StreamEnds == transport # "open" ~> ended # "no"

\* "The first payload teaches the decoder the schema; after that, batch-only
\* payloads are decoded using the stored state" (codecs/lightstream.rs): with
\* the type registered in time every frame decodes.
FirstPayloadTeaches ==
  \A i \in DOMAIN answers : answers[i].result # "ok" => Late(answers[i].tag, i)
=============================================================================
