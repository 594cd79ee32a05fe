-------------------------- MODULE TableStreamDecoder --------------------------
(***************************************************************************)
(* TableStreamDecoder: Arrow IPC frames read from an AsyncRead source in   *)
(* two steps - headers through an accumulation buffer, record batch bodies *)
(* straight into the StreamArena - by a state machine that resumes at any  *)
(* byte, since the transport delivers what it likes.                       *)
(*                                                                         *)
(* The stream is a sequence of messages laid out on the wire: a header of  *)
(* HeaderLen units, a body, padding.  Bytes are positions on that wire, so the  *)
(* buffer is the interval [lo, rd) of it.  Each action is one turn of the  *)
(* loop in poll_next_keyed; the consumer polls until the stream ends, or a *)
(* few errors after the first.  Pending is a step that does not happen.    *)
(***************************************************************************)
EXTENDS StreamArena, Sequences, FiniteSets

CONSTANTS
  Streams,    \* the streams a sender may produce: sequences of messages
  SplitDict,  \* whether a read may end inside a dictionary frame
  Truncate,   \* whether the connection may end before the stream does
  MaxFaults,  \* bound: errors of the transport
  MaxErrors   \* bound: errors after which the consumer stops polling

\* A message is [kind, body, pad]; these are the kinds a stream may hold.
Kinds == {"schema", "dict", "batch",   \* what a writer produces
          "eos",                       \* the end-of-stream marker
          "badbatch",                  \* a record batch that does not decode
          "corrupt",                   \* a header that does not verify
          "other"}                     \* a message type no reader expects
Messages == [kind : Kinds, body : Nat, pad : Nat]

ASSUME DecoderAssumption ==
  /\ Streams \subseteq Seq(Messages)
  /\ SplitDict \in BOOLEAN /\ Truncate \in BOOLEAN
  /\ MaxFaults \in Nat /\ MaxErrors \in Nat

None == "none"
Err == -1
End == 0

VARIABLES
  msgs,    \* the stream that is sent
  cut,     \* the position at which the source reports its end
  rd,      \* how far the source has been read
  lo,      \* `buf` holds the positions lo .. rd - 1
  eof,     \* end of the source, or an error of it, was seen
  state,   \* BatchState: schema (NeedSchema), ready, done
  phase,   \* Phase: meta, body, skip, with the fields of each
  cache,   \* the window the codec's shared_cache holds, or None
  tables,  \* the windows of the tables the consumer has not dropped
  items,   \* the results of poll_next: a message number, Err, or End
  faults   \* errors of the transport so far

wire == <<msgs, cut>>
dvars == <<wire, rd, lo, eof, state, phase, cache, tables, items, faults, avars>>

------------------------------------------------------------------------------
(* The wire.                                                               *)

HeaderLen == 2     \* prefix, metadata; the end marker is a prefix only

Size(m) == IF m.kind = "eos" THEN 1 ELSE HeaderLen + m.body + m.pad

Start(ms) ==
  LET f[i \in 1 .. Len(ms) + 1] ==
        IF i = 1 THEN 0 ELSE f[i - 1] + Size(ms[i - 1])
  IN f

Total(ms) == Start(ms)[Len(ms) + 1]

\* The message whose header is at position p, or 0: padding, or the end.
MsgAt(p) ==
  IF \E i \in DOMAIN msgs : Start(msgs)[i] = p
  THEN CHOOSE i \in DOMAIN msgs : Start(msgs)[i] = p ELSE 0

InsideDict(p) ==
  \E i \in DOMAIN msgs :
    /\ msgs[i].kind = "dict"
    /\ Start(msgs)[i] < p /\ p < Start(msgs)[i] + Size(msgs[i])

\* How many units a read may return that is willing to take `most`.
Chunks(most) ==
  {n \in 1 .. most : /\ rd + n <= cut
                     /\ SplitDict \/ rd + n = cut \/ ~InsideDict(rd + n)}

Metadata == [at |-> "meta", msg |-> 0, from |-> 0, start |-> 0, filled |-> 0,
             len |-> 0, pad |-> 0]

Init ==
  /\ msgs \in Streams
  /\ cut \in IF Truncate THEN 0 .. Total(msgs) ELSE {Total(msgs)}
  /\ rd = 0 /\ lo = 0 /\ eof = FALSE
  /\ state = "schema" /\ phase = Metadata
  /\ cache = None /\ tables = {}
  /\ items = <<>> /\ faults = 0
  /\ ArenaInit

------------------------------------------------------------------------------
(* decode_header, on the buffer.                                           *)

Avail == rd - lo
Here == MsgAt(lo)
Kind == msgs[Here].kind

\* A zero length prefix, as padding has, reads as the end of the stream.
SeesEnd == Avail >= 1 /\ (Here # 0 => Kind = "eos")
SeesHeader == Avail >= HeaderLen /\ Here # 0 /\ Kind # "eos"
NeedMore == ~SeesEnd /\ ~SeesHeader
SeesFrame == SeesHeader /\ Avail >= HeaderLen + msgs[Here].body   \* Complete

\* Draining without the case of a buffer that holds less.
DrainPast(from, n) == from + n

\* drain_consumed: more than there is empties the buffer.
Drain(from, n) == IF n >= rd - from THEN rd ELSE from + n

------------------------------------------------------------------------------
(* Phase::Metadata                                                         *)

\* The consumer asks again unless the stream has ended.
Errors == Cardinality({i \in DOMAIN items : items[i] = Err})
Polling ==
  /\ items # <<>> => items[Len(items)] # End
  /\ Errors < MaxErrors

Yield(x) == items' = Append(items, x)

\* The source fails: the error is passed on, nothing is read any more.
SourceFails ==
  /\ faults < MaxFaults
  /\ faults' = faults + 1
  /\ eof' = TRUE
  /\ Yield(Err)

EndOfStream ==
  /\ phase.at = "meta" /\ SeesEnd
  /\ state' = "done"
  /\ lo' = Drain(lo, 1)
  /\ Yield(End)
  /\ UNCHANGED <<wire, rd, eof, phase, cache, tables, faults, avars>>

\* An invalid header stays in the buffer.
CorruptHeader ==
  /\ phase.at = "meta" /\ SeesHeader /\ Kind = "corrupt"
  /\ Yield(Err)
  /\ UNCHANGED <<wire, rd, lo, eof, state, phase, cache, tables, faults, avars>>

\* Schema and dictionary frames are decoded where they are.
InlineFrame ==
  /\ phase.at = "meta" /\ SeesFrame /\ Kind \in {"schema", "dict"}
  /\ lo' = Drain(lo, Size(msgs[Here]))
  /\ state' = IF Kind = "schema" THEN "ready" ELSE state
  /\ UNCHANGED <<wire, rd, eof, phase, cache, tables, items, faults, avars>>

UnexpectedFrame ==
  /\ phase.at = "meta" /\ SeesFrame /\ Kind = "other"
  /\ lo' = Drain(lo, Size(msgs[Here]))
  /\ Yield(Err)
  /\ UNCHANGED <<wire, rd, eof, state, phase, cache, tables, faults, avars>>

\* Padding that was read too far is left in the buffer.
BeginKeepingPad(from, len, pad) ==
  LET room == EnsureCapacity(RecycleIfFree(arena, windows), windows, len)
      over == IF rd - from < len THEN rd - from ELSE len
  IN
  /\ arena' = Commit(room, over)
  /\ windows' = Written(windows, room, over)
  /\ lo' = Drain(from, over)
  /\ phase' = [at |-> "body", msg |-> Here, from |-> from, start |-> room.pos,
               filled |-> over, len |-> len, pad |-> pad]

\* The arena is rewound once the consumer holds nothing, whatever the codec does.
BeginRewound(from, len, pad) ==
  LET room == IF tables = {} THEN Rewind(arena)
              ELSE EnsureCapacity(arena, windows, len)
      over == IF rd - from < len THEN rd - from ELSE len
  IN
  /\ arena' = Commit(room, over)
  /\ windows' = Written(windows, room, over)
  /\ lo' = Drain(Drain(from, over), pad)
  /\ phase' = [at |-> "body", msg |-> Here, from |-> from, start |-> room.pos,
               filled |-> over, len |-> len, pad |-> pad]

\* begin_body_read, the buffer drained up to `from`: what was read too far
\* moves into the arena, padding that was is discarded.
BeginBodyRead(from, len, pad) ==
  LET room == EnsureCapacity(RecycleIfFree(arena, windows), windows, len)
      over == IF rd - from < len THEN rd - from ELSE len
      rest == Drain(from, over)
      padOver == IF rd - rest < pad THEN rd - rest ELSE pad
  IN
  /\ arena' = Commit(room, over)
  /\ windows' = Written(windows, room, over)
  /\ lo' = Drain(rest, padOver)
  /\ phase' = [at |-> "body", msg |-> Here, from |-> from, start |-> room.pos,
               filled |-> over, len |-> len, pad |-> pad - padOver]

\* A record batch that is buffered whole. One without a body has the empty
\* body range 0..0: the header itself is then discarded as its padding.
BatchFrame ==
  /\ phase.at = "meta" /\ SeesFrame /\ Kind \in {"batch", "badbatch"}
  /\ IF msgs[Here].body = 0
     THEN BeginBodyRead(lo, 0, HeaderLen)
     ELSE BeginBodyRead(Drain(lo, HeaderLen), msgs[Here].body, msgs[Here].pad)
  /\ UNCHANGED <<wire, rd, eof, state, cache, tables, items, faults>>

\* BodyPending: a header whose body is not buffered yet, of any type.
PendingBody ==
  /\ phase.at = "meta" /\ SeesHeader /\ ~SeesFrame /\ Kind # "corrupt"
  /\ state = "ready"
  /\ BeginBodyRead(Drain(lo, HeaderLen), msgs[Here].body, msgs[Here].pad)
  /\ UNCHANGED <<wire, rd, eof, state, cache, tables, items, faults>>

OutOfOrder ==
  /\ phase.at = "meta" /\ SeesHeader /\ ~SeesFrame /\ Kind # "corrupt"
  /\ state # "ready"
  /\ Yield(Err)
  /\ UNCHANGED <<wire, rd, lo, eof, state, phase, cache, tables, faults, avars>>

\* poll_fill_buf
FillBuf ==
  /\ phase.at = "meta" /\ NeedMore /\ ~eof
  /\ \/ /\ \E n \in Chunks(cut) : rd' = rd + n
        /\ UNCHANGED <<eof, items, faults>>
     \/ /\ rd = cut
        /\ eof' = TRUE
        /\ UNCHANGED <<rd, items, faults>>
     \/ /\ SourceFails
        /\ UNCHANGED rd
  /\ UNCHANGED <<wire, lo, state, phase, cache, tables, avars>>

\* The end of the source passed on as the end of the stream.
EndedQuietly ==
  /\ phase.at = "meta" /\ NeedMore /\ eof
  /\ Yield(End)
  /\ UNCHANGED <<wire, rd, lo, eof, state, phase, cache, tables, faults, avars>>

\* The source ended before the end marker.
EndedEarly ==
  /\ phase.at = "meta" /\ NeedMore /\ eof
  /\ Yield(IF state = "done" THEN End ELSE Err)
  /\ UNCHANGED <<wire, rd, lo, eof, state, phase, cache, tables, faults, avars>>

------------------------------------------------------------------------------
(* Phase::Body                                                             *)

InBody == phase.at = "body" /\ phase.filled < phase.len

\* poll_read_body: into the arena, never past the body.
BodyRead ==
  /\ InBody
  /\ \E n \in Chunks(phase.len - phase.filled) :
       /\ n <= Remaining(arena)
       /\ rd' = rd + n /\ lo' = rd + n
       /\ arena' = Commit(arena, n)
       /\ windows' = Written(windows, arena, n)
       /\ phase' = [phase EXCEPT !.filled = @ + n]
  /\ UNCHANGED <<wire, eof, state, cache, tables, items, faults>>

\* No bytes, or an error: the body is given up.
BodyFails ==
  /\ InBody
  /\ \/ /\ rd = cut \/ Remaining(arena) = 0
        /\ eof' = TRUE
        /\ Yield(Err)
        /\ UNCHANGED faults
     \/ SourceFails
  /\ phase' = Metadata
  /\ UNCHANGED <<wire, rd, lo, state, cache, tables, avars>>

BodyFull == phase.at = "body" /\ phase.filled = phase.len
Decodes == msgs[phase.msg].kind = "batch" /\ state # "schema"

\* A window over the body, alignment, decode_frame. The codec keeps a view of
\* the body it decoded last, in place of the one before.
BodyDecoded ==
  /\ BodyFull /\ Decodes
  /\ \E s \in Slots :
       LET w == WindowOf(arena, phase.start, phase.len) IN
       /\ ~Live(windows, s)
       /\ windows' = [t \in Slots |->
            IF t = s THEN w
            ELSE IF t = cache /\ t \notin tables THEN NoWindow
            ELSE Written(windows, arena, Padding(arena))[t]]
       /\ cache' = s
       /\ tables' = tables \cup {s}
  /\ arena' = Commit(arena, Padding(arena))
  /\ phase' = IF phase.pad > 0 THEN [Metadata EXCEPT !.at = "skip",
                                                     !.pad = phase.pad]
              ELSE Metadata
  /\ Yield(phase.msg)
  /\ UNCHANGED <<wire, rd, lo, eof, state, faults>>

\* decode_frame refuses it, or it is no record batch after all. A record batch
\* that fails with the schema at hand has cleared the codec's view.
BodyRefused ==
  /\ BodyFull /\ ~Decodes
  /\ LET clears == msgs[phase.msg].kind = "badbatch" /\ state # "schema" IN
       /\ windows' = [t \in Slots |->
            IF clears /\ t = cache /\ t \notin tables THEN NoWindow
            ELSE Written(windows, arena, Padding(arena))[t]]
       /\ cache' = IF clears THEN None ELSE cache
  /\ arena' = Commit(arena, Padding(arena))
  /\ phase' = Metadata
  /\ Yield(Err)
  /\ UNCHANGED <<wire, rd, lo, eof, state, tables, faults>>

------------------------------------------------------------------------------
(* Phase::SkipPad                                                          *)

\* Padding waited for although the source has ended.
SkipDoneExact ==
  /\ phase.at = "skip" /\ phase.pad = 0
  /\ phase' = Metadata
  /\ UNCHANGED <<wire, rd, lo, eof, state, cache, tables, items, faults, avars>>

SkipDone ==
  /\ phase.at = "skip" /\ (phase.pad = 0 \/ eof)
  /\ phase' = Metadata
  /\ UNCHANGED <<wire, rd, lo, eof, state, cache, tables, items, faults, avars>>

SkipPad ==
  /\ phase.at = "skip" /\ phase.pad > 0 /\ ~eof
  /\ \/ /\ \E n \in Chunks(phase.pad) :
             /\ rd' = rd + n /\ lo' = rd + n
             /\ phase' = [phase EXCEPT !.pad = @ - n]
        /\ UNCHANGED <<eof, items, faults>>
     \/ /\ rd = cut
        /\ eof' = TRUE
        /\ UNCHANGED <<rd, lo, phase, items, faults>>
     \/ /\ SourceFails
        /\ UNCHANGED <<rd, lo, phase>>
  /\ UNCHANGED <<wire, state, cache, tables, avars>>

------------------------------------------------------------------------------
\* The consumer drops a table, at any time and on any thread.
DropTable(s) ==
  /\ s \in tables
  /\ tables' = tables \ {s}
  /\ windows' = IF s = cache THEN windows
                ELSE [windows EXCEPT ![s] = NoWindow]
  /\ UNCHANGED <<wire, rd, lo, eof, state, phase, cache, items, faults, arena>>

Step ==
  /\ Polling
  /\ \/ EndOfStream \/ CorruptHeader \/ InlineFrame \/ UnexpectedFrame
     \/ BatchFrame \/ PendingBody \/ OutOfOrder \/ FillBuf \/ EndedEarly
     \/ BodyRead \/ BodyFails \/ BodyDecoded \/ BodyRefused
     \/ SkipDone \/ SkipPad

Stopped == ~Polling /\ tables = {} /\ UNCHANGED dvars

Next == Step \/ (\E s \in Slots : DropTable(s)) \/ Stopped

\* The source always answers in the end, and tables are dropped in the end.
Spec == Init /\ [][Next]_dvars
FairSpec == Spec /\ WF_dvars(Step) /\ \A s \in Slots : WF_dvars(DropTable(s))

------------------------------------------------------------------------------
(* Properties                                                              *)

DecoderTypeOK ==
  /\ ArenaTypeOK
  /\ msgs \in Streams /\ cut \in 0 .. Total(msgs)
  /\ lo \in 0 .. rd /\ rd \in 0 .. cut
  /\ eof \in BOOLEAN /\ state \in {"schema", "ready", "done"}
  /\ phase.at \in {"meta", "body", "skip"}
  /\ phase.filled \in 0 .. phase.len /\ phase.pad \in Nat
  /\ cache \in Slots \cup {None} /\ tables \subseteq Slots
  /\ items \in Seq(Nat \cup {Err})
  /\ faults \in 0 .. MaxFaults

\* The decoder's own part of the arena's safety comments: no body is read, and
\* no padding written, under a table the consumer or the codec still holds.
TablesIntact == WindowsIntact

\* Whatever was overread, and wherever reads ended: a body read starts at the
\* first byte of its message's body, the bytes it has are the next ones of the
\* wire and lie in one piece at the place its window will be cut from, and
\* nothing is left in the buffer while the source is read into the arena.
BodyInPlace ==
  phase.at = "body" =>
    LET m == msgs[phase.msg] IN
      /\ m.body > 0 => phase.from = Start(msgs)[phase.msg] + HeaderLen
      /\ phase.len = m.body
      /\ arena.pos = phase.start + phase.filled
      /\ phase.filled < phase.len =>
           lo = rd /\ rd = phase.from + phase.filled
      /\ phase.pad > 0 => lo = rd

\* Every table starts on a boundary of the arena, so that its buffers can be
\* mapped without a copy.
TablesAligned ==
  \A s \in Slots : Live(windows, s) /\ windows[s].len > 0
                     => windows[s].off % Unit = 0

\* The decoder implements TableDelivery: no segmentation of the stream, no
\* truncation and no failure makes it lose, repeat or reorder a batch, report
\* an error without cause, or report the end before it.
Batches == {i \in DOMAIN msgs : msgs[i].kind = "batch"}
Flawless ==
  \A i \in DOMAIN msgs : msgs[i].kind \in {"schema", "dict", "batch", "eos"}
Delivery ==
  INSTANCE TableDelivery WITH
    expected <- Batches, whole <- cut = Total(msgs),
    sound <- Flawless /\ cut = Total(msgs) /\ faults = 0
ImplementsTableDelivery == Delivery!Spec

\* Every stream comes to an end for its consumer.
StreamEnds == <>(~Polling)

\* Steady state streaming reuses one committed region: a body that is read
\* while the caller holds no table starts where the first one did.
RewindsOnceReleased ==
  [][phase.at = "meta" /\ phase'.at = "body" /\ tables = {}
       => phase'.start = 0]_dvars

\* No mistake of the decoder: a stream that is well formed and complete, read
\* over a transport that does not fail, never yields an error.
SegmentationIndependent ==
  Flawless /\ cut = Total(msgs) /\ faults = 0 =>
    /\ \A i \in DOMAIN items : items[i] # Err
    /\ \A i \in DOMAIN items :
         items[i] = End => \A b \in DOMAIN msgs :
           msgs[b].kind = "batch" => \E j \in 1 .. i : items[j] = b
==============================================================================
