-------------------------------- MODULE Sinks --------------------------------
(***************************************************************************)
(* Sinks: GTableSink, over the Stream and the File protocol, and TLVSink.  *)
(* Both encode an item on start_send and write it to an AsyncWrite in      *)
(* poll_flush, a frame at a time and a part of it at a time.  The table    *)
(* sink of the Stream protocol has room for one frame, frame_buf; the      *)
(* others queue frames behind it.                                          *)
(*                                                                         *)
(* The caller uses the futures of SinkExt - feed, send, flush, close - one *)
(* at a time, and may drop one that waits.  Encoding is left out: a frame  *)
(* is a number, FrameSize units long on the wire.                          *)
(***************************************************************************)
EXTENDS Integers, Sequences

CONSTANTS
  Kinds,             \* which sinks: "stream", "file", "tlv"
  FrameSize,         \* units of a frame
  CloseOverPending,  \* whether a Stream sink may be closed on a pending frame
  MaxItems,          \* bound: items sent
  MaxFaults          \* bound: errors of the destination

ASSUME SinksAssumption ==
  /\ Kinds \subseteq {"stream", "file", "tlv"}
  /\ FrameSize \in Nat \ {0}
  /\ CloseOverPending \in BOOLEAN
  /\ MaxItems \in Nat /\ MaxFaults \in Nat

VARIABLES
  kind,      \* which sink this is
  frameBuf,  \* frame_buf: the frame being written, or None
  framePos,  \* frame_pos
  queue,     \* out_frames of file_writer, or of the TLVStreamWriter
  opened,    \* the file writer has emitted its schema
  finished,  \* the end marker or footer has been emitted
  op,        \* the caller's future: idle, feed, send, flush, close
  poll,      \* its task: running, flushing (in the loop of poll_flush), woken,
             \* waiting for the destination, or lost: woken by nobody
  waker,     \* the TLVStreamWriter holds a waker of the task
  notified,  \* that waker was woken and the task not polled since
  full,      \* the destination takes nothing now
  dest,      \* units written, each with its frame
  shut,      \* the destination was shut down
  accepted,  \* the frames of the items accepted, and the end, in order
  items,     \* items sent
  result,    \* of the last call: none, ready, refused, flushed, closed, error
  faults     \* errors of the destination so far

wakers == <<waker, notified>>
sinkvars == <<kind, frameBuf, framePos, queue, opened, finished, op, poll, wakers, full,
              dest, shut, accepted, items, result, faults>>

None == 0
Schema == -1
Eos == -2

SinkInit ==
  /\ kind \in Kinds
  /\ frameBuf = None /\ framePos = 0 /\ queue = <<>>
  /\ opened = FALSE /\ finished = FALSE
  /\ op = "idle" /\ poll = "running" /\ full \in BOOLEAN
  /\ waker = FALSE /\ notified = FALSE
  /\ dest = <<>> /\ shut = FALSE
  /\ accepted = <<>> /\ items = 0 /\ result = "none" /\ faults = 0

\* What the caller and the destination see of a poll.
Return(r) == op' = "idle" /\ result' = r /\ UNCHANGED poll
Pending(p) == poll' = p /\ UNCHANGED <<op, result>>

------------------------------------------------------------------------------
(* The caller.                                                             *)

\* Nothing is sent after a close, and close comes when the caller likes.
SinkCall ==
  /\ op = "idle" /\ ~shut
  /\ op' \in {"feed", "send", "flush", "close"}
  /\ op' \in {"feed", "send"} => items < MaxItems /\ ~finished
  /\ op' = "close" => CloseOverPending \/ kind # "stream" \/ finished \/ frameBuf = None
  /\ poll' = "running"
  /\ result' = "none"
  /\ UNCHANGED <<wakers, kind, frameBuf, framePos, queue, opened, finished, full, dest, shut,
                 accepted, items, faults>>

\* The future is dropped while it waits.
Cancel ==
  /\ op # "idle" /\ poll \notin {"running", "flushing"}
  /\ op' = "idle"
  /\ UNCHANGED <<wakers, kind, frameBuf, framePos, queue, opened, finished, poll, full, dest,
                 shut, accepted, items, result, faults>>

Resume ==
  /\ op # "idle" /\ poll = "woken"
  /\ poll' = "running" /\ notified' = FALSE
  /\ UNCHANGED <<waker, kind, frameBuf, framePos, queue, opened, finished, op, full, dest,
                 shut, accepted, items, result, faults>>

\* The destination takes bytes again and wakes who waits for that.
Drain ==
  /\ full
  /\ full' = FALSE
  /\ poll' = IF poll = "waiting" THEN "woken" ELSE poll
  /\ UNCHANGED <<wakers, kind, frameBuf, framePos, queue, opened, finished, op, dest, shut,
                 accepted, items, result, faults>>

------------------------------------------------------------------------------
(* The sink.                                                               *)

Running(o) == op \in o /\ poll = "running"
Flushing == op # "idle" /\ poll = "flushing"

\* The frames of an item, the file writer's schema before the first.
Frames(n) == IF kind = "file" /\ ~opened THEN <<Schema, n>> ELSE <<n>>

\* write_frame and finish of the TLVStreamWriter wake the task that met an
\* empty queue, often the one that is calling.
Wake ==
  /\ notified' = (notified \/ (kind = "tlv" /\ waker))
  /\ waker' = FALSE

\* start_send: the item becomes the pending frame, or goes to the end of the
\* queue.  The future send then flushes.
StartSend ==
  /\ items' = items + 1
  /\ IF kind = "stream"
     THEN frameBuf' = items + 1 /\ framePos' = 0 /\ UNCHANGED queue
     ELSE queue' = queue \o Frames(items + 1) /\ UNCHANGED <<frameBuf, framePos>>
  /\ opened' = (opened \/ kind = "file")
  /\ accepted' = accepted \o Frames(items + 1)
  /\ poll' = "running"
  /\ IF op = "send" THEN op' = "flush" /\ UNCHANGED result
     ELSE op' = "idle" /\ result' = "ready"
  /\ Wake
  /\ UNCHANGED <<kind, finished, full, dest, shut, faults>>

\* start_send of an item that cannot be encoded; the schema of a file may have
\* been queued by then.
Refuse ==
  /\ items' = items + 1
  /\ opened' \in {opened, opened \/ kind = "file"}
  /\ LET schema == IF opened' # opened THEN <<Schema>> ELSE <<>> IN
       queue' = queue \o schema /\ accepted' = accepted \o schema
  /\ poll' = "running" /\ op' = "idle" /\ result' = "refused"
  /\ UNCHANGED <<wakers, kind, frameBuf, framePos, finished, full, dest, shut, faults>>

Admit == StartSend \/ Refuse

\* Mutant: an item is admitted whether or not a frame is pending.
AlwaysReady == TRUE

\* A table sink writes a pending frame before it admits an item, a TLV sink
\* queues the item.
IsReady == kind = "tlv" \/ frameBuf = None

\* poll_ready, at once or into poll_flush.
PollReady ==
  /\ Running({"feed", "send"})
  /\ IF IsReady THEN Admit
     ELSE /\ poll' = "flushing"
          /\ UNCHANGED <<wakers, kind, frameBuf, framePos, queue, opened, finished, op, full, dest,
                         shut, accepted, items, result, faults>>

PollFlush ==
  /\ Running({"flush"})
  /\ poll' = "flushing"
  /\ UNCHANGED <<wakers, kind, frameBuf, framePos, queue, opened, finished, op, full, dest, shut,
                 accepted, items, result, faults>>

\* poll_close: the first time, the end marker of a Stream sink takes the place
\* of whatever frame is pending, the footer of a file goes to the queue, and a
\* TLV sink has no end marker.  Then poll_flush.
PollClose ==
  /\ Running({"close"})
  /\ finished' = TRUE
  /\ poll' = "flushing"
  /\ LET first == ~finished IN
       /\ IF first /\ kind = "stream" THEN frameBuf' = Eos /\ framePos' = 0
          ELSE UNCHANGED <<frameBuf, framePos>>
       /\ queue' = IF first /\ kind = "file" THEN Append(queue, Eos) ELSE queue
       /\ accepted' = IF first /\ kind # "tlv" THEN Append(accepted, Eos) ELSE accepted
  /\ IF ~finished THEN Wake ELSE UNCHANGED wakers
  /\ UNCHANGED <<kind, opened, op, full, dest, shut, items, result, faults>>

------------------------------------------------------------------------------
(* poll_flush.                                                             *)

NextFrame ==
  /\ Flushing /\ frameBuf = None /\ queue # <<>>
  /\ frameBuf' = Head(queue) /\ framePos' = 0 /\ queue' = Tail(queue)
  /\ UNCHANGED <<wakers, kind, opened, finished, op, poll, full, dest, shut, accepted, items,
                 result, faults>>

\* With nothing left to write the TLVStreamWriter keeps the task's waker, unless
\* it is finished.
KeepWaker ==
  /\ waker' = (waker \/ (kind = "tlv" /\ frameBuf = None /\ ~finished))
  /\ UNCHANGED notified

\* A destination that takes nothing now, for a write, a flush or a shutdown.
AwaitDest ==
  /\ Flushing /\ full
  /\ frameBuf # None \/ queue = <<>>
  /\ Pending(IF notified THEN "woken" ELSE "waiting")
  /\ KeepWaker
  /\ UNCHANGED <<kind, frameBuf, framePos, queue, opened, finished, full, dest, shut,
                 accepted, items, faults>>

\* The units of the pending frame that a write of n of them adds.
Units(n) == [i \in 1 .. n |-> <<frameBuf, framePos + i>>]

\* The writes that leave some of the frame.
Parts == 1 .. FrameSize - framePos - 1

\* Mutant: no sink has itself polled again.
NotWoken == IF notified THEN "woken" ELSE "lost"

\* After a part of the frame a table sink has itself polled again; a TLV sink
\* returns Pending and leaves it at that, so that only a notification left over
\* from an earlier write_frame would have it polled.
AfterPart == IF kind = "tlv" /\ ~notified THEN "lost" ELSE "woken"

WritePart ==
  /\ Flushing /\ frameBuf # None /\ ~full
  /\ \E n \in Parts : dest' = dest \o Units(n) /\ framePos' = framePos + n
  /\ full' \in BOOLEAN
  /\ Pending(AfterPart)
  /\ UNCHANGED <<wakers, kind, frameBuf, queue, opened, finished, shut, accepted, items, faults>>

\* The rest of the frame is written, and the loop goes on.
WriteRest ==
  /\ Flushing /\ frameBuf # None /\ ~full
  /\ dest' = dest \o Units(FrameSize - framePos)
  /\ frameBuf' = None /\ framePos' = 0
  /\ full' \in BOOLEAN
  /\ UNCHANGED <<wakers, kind, queue, opened, finished, op, poll, shut, accepted, items, result,
                 faults>>

\* The destination fails, or takes nothing without being full: the frame has
\* been taken out of frame_buf and is gone.
WriteErr ==
  /\ Flushing /\ frameBuf # None /\ ~full
  /\ faults < MaxFaults
  /\ faults' = faults + 1
  /\ frameBuf' = None
  /\ Return("error")
  /\ UNCHANGED <<wakers, kind, framePos, queue, opened, finished, full, dest, shut, accepted, items>>

\* Mutant: one frame to a flush.
FrameDone == frameBuf = None

\* Where the loop of poll_flush ends.
Drained == frameBuf = None /\ queue = <<>>

\* The destination fails to flush or to shut down.
FlushErr ==
  /\ Flushing /\ Drained /\ ~full
  /\ faults < MaxFaults
  /\ faults' = faults + 1
  /\ Return("error")
  /\ KeepWaker
  /\ UNCHANGED <<kind, frameBuf, framePos, queue, opened, finished, full, dest, shut, accepted,
                 items>>

\* Everything is written and the destination flushed: poll_ready admits its
\* item, poll_flush is done, and poll_close shuts the destination down.
Flushed ==
  /\ Flushing /\ Drained /\ ~full
  /\ CASE op \in {"feed", "send"} -> Admit
       [] op = "flush" -> /\ Return("flushed")
                          /\ KeepWaker
                          /\ UNCHANGED <<kind, frameBuf, framePos, queue, opened, finished,
                                         full, dest, shut, accepted, items, faults>>
       [] op = "close" -> /\ Return("closed")
                          /\ shut' = TRUE
                          /\ UNCHANGED <<wakers, kind, frameBuf, framePos, queue, opened, finished,
                                         full, dest, accepted, items, faults>>

------------------------------------------------------------------------------
SinkPoll ==
  \/ PollReady \/ PollFlush \/ PollClose
  \/ NextFrame \/ AwaitDest \/ WritePart \/ WriteRest \/ WriteErr \/ FlushErr
  \/ Flushed

SinkNext == SinkCall \/ Cancel \/ Resume \/ Drain \/ SinkPoll

SinkSpec == SinkInit /\ [][SinkNext]_sinkvars

\* The task of a caller that waits is polled when it is woken, runs on while
\* it is polled, and the destination takes bytes again in the end.
SinkFairness == WF_sinkvars(Resume) /\ WF_sinkvars(Drain) /\ WF_sinkvars(SinkPoll)
SinkFairSpec == SinkSpec /\ SinkFairness

------------------------------------------------------------------------------
(* Properties.                                                             *)

\* What the destination holds is the beginning of the frames of the accepted
\* items, whole, in order and once each, however writes were cut and whichever
\* futures were dropped, until the destination fails (poll_flush and its
\* callers, sinks/table_sink.rs and sinks/tlv_sink.rs).
WireInOrder ==
  faults = 0 =>
    \A i \in DOMAIN dest :
      LET f == ((i - 1) \div FrameSize) + 1 IN
        f <= Len(accepted) /\ dest[i] = <<accepted[f], ((i - 1) % FrameSize) + 1>>

\* A flush or a close that returns Ok has written every item accepted before,
\* a close the end marker too.  The test feed_without_flush_keeps_every_table
\* of sinks/table_sink.rs: "a caller may queue several tables against a single
\* flush. Every one of them must still reach the wire".
OkIsComplete ==
  faults = 0 /\ result \in {"flushed", "closed"} =>
    Len(dest) = FrameSize * Len(accepted)

\* A future that is not dropped returns.  (Not of a TLV sink, which returns
\* Pending after a partial write and has nobody wake the task.)
CallsReturn == op # "idle" /\ kind # "tlv" ~> op = "idle"
=============================================================================
