---------------------------- MODULE ParallelTables ----------------------------
(***************************************************************************)
(* The parallel table transports over TCP, HTTP/2 and QUIC.  A writer      *)
(* deals tables round robin to N streams, a task each; the reader accepts  *)
(* N streams, decodes each on a task, and merges their channels.  Tasks,   *)
(* channels and merge are those of ParallelLightstream.  What differs is   *)
(* modelled here: no stream announces its index, so the i-th accepted      *)
(* stream is taken for the writer's i-th; an Arrow stream that ends        *)
(* without its end marker is an error; a QUIC stream can be accepted only  *)
(* once it or a later one is used; and HTTP/2 streams share a window.      *)
(* A table is its number, and the unit of every window.                    *)
(***************************************************************************)
EXTENDS Integers, Sequences, Functions, FiniteSets

CONSTANTS
  PtKinds,          \* which transports: "tcp", "http", "quic"
  PtSorts,          \* SortBehaviour: "Ordered", "Arrival" (None and RequestKeys)
  PtN,              \* stream_count
  PtDepth,          \* STREAM_CHANNEL_DEPTH
  PtWindow,         \* STREAM_WINDOW_BYTES, or the buffers of a socket
  PtWindowMax,      \* the largest window of a connection: u32::MAX
  PtAcceptInOrder,  \* whether TCP connections are accepted in connecting order
  PtMaxTables,      \* bound: tables written
  PtMaxAbandoned,   \* bound: write_table calls dropped by their caller
  PtMaxFaults       \* bound: streams lost, or a failed accept

ASSUME PtAssumption ==
  /\ PtKinds \subseteq {"tcp", "http", "quic"} /\ PtSorts \subseteq {"Ordered", "Arrival"}
  /\ PtN \in Nat \ {0} /\ PtDepth \in Nat \ {0}
  /\ PtWindow \in Nat \ {0} /\ PtWindowMax \in Nat \ {0}
  /\ PtAcceptInOrder \in BOOLEAN
  /\ PtMaxTables \in Nat /\ PtMaxAbandoned \in Nat /\ PtMaxFaults \in Nat

VARIABLES
  ptKind, ptSort,
  ptNext,     \* tables dealt so far
  ptPending,  \* the table whose send waits for its channel, or 0
  ptAbandoned,\* history: the tables whose write_table was dropped
  ptSenders,  \* the channel to each writer task
  ptWork,     \* the table each writer task is writing, or 0
  ptTask,     \* each writer task: run, ok, failed
  ptFinish,   \* the writer: open, finishing (senders dropped), ok, err
  ptNet,      \* tables on each stream, sent and not read
  ptEnd,      \* what follows them: open, eos (marker and end), cut
  ptLink,     \* the connection of the HTTP/2 or QUIC streams: up, lost
  ptSlots,    \* the stream in each slot of the reader, as far as accepted
  ptHeld,     \* the item each reader task is sending: a table, Cut, or 0
  ptRead,     \* each reader task: run, done
  ptStreams,  \* the channel from each reader task
  ptCursor, ptClosed,
  ptOut,      \* what read_all_tables has collected
  ptResult,   \* and how it returned: none, ok, err
  ptFaults

ptWriter == <<ptNext, ptPending, ptAbandoned, ptSenders, ptWork, ptTask, ptFinish>>
ptWire == <<ptNet, ptEnd, ptLink, ptFaults>>
ptTasks == <<ptHeld, ptRead, ptStreams>>
ptMerge == <<ptCursor, ptClosed, ptOut, ptResult>>
ptFixed == <<ptKind, ptSort>>
ptvars == <<ptFixed, ptWriter, ptWire, ptSlots, ptTasks, ptMerge>>

PtC == 0 .. PtN - 1      \* streams, and slots of the reader
PtCut == -1              \* an error item

PtInit ==
  /\ ptKind \in PtKinds /\ ptSort \in PtSorts
  /\ ptNext = 0 /\ ptPending = 0 /\ ptAbandoned = {} /\ ptFinish = "open"
  /\ ptSenders = [c \in PtC |-> <<>>] /\ ptTask = [c \in PtC |-> "run"]
  /\ ptWork = [c \in PtC |-> 0] /\ ptLink = "up"
  /\ ptNet = [c \in PtC |-> <<>>] /\ ptEnd = [c \in PtC |-> "open"] /\ ptFaults = 0
  /\ ptSlots = <<>>
  /\ ptHeld = [s \in PtC |-> 0] /\ ptRead = [s \in PtC |-> "run"]
  /\ ptStreams = [s \in PtC |-> <<>>]
  /\ ptCursor = 0 /\ ptClosed = {} /\ ptOut = <<>> /\ ptResult = "none"

------------------------------------------------------------------------------
(* The writer.                                                             *)

\* Mutant: next_stream has moved on when the stream is picked.
PtRouteMovedOn(t) == t % PtN

\* The stream of a table.
PtRoute(t) == (t - 1) % PtN

\* write_table: the stream and the key are fixed, then the channel is awaited.
PtWriteTable ==
  /\ ptFinish = "open" /\ ptPending = 0 /\ ptNext < PtMaxTables
  /\ ptNext' = ptNext + 1 /\ ptPending' = ptNext + 1
  /\ UNCHANGED <<ptFixed, ptAbandoned, ptSenders, ptWork, ptTask, ptFinish, ptWire, ptSlots,
                 ptTasks, ptMerge>>

\* The channel takes the table, or its task is gone and write_table fails.
PtQueued ==
  /\ ptPending # 0
  /\ LET c == PtRoute(ptPending) IN
       \/ /\ ptTask[c] = "run" /\ Len(ptSenders[c]) < PtDepth
          /\ ptSenders' = [ptSenders EXCEPT ![c] = Append(@, ptPending)]
       \/ /\ ptTask[c] = "failed"
          /\ UNCHANGED ptSenders
  /\ ptPending' = 0
  /\ UNCHANGED <<ptFixed, ptNext, ptAbandoned, ptWork, ptTask, ptFinish, ptWire, ptSlots, ptTasks,
                 ptMerge>>

\* The caller drops a write_table that waits for room: the table is gone, and its
\* place in the rotation with it.  A call dropped after room was made, and before
\* it was polled, leaves the same behind as one dropped before.
PtAbandon ==
  /\ ptPending # 0 /\ Cardinality(ptAbandoned) < PtMaxAbandoned
  /\ LET c == PtRoute(ptPending) IN ptTask[c] = "run" /\ Len(ptSenders[c]) = PtDepth
  /\ ptPending' = 0 /\ ptAbandoned' = ptAbandoned \cup {ptPending}
  /\ UNCHANGED <<ptFixed, ptNext, ptSenders, ptWork, ptTask, ptFinish, ptWire, ptSlots, ptTasks,
                 ptMerge>>

PtFinishCall ==
  /\ ptFinish = "open" /\ ptPending = 0
  /\ ptFinish' = "finishing"
  /\ UNCHANGED <<ptFixed, ptNext, ptPending, ptAbandoned, ptSenders, ptWork, ptTask, ptWire, ptSlots,
                 ptTasks, ptMerge>>

\* finish has joined every task; the first error is its result.
PtFinished ==
  /\ ptFinish = "finishing" /\ \A c \in PtC : ptTask[c] # "run"
  /\ ptFinish' = IF \E c \in PtC : ptTask[c] = "failed" THEN "err" ELSE "ok"
  /\ UNCHANGED <<ptFixed, ptNext, ptPending, ptAbandoned, ptSenders, ptWork, ptTask, ptWire, ptSlots,
                 ptTasks, ptMerge>>

\* Tables on all streams that nobody has read: these hold window.
PtUnread == FoldFunction(LAMBDA q, n : Len(q) + n, 0, ptNet)

\* Mutant: from_tcp leaves the connection window as it is for one stream.
PtOneWindow == PtWindow

\* from_tcp scales the connection window with the number of streams.
PtConnectionWindow == IF PtN * PtWindow < PtWindowMax THEN PtN * PtWindow ELSE PtWindowMax

\* Flow control: each stream has its window; those of HTTP/2 draw on one more.
PtMaySend(c) ==
  /\ Len(ptNet[c]) < PtWindow
  /\ ptKind = "http" => PtUnread < PtConnectionWindow

\* The writer task takes a table, and writes it.
PtTaskTakes(c) ==
  /\ ptTask[c] = "run" /\ ptWork[c] = 0 /\ ptSenders[c] # <<>>
  /\ ptWork' = [ptWork EXCEPT ![c] = Head(ptSenders[c])]
  /\ ptSenders' = [ptSenders EXCEPT ![c] = Tail(@)]
  /\ UNCHANGED <<ptFixed, ptNext, ptPending, ptAbandoned, ptTask, ptFinish, ptWire, ptSlots, ptTasks, ptMerge>>

PtTaskWrites(c) ==
  /\ ptTask[c] = "run" /\ ptWork[c] # 0 /\ ptEnd[c] = "open" /\ PtMaySend(c)
  /\ ptNet' = [ptNet EXCEPT ![c] = Append(@, ptWork[c])]
  /\ ptWork' = [ptWork EXCEPT ![c] = 0]
  /\ UNCHANGED <<ptFixed, ptNext, ptPending, ptAbandoned, ptSenders, ptTask, ptFinish, ptEnd, ptLink,
                 ptFaults, ptSlots, ptTasks, ptMerge>>

\* finish clears the senders first.
PtSendersDropped == ptFinish = "finishing"

\* Its channel is closed and empty: the task flushes and closes its stream.
PtTaskFinishes(c) ==
  /\ ptTask[c] = "run" /\ ptWork[c] = 0 /\ ptSenders[c] = <<>> /\ PtSendersDropped
  /\ ptEnd[c] = "open"
  /\ ptTask' = [ptTask EXCEPT ![c] = "ok"] /\ ptEnd' = [ptEnd EXCEPT ![c] = "eos"]
  /\ UNCHANGED <<ptFixed, ptNext, ptPending, ptAbandoned, ptSenders, ptWork, ptFinish, ptNet, ptLink,
                 ptFaults, ptSlots, ptTasks, ptMerge>>

\* A task notices that its stream is gone when it next writes or closes it; the
\* tables queued behind are dropped with the channel.
PtTaskFails(c) ==
  /\ ptTask[c] = "run" /\ ptEnd[c] = "cut"
  /\ ptWork[c] # 0 \/ (ptSenders[c] = <<>> /\ PtSendersDropped)
  /\ ptTask' = [ptTask EXCEPT ![c] = "failed"]
  /\ ptSenders' = [ptSenders EXCEPT ![c] = <<>>] /\ ptWork' = [ptWork EXCEPT ![c] = 0]
  /\ UNCHANGED <<ptFixed, ptNext, ptPending, ptAbandoned, ptFinish, ptWire, ptSlots, ptTasks, ptMerge>>

\* Streams are lost, and perhaps what they carried.
PtLost(lost) ==
  /\ ptFaults < PtMaxFaults
  /\ ptFaults' = ptFaults + 1
  /\ \E c \in lost : ptEnd[c] = "open"
  /\ ptEnd' = [c \in PtC |-> IF c \in lost THEN "cut" ELSE ptEnd[c]]
  /\ ptNet' \in {ptNet, [c \in PtC |-> IF c \in lost THEN <<>> ELSE ptNet[c]]}
  /\ UNCHANGED <<ptFixed, ptWriter, ptSlots, ptTasks, ptMerge>>

PtStreamLost == \E c \in PtC : PtLost({c}) /\ UNCHANGED ptLink
PtConnectionLost == ptKind # "tcp" /\ PtLost(PtC) /\ ptLink' = "lost"

------------------------------------------------------------------------------
(* The reader.                                                             *)

PtAccepted == {ptSlots[i] : i \in DOMAIN ptSlots}

\* The streams that accept can return next: HTTP/2 and QUIC deal them out in the
\* order they were opened, a QUIC stream only when it or a later one was used.
PtAcceptable ==
  IF ptKind = "tcp" /\ ~PtAcceptInOrder THEN PtC \ PtAccepted
  ELSE {c \in PtC : /\ c = Len(ptSlots)
                    /\ ptKind = "quic" =>
                         \E d \in c .. PtN - 1 : ptNet[d] # <<>> \/ ptEnd[d] # "open"}

PtAccept ==
  /\ Len(ptSlots) < PtN /\ ptLink = "up" /\ ptResult = "none"
  /\ \E c \in PtAcceptable : ptSlots' = Append(ptSlots, c)
  /\ UNCHANGED <<ptFixed, ptWriter, ptWire, ptTasks, ptMerge>>

\* Accept fails without its connection, and may fail on a listener: it returns the
\* error and drops the receivers.  No reader was built, so nothing aborts the
\* tasks of the streams accepted so far.
PtAcceptFails ==
  /\ Len(ptSlots) < PtN /\ ptResult = "none"
  /\ \/ ptLink = "lost" /\ UNCHANGED ptFaults
     \/ ptKind = "tcp" /\ ptFaults < PtMaxFaults /\ ptFaults' = ptFaults + 1
  /\ ptResult' = "err" /\ ptStreams' = [s \in PtC |-> <<>>]
  /\ UNCHANGED <<ptFixed, ptWriter, ptNet, ptEnd, ptLink, ptSlots, ptHeld, ptRead, ptCursor,
                 ptClosed, ptOut>>

\* Whether the receivers are gone and the reader tasks still run.
PtDetached == ptResult # "none" /\ Len(ptSlots) < PtN

\* After a failed accept the caller lets go of the listener in the end, and of the
\* connections that wait to be accepted on it.
PtListenerClosed ==
  /\ PtDetached /\ ptKind = "tcp" /\ \E c \in PtC \ PtAccepted : ptEnd[c] # "cut"
  /\ ptEnd' = [c \in PtC |-> IF c \in PtAccepted THEN ptEnd[c] ELSE "cut"]
  /\ ptNet' = [c \in PtC |-> IF c \in PtAccepted THEN ptNet[c] ELSE <<>>]
  /\ UNCHANGED <<ptFixed, ptWriter, ptLink, ptFaults, ptSlots, ptTasks, ptMerge>>

\* Mutant: whatever ends a stream ends its tables.
PtNotMissed(c) == FALSE

\* The end marker of a stream is missing: UnexpectedEof.
PtMarkerMissing(c) == ptEnd[c] = "cut"

\* The reader task of a slot decodes the next table, an error where the stream
\* ends without its marker, and stops after either end.
PtTaskReads(s) ==
  /\ s < Len(ptSlots) /\ ptRead[s] = "run" /\ ptHeld[s] = 0
  /\ LET c == ptSlots[s + 1] IN
       \/ /\ ptNet[c] # <<>>
          /\ ptHeld' = [ptHeld EXCEPT ![s] = Head(ptNet[c])]
          /\ ptNet' = [ptNet EXCEPT ![c] = Tail(@)]
          /\ UNCHANGED ptRead
       \/ /\ ptNet[c] = <<>> /\ ptEnd[c] # "open"
          /\ ptHeld' = IF PtMarkerMissing(c) THEN [ptHeld EXCEPT ![s] = PtCut] ELSE ptHeld
          /\ ptRead' = IF PtMarkerMissing(c) THEN ptRead ELSE [ptRead EXCEPT ![s] = "done"]
          /\ UNCHANGED ptNet
  /\ UNCHANGED <<ptFixed, ptWriter, ptEnd, ptLink, ptFaults, ptSlots, ptStreams, ptMerge>>

PtTaskSends(s) ==
  /\ ptHeld[s] # 0 /\ Len(ptStreams[s]) < PtDepth /\ ~PtDetached
  /\ ptStreams' = [ptStreams EXCEPT ![s] = Append(@, ptHeld[s])]
  /\ ptRead' = IF ptHeld[s] = PtCut THEN [ptRead EXCEPT ![s] = "done"] ELSE ptRead
  /\ ptHeld' = [ptHeld EXCEPT ![s] = 0]
  /\ UNCHANGED <<ptFixed, ptWriter, ptWire, ptSlots, ptMerge>>

\* Its receiver is gone: the send fails, and the task ends and drops its stream.
PtTaskStops(s) ==
  /\ ptHeld[s] # 0 /\ PtDetached
  /\ ptHeld' = [ptHeld EXCEPT ![s] = 0] /\ ptRead' = [ptRead EXCEPT ![s] = "done"]
  /\ ptEnd' = [ptEnd EXCEPT ![ptSlots[s + 1]] = "cut"]
  /\ ptNet' = [ptNet EXCEPT ![ptSlots[s + 1]] = <<>>]
  /\ UNCHANGED <<ptFixed, ptWriter, ptLink, ptFaults, ptSlots, ptStreams, ptMerge>>

\* A channel is closed once its task is done and it is empty.
PtDrained(s) == ptRead[s] = "done" /\ ptStreams[s] = <<>>

\* read_all_tables takes an item of slot s; it returns at the first error.
PtTake(s) ==
  /\ ptStreams[s] # <<>>
  /\ ptStreams' = [ptStreams EXCEPT ![s] = Tail(@)]
  /\ IF Head(ptStreams[s]) = PtCut
     THEN ptResult' = "err" /\ UNCHANGED ptOut
     ELSE ptOut' = Append(ptOut, Head(ptStreams[s])) /\ UNCHANGED ptResult

PtPolling == Len(ptSlots) = PtN /\ ptResult = "none"

\* Ordered: only the slot whose turn it is, and its end is the end.
PtPollOrdered ==
  /\ PtPolling /\ ptSort = "Ordered"
  /\ LET s == ptCursor % PtN IN
       \/ PtTake(s) /\ ptCursor' = ptCursor + 1 /\ UNCHANGED ptClosed
       \/ PtDrained(s) /\ ptResult' = "ok" /\ UNCHANGED <<ptStreams, ptCursor, ptClosed, ptOut>>
  /\ UNCHANGED <<ptFixed, ptWriter, ptWire, ptSlots, ptHeld, ptRead>>

\* Arrival order: the first slot from the cursor on that has an item; the slots
\* passed on the way that are drained count as closed.
PtPollArrival ==
  /\ PtPolling /\ ptSort = "Arrival"
  /\ \/ \E o \in 0 .. PtN - 1 :
          LET s == (ptCursor + o) % PtN
              passed == {(ptCursor + p) % PtN : p \in 0 .. o - 1} IN
            /\ \A p \in passed : ptStreams[p] = <<>>
            /\ PtTake(s) /\ ptCursor' = (s + 1) % PtN
            /\ ptClosed' = ptClosed \cup {p \in passed : PtDrained(p)}
     \/ /\ \A s \in PtC : PtDrained(s)
        /\ ptResult' = "ok" /\ ptClosed' = PtC
        /\ UNCHANGED <<ptStreams, ptCursor, ptOut>>
  /\ UNCHANGED <<ptFixed, ptWriter, ptWire, ptSlots, ptHeld, ptRead>>

\* The reader is dropped when read_all_tables returns: its tasks are aborted and
\* their streams reset.
PtReaderDropped ==
  /\ ptResult # "none" /\ Len(ptSlots) = PtN /\ \E s \in PtC : ptRead[s] = "run"
  /\ ptRead' = [s \in PtC |-> "done"] /\ ptHeld' = [s \in PtC |-> 0]
  /\ ptEnd' = [c \in PtC |-> "cut"] /\ ptNet' = [c \in PtC |-> <<>>]
  /\ UNCHANGED <<ptFixed, ptWriter, ptLink, ptFaults, ptSlots, ptStreams, ptMerge>>

------------------------------------------------------------------------------
PtWriterTask(c) == PtTaskTakes(c) \/ PtTaskWrites(c) \/ PtTaskFinishes(c) \/ PtTaskFails(c)
PtReaderTask(s) == PtTaskReads(s) \/ PtTaskSends(s) \/ PtTaskStops(s)
PtPoll == PtPollOrdered \/ PtPollArrival \/ PtReaderDropped

PtNext ==
  \/ PtWriteTable \/ PtQueued \/ PtAbandon \/ PtFinishCall \/ PtFinished
  \/ PtStreamLost \/ PtConnectionLost
  \/ PtAccept \/ PtAcceptFails \/ PtListenerClosed
  \/ PtPoll
  \/ \E c \in PtC : PtWriterTask(c) \/ PtReaderTask(c)

\* Every task that can go on does; the reader accepts and polls; a writer that
\* has called finish or waits in write_table awaits it, or drops the call; and a
\* listener whose accept has failed is closed in the end.  Nothing forces the
\* writer to write or to finish, and nothing forces a failure.
PtFairness ==
  /\ WF_ptvars(PtQueued) /\ WF_ptvars(PtFinished)
  /\ WF_ptvars(PtAccept \/ PtAcceptFails) /\ WF_ptvars(PtPoll) /\ WF_ptvars(PtListenerClosed)
  /\ \A c \in PtC : WF_ptvars(PtWriterTask(c)) /\ WF_ptvars(PtReaderTask(c))

PtSpec == PtInit /\ [][PtNext]_ptvars

PtFairSpec == PtSpec /\ PtFairness

------------------------------------------------------------------------------
(* Properties.                                                             *)

\* A table is collected at most once, never when its write_table was dropped, and
\* only behind every earlier table of its stream that was not.
PtStreamOrder ==
  \A i \in DOMAIN ptOut :
    /\ ptOut[i] \in (1 .. ptNext) \ ptAbandoned
    /\ \A j \in 1 .. i - 1 : ptOut[j] # ptOut[i]
    /\ \A t \in (1 .. ptOut[i] - 1) \ ptAbandoned :
         PtRoute(t) = PtRoute(ptOut[i]) => \E j \in 1 .. i - 1 : ptOut[j] = t

\* No write_table was dropped of the tables 1 .. t.
PtUnbroken(t) == \A a \in ptAbandoned : t < a

\* The tables of one stream are collected in the order of their write_table calls,
\* none left out but those whose call was dropped; and an ordered reader collects
\* all tables in that order ("tables surface in global write order",
\* readers/parallel/tcp.rs, http.rs, quic.rs), up to the first dropped call: what
\* comes behind one is in no order that write_table and poll_next would keep.
PtInOrder ==
  /\ PtStreamOrder
  /\ ptSort = "Ordered" => \A i \in DOMAIN ptOut : PtUnbroken(i) => ptOut[i] = i

PtCollected(t) == \E i \in DOMAIN ptOut : ptOut[i] = t

\* When read_all_tables returns Ok, it holds every table whose write_table was not
\* dropped, and an ordered one every table before the first that was: a stream
\* that is cut short is an error, and never taken for the end.
PtOkIsComplete ==
  ptResult = "ok" =>
    \A t \in 1 .. ptNext :
      (IF ptSort = "Ordered" THEN PtUnbroken(t) ELSE t \notin ptAbandoned) => PtCollected(t)

\* No deadlock: once the writer has called finish, it and the reader both return,
\* also when one stream gets ahead of the one an ordered reader waits for, and
\* they share a window (from_tcp of HttpParallelTableReader).
PtBothReturn ==
  ptFinish = "finishing" ~> ptFinish \in {"ok", "err"} /\ ptResult # "none"
=============================================================================
