------------------------- MODULE ParallelLightstream -------------------------
(***************************************************************************)
(* The parallel Lightstream transport: one LightstreamParallelWriter fans  *)
(* a frame sequence round-robin over N TCP connections, one task and one   *)
(* bounded channel per connection; one LightstreamParallelReader accepts   *)
(* the connections, slots each by the index it announces, decodes it on a  *)
(* task of its own into a bounded channel, and merges the channels.        *)
(*                                                                         *)
(* The journey of a frame on connection c, each arrow an action:           *)
(*   route -> senders[c] -> held[c] -> net[c] -> rheld[s] -> streams[s]    *)
(*         -> emitted                                                      *)
(* A frame is its send position: the k-th call of route carries frame k,   *)
(* counted from 0.  Payload, tag and registry are the codec's subject.     *)
(***************************************************************************)
EXTENDS Integers, Sequences

CONSTANTS
  N,          \* stream_count, the same at both ends
  Depth,      \* STREAM_CHANNEL_DEPTH: 8 in both files
  NetCap,     \* bound: frames a socket buffers before a write blocks
  Wrap,       \* 2^width of the usize counters `next` and `cursor`
  Sort,       \* "Ordered", or "Arrival" for SortBehaviour::None / RequestKeys
  MaxSent,    \* bound: calls of route
  MaxFaults   \* bound: injected failures

ASSUME ConstantsAssumption ==
  /\ N \in 1..256                   \* the asserts of connect
  /\ Depth \in Nat \ {0}
  /\ NetCap \in Nat \ {0}
  /\ Wrap \in Nat \ {0}
  /\ Sort \in {"Ordered", "Arrival"}
  /\ MaxSent \in Nat
  /\ MaxFaults \in Nat

Conn == 0 .. N - 1
None == -1                          \* a slot with no connection yet
Err  == -1                          \* an item that is an io::Error

VARIABLES
  phase,     \* of the writer: connecting, open, finishing, finished, dropped
  opened,    \* connections `connect` has opened so far
  next,      \* calls of route so far (the code keeps it modulo Wrap)
  pending,   \* the frame whose `send(frame).await` has not returned, if any
  cancelled, \* history: frames whose send the caller abandoned
  joined,    \* tasks `finish` has awaited
  firstErr,  \* whether one of them reported an error
  senders,   \* [Conn -> frames in the mpsc channel to the writer task]
  wtask,     \* [Conn -> none, run, ok, err]: the writer task
  held,      \* [Conn -> the frame the writer task is writing, if any]
  net,       \* [Conn -> whole frames in flight on the socket]
  tail,      \* [Conn -> none, open, fin, cut, rst]: how the byte stream ends
  reader,    \* accepting, reading, ended, dropped, failed
  from,      \* [Conn -> the connection read by the task of this slot]
  rtask,     \* [Conn -> none, run, failing, done]: the reader task of a slot
  rheld,     \* [Conn -> the item whose `tx.send(..).await` has not returned]
  streams,   \* [Conn -> items in the mpsc channel of a slot]
  cursor,    \* next rotation position (Ordered) or scan start (Arrival)
  closed,    \* [Conn -> known to be drained], the arrival-order merge only
  emitted,   \* the items poll_next has returned
  faults     \* failures injected so far

writerVars == <<phase, opened, next, pending, cancelled, joined, firstErr>>
taskVars   == <<senders, wtask, held>>
netVars    == <<net, tail>>
rtaskVars  == <<from, rtask, rheld>>
mergeVars  == <<reader, cursor, closed, emitted>>
vars == <<writerVars, taskVars, netVars, rtaskVars, mergeVars, streams, faults>>

\* The writer's rotation: the frame of position k travels on this connection.
Route(k) == (k % Wrap) % N

\* The reader's rotation: the slot that holds the head of position k.
TargetFixed(k) == 0
Target(k) == (k % Wrap) % N

\* finish clears `senders`, and so does dropping the writer, finished or not.
SendersKept == phase = "finished"
SendersDropped == phase \in {"finishing", "finished", "dropped"}

\* The reading half of connection c was dropped by its reader task.
PeerGone(c) == \E s \in Conn : from[s] = c /\ rtask[s] = "done"

Init ==
  /\ phase = "connecting" /\ opened = 0 /\ next = 0 /\ pending = <<>>
  /\ cancelled = {}
  /\ joined = 0 /\ firstErr = FALSE
  /\ senders = [c \in Conn |-> <<>>]
  /\ wtask = [c \in Conn |-> "none"]
  /\ held = [c \in Conn |-> <<>>]
  /\ net = [c \in Conn |-> <<>>]
  /\ tail = [c \in Conn |-> "none"]
  /\ reader = "accepting"
  /\ from = [s \in Conn |-> None]
  /\ rtask = [s \in Conn |-> "none"]
  /\ rheld = [s \in Conn |-> <<>>]
  /\ streams = [s \in Conn |-> <<>>]
  /\ cursor = 0
  /\ closed = [s \in Conn |-> FALSE]
  /\ emitted = <<>>
  /\ faults = 0

------------------------------------------------------------------------------
(* The writer: connect, route, finish, drop.                               *)

\* One round of connect's loop: open the socket, announce the index, spawn.
Connect ==
  /\ phase = "connecting"
  /\ wtask' = [wtask EXCEPT ![opened] = "run"]
  /\ tail' = [tail EXCEPT ![opened] = "open"]
  /\ opened' = opened + 1
  /\ phase' = IF opened + 1 = N THEN "open" ELSE phase
  /\ UNCHANGED <<next, pending, cancelled, joined, firstErr, senders, held, net,
                 rtaskVars, mergeVars, streams, faults>>

\* A refused connection fails connect; the earlier senders are dropped.
ConnectFails ==
  /\ phase = "connecting" /\ faults < MaxFaults
  /\ phase' = "dropped"
  /\ faults' = faults + 1
  /\ UNCHANGED <<opened, next, pending, cancelled, joined, firstErr, taskVars,
                 netVars, rtaskVars, mergeVars, streams>>

\* route up to its await: the rotation moves on before the frame is queued.
RouteCall ==
  /\ phase = "open" /\ pending = <<>> /\ next < MaxSent
  /\ pending' = <<next>>
  /\ next' = next + 1
  /\ UNCHANGED <<phase, opened, cancelled, joined, firstErr, taskVars, netVars,
                 rtaskVars, mergeVars, streams, faults>>

\* The awaited send finds room in the channel of the frame's connection.
RouteDeliver ==
  /\ pending # <<>>
  /\ LET idx == Route(pending[1]) IN
       /\ wtask[idx] = "run"
       /\ Len(senders[idx]) < Depth
       /\ senders' = [senders EXCEPT ![idx] = Append(@, pending[1])]
  /\ pending' = <<>>
  /\ UNCHANGED <<phase, opened, next, cancelled, joined, firstErr, wtask, held,
                 netVars, rtaskVars, mergeVars, streams, faults>>

\* The awaited send finds the channel closed: BrokenPipe to the caller.
RouteBroken ==
  /\ pending # <<>>
  /\ wtask[Route(pending[1])] = "err"
  /\ pending' = <<>>
  /\ UNCHANGED <<phase, opened, next, cancelled, joined, firstErr, taskVars,
                 netVars, rtaskVars, mergeVars, streams, faults>>

\* The caller drops the future of route while it waits for room (a timeout, a
\* select).  One dropped after room was made, and before it was polled, leaves the
\* same behind as one dropped before.
RouteCancelled ==
  /\ pending # <<>>
  /\ LET idx == Route(pending[1]) IN wtask[idx] = "run" /\ Len(senders[idx]) = Depth
  /\ cancelled' = cancelled \cup {pending[1]}
  /\ pending' = <<>>
  /\ UNCHANGED <<phase, opened, next, joined, firstErr, taskVars, netVars,
                 rtaskVars, mergeVars, streams, faults>>

\* finish clears the senders; dropping the writer does no more than that.
Finish ==
  /\ phase = "open" /\ pending = <<>>
  /\ phase' \in {"finishing", "dropped"}
  /\ UNCHANGED <<opened, next, pending, cancelled, joined, firstErr, taskVars,
                 netVars, rtaskVars, mergeVars, streams, faults>>

\* finish awaits the tasks in order and keeps the first error.
JoinTask ==
  /\ phase = "finishing"
  /\ wtask[joined] \in {"ok", "err"}
  /\ firstErr' = (firstErr \/ wtask[joined] = "err")
  /\ joined' = joined + 1
  /\ phase' = IF joined + 1 = N THEN "finished" ELSE phase
  /\ UNCHANGED <<opened, next, pending, cancelled, taskVars, netVars, rtaskVars,
                 mergeVars, streams, faults>>

------------------------------------------------------------------------------
(* The writer task of connection c.                                        *)

\* A task that takes frames out of its channel before the last one is written.
TaskRecvAhead(c) ==
  /\ wtask[c] = "run" /\ senders[c] # <<>>
  /\ held' = [held EXCEPT ![c] = Append(@, Head(senders[c]))]
  /\ senders' = [senders EXCEPT ![c] = Tail(@)]
  /\ UNCHANGED <<writerVars, wtask, netVars, rtaskVars, mergeVars, streams,
                 faults>>

\* rx.recv().await yields a frame, once the frame before it is written.
TaskRecv(c) ==
  /\ wtask[c] = "run" /\ held[c] = <<>> /\ senders[c] # <<>>
  /\ held' = [held EXCEPT ![c] = <<Head(senders[c])>>]
  /\ senders' = [senders EXCEPT ![c] = Tail(@)]
  /\ UNCHANGED <<writerVars, wtask, netVars, rtaskVars, mergeVars, streams,
                 faults>>

\* send_frame completes. Bytes written to a peer that is gone are lost.
TaskWrite(c) ==
  /\ wtask[c] = "run" /\ held[c] # <<>> /\ tail[c] = "open"
  /\ \/ PeerGone(c) /\ UNCHANGED net
     \/ /\ Len(net[c]) < NetCap
        /\ net' = [net EXCEPT ![c] = Append(@, held[c][1])]
  /\ held' = [held EXCEPT ![c] = <<>>]
  /\ UNCHANGED <<writerVars, senders, wtask, tail, rtaskVars, mergeVars,
                 streams, faults>>

\* The loop is over: flush, shutdown, Ok.
TaskClose(c) ==
  /\ wtask[c] = "run" /\ held[c] = <<>> /\ senders[c] = <<>>
  /\ SendersDropped /\ tail[c] = "open"
  /\ wtask' = [wtask EXCEPT ![c] = "ok"]
  /\ tail' = [tail EXCEPT ![c] = "fin"]
  /\ UNCHANGED <<writerVars, senders, held, net, rtaskVars, mergeVars, streams,
                 faults>>

\* send_frame, flush or shutdown fails: `?` ends the task, its receiver goes
\* with every frame queued in it, and the socket closes - after whole frames
\* (an encode error), or in the middle of the one being written.
TaskFails(c) ==
  /\ wtask[c] = "run"
  /\ held[c] # <<>> \/ (senders[c] = <<>> /\ SendersDropped)
  /\ \/ /\ tail[c] = "rst"
        /\ UNCHANGED <<tail, faults>>
     \/ /\ tail[c] = "open"
        /\ \E t \in {"fin", "cut"} :
             /\ t = "cut" => held[c] # <<>>
             /\ tail' = [tail EXCEPT ![c] = t]
        /\ \/ PeerGone(c) /\ UNCHANGED faults
           \/ faults < MaxFaults /\ faults' = faults + 1
  /\ wtask' = [wtask EXCEPT ![c] = "err"]
  /\ senders' = [senders EXCEPT ![c] = <<>>]
  /\ held' = [held EXCEPT ![c] = <<>>]
  /\ UNCHANGED <<writerVars, net, rtaskVars, mergeVars, streams>>

\* The network resets connection c; what the receiver has not read is lost.
Reset(c) ==
  /\ tail[c] \in {"open", "fin", "cut"} /\ faults < MaxFaults
  /\ tail' = [tail EXCEPT ![c] = "rst"]
  /\ net' = [net EXCEPT ![c] = <<>>]
  /\ faults' = faults + 1
  /\ UNCHANGED <<writerVars, taskVars, rtaskVars, mergeVars, streams>>

------------------------------------------------------------------------------
(* The reader: accept and the task of slot s.                              *)

\* The byte connect wrote first on connection c.
FirstFreeSlot(c) ==
  CHOOSE s \in Conn : from[s] = None /\ \A r \in Conn : r < s => from[r] # None
AnnouncedIndex(c) == c

\* One round of accept's loop. Pending connections are taken in any order.
Accept ==
  /\ reader = "accepting"
  /\ \E c \in 0 .. opened - 1 :
       /\ \A s \in Conn : from[s] # c
       /\ tail[c] # "rst"
       /\ from' = [from EXCEPT ![AnnouncedIndex(c)] = c]
       /\ rtask' = [rtask EXCEPT ![AnnouncedIndex(c)] = "run"]
  /\ reader' = IF \A s \in Conn : from'[s] # None THEN "reading" ELSE reader
  /\ UNCHANGED <<writerVars, taskVars, netVars, rheld, streams, cursor, closed,
                 emitted, faults>>

\* The index byte of a reset connection cannot be read: accept fails. The
\* channels of the slots filled so far are dropped, their tasks detached.
AcceptFails ==
  /\ reader = "accepting"
  /\ \E c \in Conn : tail[c] = "rst" /\ \A s \in Conn : from[s] # c
  /\ reader' = "failed"
  /\ streams' = [s \in Conn |-> <<>>]
  /\ UNCHANGED <<writerVars, taskVars, netVars, rtaskVars, cursor, closed,
                 emitted, faults>>

\* reader.next() yields the next frame of the connection.
ReadFrame(s) ==
  /\ rtask[s] = "run" /\ rheld[s] = <<>> /\ net[from[s]] # <<>>
  /\ rheld' = [rheld EXCEPT ![s] = <<Head(net[from[s]])>>]
  /\ net' = [net EXCEPT ![from[s]] = Tail(@)]
  /\ UNCHANGED <<writerVars, taskVars, tail, from, rtask, mergeVars, streams,
                 faults>>

\* reader.next() yields None: the stream ended between two frames.
ReadEnd(s) ==
  /\ rtask[s] = "run" /\ rheld[s] = <<>>
  /\ net[from[s]] = <<>> /\ tail[from[s]] = "fin"
  /\ rtask' = [rtask EXCEPT ![s] = "done"]
  /\ UNCHANGED <<writerVars, taskVars, netVars, from, rheld, mergeVars, streams,
                 faults>>

\* reader.next() yields an error: a truncated frame, a reset connection, or a
\* frame the decoder refuses.
ReadError(s) ==
  /\ rtask[s] = "run" /\ rheld[s] = <<>>
  /\ \/ /\ net[from[s]] = <<>> /\ tail[from[s]] = "cut"
        /\ UNCHANGED faults
     \/ /\ tail[from[s]] = "rst"
        /\ UNCHANGED faults
     \/ /\ net[from[s]] # <<>> /\ faults < MaxFaults
        /\ faults' = faults + 1
  /\ rheld' = [rheld EXCEPT ![s] = <<Err>>]
  /\ rtask' = [rtask EXCEPT ![s] = "failing"]
  /\ UNCHANGED <<writerVars, taskVars, netVars, from, mergeVars, streams>>

\* tx.send(item).await finds room, or the receiver gone; the task ends after
\* an error it read and after one of the channel.
TaskSend(s) ==
  /\ rheld[s] # <<>>
  /\ \/ /\ reader # "failed" /\ Len(streams[s]) < Depth
        /\ streams' = [streams EXCEPT ![s] = Append(@, rheld[s][1])]
        /\ rtask' = [rtask EXCEPT ![s] = IF @ = "failing" THEN "done" ELSE @]
     \/ /\ reader = "failed"
        /\ rtask' = [rtask EXCEPT ![s] = "done"]
        /\ UNCHANGED streams
  /\ rheld' = [rheld EXCEPT ![s] = <<>>]
  /\ UNCHANGED <<writerVars, taskVars, netVars, from, mergeVars, faults>>

------------------------------------------------------------------------------
(* The merge: poll_next under either SortBehaviour.                        *)

\* The channel of slot s is closed and empty: poll_recv returns None.
EmptyNow(s) == streams[s] = <<>>
Drained(s) == rtask[s] = "done" /\ streams[s] = <<>>

Peek(s) ==
  /\ emitted' = Append(emitted, Head(streams[s]))
  /\ UNCHANGED streams

Yield(s) ==
  /\ emitted' = Append(emitted, Head(streams[s]))
  /\ streams' = [streams EXCEPT ![s] = Tail(@)]

\* Ordered: one targeted recv on the connection of the next position.
PollOrdered ==
  /\ Sort = "Ordered" /\ reader = "reading"
  /\ LET idx == Target(cursor) IN
       \/ /\ streams[idx] # <<>>
          /\ Yield(idx)
          /\ cursor' = cursor + 1
          /\ UNCHANGED reader
       \/ /\ Drained(idx)
          /\ reader' = "ended"
          /\ UNCHANGED <<cursor, emitted, streams>>
  /\ UNCHANGED <<writerVars, taskVars, netVars, rtaskVars, closed, faults>>

\* Arrival order: scan from the cursor, mark the drained, take the first ready.
PollArrival ==
  LET At(off)  == (cursor + off) % N
      Ready(i) == ~closed[i] /\ streams[i] # <<>>
      Closing(stop) == [i \in Conn |-> closed[i] \/
                          \E off \in 0 .. stop - 1 : At(off) = i /\ Drained(i)]
  IN
  /\ Sort = "Arrival" /\ reader = "reading"
  /\ \/ \E off \in 0 .. N - 1 :
          /\ Ready(At(off))
          /\ \A o \in 0 .. off - 1 : ~Ready(At(o))
          /\ Yield(At(off))
          /\ closed' = Closing(off)
          /\ cursor' = (At(off) + 1) % N
          /\ UNCHANGED reader
     \/ /\ \A i \in Conn : ~Ready(i)
        /\ closed' = Closing(N)
        /\ reader' = IF \A i \in Conn : closed'[i] THEN "ended" ELSE reader
        /\ UNCHANGED <<cursor, emitted, streams>>
  /\ UNCHANGED <<writerVars, taskVars, netVars, rtaskVars, faults>>

\* Dropping the reader aborts its tasks, and with them their sockets. To do so
\* before the stream has ended counts as a failure of the consumer.
ReaderDrop ==
  /\ \/ reader = "ended" /\ UNCHANGED faults
     \/ reader = "reading" /\ faults < MaxFaults /\ faults' = faults + 1
  /\ reader' = "dropped"
  /\ rtask' = [s \in Conn |-> "done"]
  /\ rheld' = [s \in Conn |-> <<>>]
  /\ streams' = [s \in Conn |-> <<>>]
  /\ UNCHANGED <<writerVars, taskVars, netVars, from, cursor, closed, emitted>>

\* Nothing is left to do at either end.
Terminated ==
  /\ \/ /\ phase \in {"finished", "dropped"} /\ reader = "dropped"
        /\ \A c \in Conn : wtask[c] # "run"
     \/ reader = "failed"                 \* no one reads the backlog
     \/ phase = "dropped" /\ opened < N  \* accept waits for a peer that quit
  /\ UNCHANGED vars

------------------------------------------------------------------------------
WriterTask(c) == TaskRecv(c) \/ TaskWrite(c) \/ TaskClose(c) \/ TaskFails(c)
ReaderTask(s) == ReadFrame(s) \/ ReadEnd(s) \/ ReadError(s) \/ TaskSend(s)

\* poll_next goes by the SortBehaviour.
Poll == IF Sort = "Ordered" THEN PollOrdered ELSE PollArrival

Next ==
  \/ Connect \/ ConnectFails
  \/ RouteCall \/ RouteDeliver \/ RouteBroken
  \/ Finish \/ JoinTask
  \/ \E c \in Conn : WriterTask(c) \/ Reset(c)
  \/ Accept \/ AcceptFails
  \/ \E s \in Conn : ReaderTask(s)
  \/ Poll \/ ReaderDrop
  \/ Terminated

\* The runtime runs every spawned task that can make progress; the consumer
\* keeps polling until the stream ends and then lets go of the reader.
Fairness ==
  /\ WF_vars(Connect) /\ WF_vars(JoinTask) /\ WF_vars(Accept \/ AcceptFails)
  /\ WF_vars(RouteDeliver \/ RouteBroken)
  /\ \A c \in Conn : WF_vars(WriterTask(c))
  /\ \A s \in Conn : WF_vars(ReaderTask(s))
  /\ WF_vars(Poll)
  /\ WF_vars(reader = "ended" /\ ReaderDrop)

Spec == Init /\ [][Next]_vars
FairSpec == Spec /\ Fairness

\* The same system with a caller that may cancel a send.
CancelSpec == Init /\ [][Next \/ RouteCancelled]_vars /\ Fairness

------------------------------------------------------------------------------
(* Properties                                                              *)

Items == Nat \cup {Err}

WriterTypeOK ==
  /\ phase \in {"connecting", "open", "finishing", "finished", "dropped"}
  /\ opened \in 0 .. N
  /\ next \in Nat
  /\ pending \in Seq(Nat) /\ Len(pending) <= 1
  /\ cancelled \subseteq Nat
  /\ joined \in 0 .. N
  /\ firstErr \in BOOLEAN

ConnTypeOK ==
  /\ senders \in [Conn -> Seq(Nat)]
  /\ wtask \in [Conn -> {"none", "run", "ok", "err"}]
  /\ held \in [Conn -> Seq(Nat)] /\ \A d \in Conn : Len(held[d]) <= 1
  /\ net \in [Conn -> Seq(Nat)]
  /\ tail \in [Conn -> {"none", "open", "fin", "cut", "rst"}]

ReaderTypeOK ==
  /\ reader \in {"accepting", "reading", "ended", "dropped", "failed"}
  /\ from \in [Conn -> Conn \cup {None}]
  /\ rtask \in [Conn -> {"none", "run", "failing", "done"}]
  /\ rheld \in [Conn -> Seq(Items)] /\ \A d \in Conn : Len(rheld[d]) <= 1
  /\ streams \in [Conn -> Seq(Items)]
  /\ cursor \in Nat
  /\ closed \in [Conn -> BOOLEAN]
  /\ emitted \in Seq(Items)

TypeOK == WriterTypeOK /\ ConnTypeOK /\ ReaderTypeOK /\ faults \in Nat

Emitted == {emitted[j] : j \in DOMAIN emitted}

\* The application is done with the writer: it called finish or dropped it.
WriterGone == phase \in {"finishing", "finished", "dropped"}

\* The global order an Ordered reader promises: position j of the merged
\* stream is frame j, or the error that replaced it, whatever the order the
\* connections were accepted in, and whatever failed.
OrderedOutput ==
  Sort = "Ordered" =>
    \A j \in DOMAIN emitted : emitted[j] \in {j - 1, Err}

\* Order within a connection is preserved and no frame surfaces twice, under
\* either SortBehaviour, with failures and cancelled sends.
ConnectionOrder ==
  \A i, j \in DOMAIN emitted :
    /\ i < j /\ emitted[i] # Err /\ emitted[j] # Err
    /\ Route(emitted[i]) = Route(emitted[j])
    => emitted[i] < emitted[j]

\* When poll_next reports the end of the stream, no error item surfaced and no
\* writer task failed, then every frame that was sent has surfaced: finish
\* returning Ok at one end and None at the other leave nothing in between.
CleanEndIsComplete ==
  /\ reader = "ended" /\ Err \notin Emitted
  /\ \A c \in Conn : wtask[c] # "err"
  => /\ WriterGone
     /\ 0 .. next - 1 \subseteq Emitted \cup cancelled

\* Backpressure never deadlocks the rotation: with full channels everywhere,
\* every frame that was sent still surfaces, unless something failed.
EveryFrameSurfaces ==
  \A k \in 0 .. MaxSent - 1 : next > k ~> (k \in Emitted \/ faults > 0)

\* finish returns, whatever failed at either end, except when the receiver
\* gave up accepting and leaves connections in its backlog for ever.
FinishReturns == phase = "finishing" ~> (phase = "finished" \/ reader = "failed")

\* A writer that finishes or goes away releases the consumer: the merged
\* stream ends once all connections exist, under any failure.
ReaderReleased ==
  (WriterGone /\ opened = N) ~> (reader \in {"ended", "dropped", "failed"})

\* The Ordered reader implements its abstract specification.
Delivery == INSTANCE OrderedDelivery WITH sent <- next, out <- emitted
ImplementsOrderedDelivery == Delivery!Spec
==============================================================================
