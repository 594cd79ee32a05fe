------------------------------- MODULE WebSocket -------------------------------
(***************************************************************************)
(* One end of a WebSocket: the client's upgrade handshake, WsRead, which   *)
(* parses frames off the socket and answers pings, and WsWrite, which puts *)
(* the buffer of each poll_write into a binary frame.  Both write to one   *)
(* socket behind a mutex, and two tasks poll them.                         *)
(*                                                                         *)
(* The wire is a sequence of cells: the handshake response (read by a      *)
(* client), then for each frame a header of one cell, one more when a key  *)
(* masks the payload, and the payload.  A masked payload cell reads right  *)
(* only under the key byte it was masked with.  The peer is any peer.      *)
(***************************************************************************)
EXTENDS Integers, Sequences, Functions

CONSTANTS
  WsStreams,    \* what the peer may send: sequences of frames [op, len]
  WsSizes,      \* sizes of the buffers the application writes
  WsMaxCalls,   \* bound: buffers written
  WsMaxDrops    \* bound: writes dropped by their caller

\* Data stands for binary and continuation frames, bad for a control frame that
\* is fragmented or too long and for an opcode nobody expects.
WsOps == {"data", "ping", "pong", "close", "bad"}

ASSUME WsAssumption ==
  /\ WsStreams \subseteq Seq([op : WsOps, len : Nat])
  /\ WsSizes \subseteq Nat \ {0}
  /\ WsMaxCalls \in Nat /\ WsMaxDrops \in Nat

VARIABLES
  wsClient,  \* the role of this end; clients mask what they write
  wsBusy,    \* the socket takes parts of a write and may be full
  wsFrames,  \* what the peer sends
  wsCut,     \* how many cells of it arrive before the peer closes
  wsIn,      \* those that have not been read
  wsState,   \* WsReadState, or the handshake before it
  wsNeed,    \* header: `filled`; payloads: `remaining`
  wsMask,    \* mask_offset
  wsPing,    \* the payload of the ping being read
  wsPong,    \* the cells of the pong being sent that are not written
  wsGot,     \* the payload cells handed to the caller
  wsEnd,     \* how reading ended: none, end, error, refused
  wsWrite,   \* WsWriteState [st, of, total, done], `of` the call that began it
  wsCall,    \* the caller's write [n, size, st]: st idle, poll, shut, broken, panicked
  wsLock,    \* the writer task holds the mutex, in poll_write
  wsDrops,   \* writes dropped so far
  wsOut,     \* the cells written to the socket
  wsFull,    \* the socket takes nothing now
  wsAsleep,  \* the tasks that wait until it does
  wsWaker    \* the one of them it will wake: the last that found it full

wsReader == <<wsState, wsNeed, wsMask, wsPing, wsPong, wsGot, wsEnd>>
wsWriter == <<wsWrite, wsCall, wsLock, wsDrops>>
wsSocket == <<wsOut, wsFull, wsAsleep, wsWaker>>
wsFixed == <<wsClient, wsBusy, wsFrames, wsCut>>
wsvars == <<wsFixed, wsIn, wsReader, wsWriter, wsSocket>>

------------------------------------------------------------------------------
(* The wire.                                                               *)

WsResponseLen == 2   \* cells of a handshake response
WsKeyLen == 2        \* bytes of a masking key

\* A server reads masked frames, a client unmasked ones.
WsHeaderLen(client) == IF client THEN 1 ELSE 2

\* Cells of frame i: payload cells from 1 on, header cells below.
WsCells(client, i, len) ==
  [k \in 1 .. WsHeaderLen(client) + len |-> <<i, k - WsHeaderLen(client)>>]

WsHandshake(client) == IF client THEN [k \in 1 .. WsResponseLen |-> <<0, k>>] ELSE <<>>

WsWireOf(client, frames) ==
  LET upto[i \in 0 .. Len(frames)] ==
        IF i = 0 THEN WsHandshake(client) ELSE upto[i - 1] \o WsCells(client, i, frames[i].len)
  IN upto[Len(frames)]

WsWire == WsWireOf(wsClient, wsFrames)

WsPings == {i \in DOMAIN wsFrames : wsFrames[i].op = "ping"}

\* What reading n payload cells from key position p yields: a cell unmasked with
\* another byte of the key than it was masked with is lost.
WsUnmask(n, p) ==
  [j \in 1 .. n |->
    LET k == wsIn[j][2] IN
      IF wsClient \/ (k - 1) % WsKeyLen = (p + j - 1) % WsKeyLen
      THEN wsIn[j] ELSE <<wsIn[j][1], -1>>]

\* Outgoing cells are [frame, at, of, byte]: cell `at` of the `of` of a frame.
WsPongCells(i, payload) ==
  [k \in 1 .. Len(payload) + 1 |->
    [frame |-> <<"pong", i>>, at |-> k, of |-> Len(payload) + 1,
     byte |-> IF k = 1 THEN <<0, 0>> ELSE payload[k - 1]]]

WsHeadLen == 2       \* cells of an outgoing data header

\* The cells a .. b of the data frame of a call, written from the buffer of
\* another perhaps.
WsDataCells(call, total, a, b, source) ==
  [k \in 1 .. b - a + 1 |->
    [frame |-> <<"data", call>>, at |-> a + k - 1, of |-> WsHeadLen + total,
     byte |-> IF a + k - 1 <= WsHeadLen THEN <<0, 0>> ELSE <<source, a + k - 1 - WsHeadLen>>]]

WsCloseCells == [k \in 1 .. 2 |-> [frame |-> <<"close", 0>>, at |-> k, of |-> 2, byte |-> <<0, 0>>]]

WsInit ==
  /\ wsClient \in BOOLEAN /\ wsBusy \in BOOLEAN /\ wsFrames \in WsStreams
  /\ wsCut \in 0 .. Len(WsWire)
  /\ wsIn = SubSeq(WsWire, 1, wsCut)
  /\ wsState = IF wsClient THEN "handshake" ELSE "header"
  /\ wsNeed = 0 /\ wsMask = 0 /\ wsPing = <<>> /\ wsPong = <<>>
  /\ wsGot = <<>> /\ wsEnd = "none"
  /\ wsWrite = [st |-> "idle", of |-> 0, total |-> 0, done |-> 0]
  /\ wsCall = [n |-> 0, size |-> 0, st |-> "idle"]
  /\ wsLock = FALSE /\ wsDrops = 0
  /\ wsOut = <<>> /\ wsFull = FALSE /\ wsAsleep = {} /\ wsWaker = "none"

------------------------------------------------------------------------------
(* The socket.                                                             *)

\* How much of n cells a write takes.
WsTaken(n) == IF wsBusy THEN 1 .. n ELSE {n}

WsPut(cells) ==
  /\ wsOut' = wsOut \o cells
  /\ wsFull' \in (IF wsBusy THEN BOOLEAN ELSE {FALSE})
  /\ UNCHANGED <<wsAsleep, wsWaker>>

\* A poll that finds the socket full: it keeps one waker, the last.
WsWait(task, waker) ==
  /\ wsAsleep' = wsAsleep \cup {task} /\ wsWaker' = waker
  /\ UNCHANGED <<wsOut, wsFull>>

WsDrain ==
  /\ wsFull
  /\ wsFull' = FALSE
  /\ wsAsleep' = wsAsleep \ {wsWaker} /\ wsWaker' = "none"
  /\ UNCHANGED <<wsFixed, wsIn, wsReader, wsWriter, wsOut>>

------------------------------------------------------------------------------
(* WsRead.                                                                 *)

\* A read of up to n cells; none are left only at the end.
WsReads(n) == 1 .. (IF n < Len(wsIn) THEN n ELSE Len(wsIn))

WsTake(n) == wsIn' = SubSeq(wsIn, n + 1, Len(wsIn))

WsStop(e) == wsState' = "closed" /\ wsEnd' = e /\ UNCHANGED <<wsNeed, wsMask, wsPing, wsPong>>

WsNextFrame == wsState' = "header" /\ wsNeed' = 0

\* The response is read one byte at a time.
WsShakeBytes == 1

\* client_handshake, until the terminator of the response.
WsShake ==
  /\ wsState = "handshake" /\ wsIn # <<>>
  /\ \E n \in WsReads(WsShakeBytes) :
       /\ WsTake(n)
       /\ \/ /\ wsNeed + n < WsResponseLen
             /\ wsNeed' = wsNeed + n
             /\ UNCHANGED <<wsState, wsMask, wsPing, wsPong, wsEnd>>
          \/ /\ wsNeed + n >= WsResponseLen
             /\ WsNextFrame
             /\ UNCHANGED <<wsMask, wsPing, wsPong, wsEnd>>
          \/ /\ wsNeed + n >= WsResponseLen     \* not 101, or another key
             /\ WsStop("refused")
  /\ UNCHANGED <<wsFixed, wsGot, wsWriter, wsSocket>>

\* A header is complete: what its opcode leads to.
WsParsed(i) ==
  LET f == wsFrames[i] IN
    CASE f.op \in {"data", "pong"} /\ f.len = 0 ->
           WsNextFrame /\ UNCHANGED <<wsMask, wsPing, wsPong, wsEnd>>
      [] f.op = "data" /\ f.len > 0 ->
           wsState' = "payload" /\ wsNeed' = f.len /\ wsMask' = 0
           /\ UNCHANGED <<wsPing, wsPong, wsEnd>>
      [] f.op = "pong" /\ f.len > 0 ->
           wsState' = "ignore" /\ wsNeed' = f.len /\ UNCHANGED <<wsMask, wsPing, wsPong, wsEnd>>
      [] f.op = "ping" /\ f.len > 0 ->
           wsState' = "ping" /\ wsNeed' = f.len /\ wsPing' = <<>>
           /\ UNCHANGED <<wsMask, wsPong, wsEnd>>
      [] f.op = "ping" /\ f.len = 0 ->
           wsState' = "pong" /\ wsPong' = WsPongCells(i, <<>>)
           /\ UNCHANGED <<wsNeed, wsMask, wsPing, wsEnd>>
      [] f.op = "close" -> WsStop("end")
      [] f.op = "bad" -> WsStop("error")

\* The first bytes tell how long the header is, so it is read in two goes.
WsHeaderRead ==
  /\ wsState = "header" /\ wsIn # <<>>
  /\ WsTake(1)
  /\ IF wsNeed + 1 < WsHeaderLen(wsClient)
     THEN wsNeed' = wsNeed + 1 /\ UNCHANGED <<wsState, wsMask, wsPing, wsPong, wsEnd>>
     ELSE WsParsed(wsIn[1][1])
  /\ UNCHANGED <<wsFixed, wsGot, wsWriter, wsSocket>>

\* Mutant: every read starts the key again.
WsMaskRestarts(n) == 0

\* The key goes on where the last read of this payload stopped.
WsMaskAfter(n) == IF wsClient THEN wsMask ELSE (wsMask + n) % WsKeyLen

WsPayloadRead ==
  /\ wsState = "payload"
  /\ \E n \in WsReads(wsNeed) :
       /\ WsTake(n)
       /\ wsGot' = wsGot \o WsUnmask(n, wsMask)
       /\ wsMask' = WsMaskAfter(n)
       /\ IF n = wsNeed THEN WsNextFrame ELSE wsNeed' = wsNeed - n /\ UNCHANGED wsState
  /\ UNCHANGED <<wsFixed, wsPing, wsPong, wsEnd, wsWriter, wsSocket>>

\* A ping's payload, unmasked by its own position, is what the pong echoes.
WsPingRead ==
  /\ wsState = "ping"
  /\ \E n \in WsReads(wsNeed) :
       LET payload == wsPing \o WsUnmask(n, Len(wsPing)) IN
         /\ WsTake(n)
         /\ wsPing' = payload /\ wsNeed' = wsNeed - n
         /\ IF n = wsNeed THEN wsState' = "pong" /\ wsPong' = WsPongCells(wsIn[1][1], payload)
            ELSE UNCHANGED <<wsState, wsPong>>
  /\ UNCHANGED <<wsFixed, wsMask, wsGot, wsEnd, wsWriter, wsSocket>>

WsIgnoredRead ==
  /\ wsState = "ignore"
  /\ \E n \in WsReads(wsNeed) :
       /\ WsTake(n)
       /\ IF n = wsNeed THEN WsNextFrame ELSE wsNeed' = wsNeed - n /\ UNCHANGED wsState
  /\ UNCHANGED <<wsFixed, wsMask, wsPing, wsPong, wsGot, wsEnd, wsWriter, wsSocket>>

\* A read of nothing ends the stream, between frames or inside one; inside the
\* handshake it is an error.
WsEof ==
  /\ wsState \in {"handshake", "header", "payload", "ping", "ignore"} /\ wsIn = <<>>
  /\ WsStop(IF wsState = "handshake" THEN "refused" ELSE "end")
  /\ UNCHANGED <<wsFixed, wsIn, wsGot, wsWriter, wsSocket>>

\* The socket reports an error; the caller does not poll again.
WsReadErr ==
  /\ wsState # "closed"
  /\ WsStop(IF wsState = "handshake" THEN "refused" ELSE "error")
  /\ UNCHANGED <<wsFixed, wsIn, wsGot, wsWriter, wsSocket>>

\* The writing half was shut down, or has reported an error.
WsNoSocket == {"shut", "broken"}

\* One turn of SendingPong: the mutex is held for the one poll_write.
WsPongWrite ==
  /\ wsState = "pong" /\ "reader" \notin wsAsleep /\ ~wsLock
  /\ wsCall.st \notin WsNoSocket /\ ~wsFull
  /\ \E n \in WsTaken(Len(wsPong)) :
       /\ WsPut(SubSeq(wsPong, 1, n))
       /\ wsPong' = SubSeq(wsPong, n + 1, Len(wsPong))
       /\ IF n = Len(wsPong) THEN WsNextFrame ELSE UNCHANGED <<wsState, wsNeed>>
  /\ UNCHANGED <<wsFixed, wsIn, wsMask, wsPing, wsGot, wsEnd, wsWriter>>

\* Mutant: Pending without asking the socket to wake the task.
WsNobody == "none"

\* Whom the poll_write of the pong registers.
WsPongWaker == "reader"

WsPongWaits ==
  /\ wsState = "pong" /\ "reader" \notin wsAsleep /\ ~wsLock
  /\ wsCall.st \notin WsNoSocket /\ wsFull
  /\ WsWait("reader", WsPongWaker)
  /\ UNCHANGED <<wsFixed, wsIn, wsReader, wsWriter>>

\* Then nothing can be written: reading ends with the first ping.
WsPongFails ==
  /\ wsState = "pong" /\ wsCall.st \in WsNoSocket
  /\ WsStop("error")
  /\ UNCHANGED <<wsFixed, wsIn, wsGot, wsWriter, wsSocket>>

WsReadStep ==
  \/ WsShake \/ WsHeaderRead \/ WsPayloadRead \/ WsPingRead \/ WsIgnoredRead \/ WsEof
  \/ WsPongWrite \/ WsPongWaits \/ WsPongFails

------------------------------------------------------------------------------
(* WsWrite and its caller.                                                 *)

\* write_all of another buffer.
WsCallWrite ==
  /\ wsCall.st = "idle" /\ wsCall.n < WsMaxCalls
  /\ wsState # "handshake" /\ wsEnd # "refused"
  /\ \E s \in WsSizes : wsCall' = [n |-> wsCall.n + 1, size |-> s, st |-> "poll"]
  /\ UNCHANGED <<wsFixed, wsIn, wsReader, wsWrite, wsLock, wsDrops, wsSocket>>

\* The caller drops a write that waits; what WsWrite has begun stays begun.
WsDropWrite ==
  /\ wsCall.st = "poll" /\ ~wsLock /\ wsWrite.st # "idle" /\ wsDrops < WsMaxDrops
  /\ wsCall' = [wsCall EXCEPT !.st = "idle"]
  /\ wsDrops' = wsDrops + 1
  /\ wsAsleep' = wsAsleep \ {"writer"}
  /\ UNCHANGED <<wsFixed, wsIn, wsReader, wsWrite, wsLock, wsOut, wsFull, wsWaker>>

\* poll_write takes the mutex until it returns; the header of a new frame counts
\* the bytes of this buffer, and a client masks a copy of it.
WsPollWrite ==
  /\ wsCall.st = "poll" /\ "writer" \notin wsAsleep /\ ~wsLock
  /\ wsLock' = TRUE
  /\ wsWrite' = IF wsWrite.st # "idle" THEN wsWrite
                ELSE [st |-> "head", of |-> wsCall.n, total |-> wsCall.size, done |-> 0]
  /\ UNCHANGED <<wsFixed, wsIn, wsReader, wsCall, wsDrops, wsSocket>>

\* Mutant: the mutex is taken for each part, as SendingPong does.
WsLockPerPart == FALSE

\* Whether the mutex is held until poll_write returns.
WsLockWhole == TRUE

WsHeadWrite ==
  /\ wsLock /\ wsWrite.st = "head" /\ ~wsFull
  /\ \E n \in WsTaken(WsHeadLen - wsWrite.done) :
       LET done == wsWrite.done + n IN
         /\ WsPut(WsDataCells(wsWrite.of, wsWrite.total, wsWrite.done + 1, done, 0))
         /\ wsWrite' = IF done < WsHeadLen THEN [wsWrite EXCEPT !.done = done]
                       ELSE [wsWrite EXCEPT !.st = "body", !.done = 0]
  /\ wsLock' = WsLockWhole
  /\ UNCHANGED <<wsFixed, wsIn, wsReader, wsCall, wsDrops>>

\* A client's source is its masked copy, a server's the buffer of this call,
\* whichever began the frame.
WsSource == IF wsClient THEN [n |-> wsWrite.of, len |-> wsWrite.total]
            ELSE [n |-> wsCall.n, len |-> wsCall.size]

\* What is left of the frame, as far as the source goes.  With a frame left over
\* from a dropped write that may be nothing, and then poll_write loops for ever
\* (or panics) with the mutex held: no action is enabled.
WsLeft == (IF wsWrite.total < WsSource.len THEN wsWrite.total ELSE WsSource.len) - wsWrite.done

\* poll_write returns the size of the frame it finished.  write_all goes on with
\* what that leaves of its buffer, and panics if it is more than the buffer.
WsWritten(total) ==
  wsCall' = IF total < wsCall.size THEN [wsCall EXCEPT !.size = wsCall.size - total]
            ELSE [wsCall EXCEPT !.st = IF total = wsCall.size THEN "idle" ELSE "panicked"]

WsBodyWrite ==
  /\ wsLock /\ wsWrite.st = "body" /\ ~wsFull
  /\ WsLeft > 0
  /\ \E n \in WsTaken(WsLeft) :
       LET done == wsWrite.done + n IN
         /\ WsPut(WsDataCells(wsWrite.of, wsWrite.total, WsHeadLen + wsWrite.done + 1,
                              WsHeadLen + done, WsSource.n))
         /\ IF done < wsWrite.total
            THEN wsWrite' = [wsWrite EXCEPT !.done = done] /\ wsLock' = WsLockWhole /\ UNCHANGED wsCall
            ELSE /\ wsWrite' = [wsWrite EXCEPT !.st = "idle", !.done = 0]
                 /\ wsLock' = FALSE
                 /\ WsWritten(wsWrite.total)
  /\ UNCHANGED <<wsFixed, wsIn, wsReader, wsDrops>>

WsWriteWaits ==
  /\ wsLock /\ wsFull /\ (wsWrite.st = "body" => WsLeft > 0)
  /\ wsLock' = FALSE
  /\ WsWait("writer", "writer")
  /\ UNCHANGED <<wsFixed, wsIn, wsReader, wsWrite, wsCall, wsDrops>>

\* The socket reports an error, and takes nothing more.
WsWriteErr ==
  /\ wsLock /\ (wsWrite.st = "body" => WsLeft > 0)
  /\ wsLock' = FALSE /\ wsCall' = [wsCall EXCEPT !.st = "broken"]
  /\ UNCHANGED <<wsFixed, wsIn, wsReader, wsWrite, wsDrops, wsSocket>>

\* poll_shutdown writes a close frame, or what the socket takes of it, and shuts
\* the socket down.
WsShutdown ==
  /\ wsCall.st = "idle" /\ ~wsLock
  /\ wsState # "handshake" /\ wsEnd # "refused"
  /\ \E n \in IF wsFull THEN {0} ELSE WsTaken(Len(WsCloseCells)) :
       wsOut' = wsOut \o SubSeq(WsCloseCells, 1, n)
  /\ wsCall' = [wsCall EXCEPT !.st = "shut"]
  /\ UNCHANGED <<wsFixed, wsIn, wsReader, wsWrite, wsLock, wsDrops, wsFull, wsAsleep, wsWaker>>

WsWriteStep == WsPollWrite \/ WsHeadWrite \/ WsBodyWrite \/ WsWriteWaits

WsNext ==
  \/ WsDrain
  \/ WsReadStep \/ WsReadErr
  \/ WsWriteErr
  \/ WsWriteStep \/ WsCallWrite \/ WsDropWrite \/ WsShutdown

\* The reader is polled until it ends, a writer that was called is polled, and a
\* full socket takes cells again.
WsFairness == WF_wsvars(WsReadStep) /\ WF_wsvars(WsWriteStep) /\ WF_wsvars(WsDrain)

WsSpec == WsInit /\ [][WsNext]_wsvars

WsFairSpec == WsSpec /\ WsFairness

------------------------------------------------------------------------------
(* Properties.                                                             *)

\* The cells that have been read, and those of them that are data.
WsConsumed == SubSeq(WsWire, 1, wsCut - Len(wsIn))

WsIsData(c) == c[1] > 0 /\ c[2] > 0 /\ wsFrames[c[1]].op = "data"

\* A cell is sent before another.
WsBefore(c, d) == c[1] < d[1] \/ (c[1] = d[1] /\ c[2] < d[2])

\* The caller has the payload of the data frames as far as they were read, in
\* order, each byte once and unmasked, whatever the handshake left in the socket,
\* wherever reads end, and whatever control frames come between; and a stream
\* that ends was read to its end or to a close frame (poll_read and poll_next of
\* WsRead, client_handshake).
WsDataInOrder ==
  /\ Range(wsGot) = {c \in Range(WsConsumed) : WsIsData(c)}
  /\ \A i, j \in DOMAIN wsGot : i < j => WsBefore(wsGot[i], wsGot[j])
  /\ wsEnd = "end" => wsIn = <<>> \/ wsFrames[WsConsumed[Len(WsConsumed)][1]].op = "close"

\* A cell follows the one before it in its frame, or begins a frame after the
\* last cell of one.
WsFollows(i) ==
  LET c == wsOut[i] IN
    IF c.at = 1 THEN i = 1 \/ wsOut[i - 1].at = wsOut[i - 1].of
    ELSE i > 1 /\ wsOut[i - 1].frame = c.frame /\ wsOut[i - 1].at = c.at - 1

\* What a payload cell must carry: the byte of its own call or ping.
WsOwnByte(c) ==
  CASE c.frame[1] = "data" -> c.at > WsHeadLen => c.byte = <<c.frame[2], c.at - WsHeadLen>>
    [] c.frame[1] = "pong" -> c.at > 1 => c.byte = <<c.frame[2], c.at - 1>>
    [] c.frame[1] = "close" -> TRUE

\* The two halves that write to the socket: WsRead its pongs, WsWrite the rest.
WsSameHalf(c, d) == c.frame[1] = "pong" <=> d.frame[1] = "pong"

\* As WsFollows, among the cells of its own half.
WsFollowsHalf(i) ==
  LET c == wsOut[i]
      mine == {j \in 1 .. i - 1 : WsSameHalf(wsOut[j], c)}
      Latest(j) == \A k \in mine : k <= j
  IN IF c.at = 1 THEN \A j \in mine : Latest(j) => wsOut[j].at = wsOut[j].of
     ELSE \E j \in mine : Latest(j) /\ wsOut[j].frame = c.frame /\ wsOut[j].at = c.at - 1

\* As long as no caller drops a write, each half puts whole frames on the wire, one
\* after the other, each with the buffer it was written for or the ping it
\* answers; and the peer receives whole frames when the socket takes every write
\* whole or the peer sends no pings.  The mutex of poll_write sees to it, and the
\* state that SendingPong and poll_write keep from one poll to the next.
WsHalvesWhole ==
  wsDrops = 0 =>
    \A i \in DOMAIN wsOut :
      /\ WsFollowsHalf(i) /\ WsOwnByte(wsOut[i])
      /\ ~wsBusy \/ WsPings = {} => WsFollows(i)

\* What the reader promises of its pongs: "pongs are sent immediately via the shared
\* write half, matching standard WebSocket library behaviour"
\* (streams/websocket.rs), which writes no frame inside another.
WsFramesWhole ==
  wsDrops = 0 => \A i \in DOMAIN wsOut : WsFollows(i)

\* The writer has registered itself with the full socket that the reader waits for.
WsWakerTaken == "reader" \in wsAsleep /\ wsWaker = "writer"

\* Reading ends: no ping leaves the reader waiting for ever, since a socket that
\* was full wakes it, and the mutex is released; as long as no write is dropped,
\* and the writer does not take the place of the reader's waker (WsRead,
\* SendingPong).
WsReadEnds == [](wsDrops = 0 /\ ~WsWakerTaken) => <>(wsEnd # "none")
=============================================================================
