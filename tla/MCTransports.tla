----------------------------- MODULE MCTransports -----------------------------
(* LightstreamSession, Sinks and WebSocket for TLC, one beside the other: the *)
(* initial state says which of them runs, and the others rest in a state in   *)
(* which none of their fair actions is enabled.                               *)
EXTENDS MCLightstreamSession, Sinks, MCWebSocket

CONSTANT WsCallsBeside  \* bound: buffers written where MCWsNext says

VARIABLE part

\* A stream without a frame, that has ended.
SessionRests ==
  /\ types = [list |-> <<>>, index |-> [n \in {} |-> 0]]
  /\ encoder = [t \in Tags |-> [state |-> "Fresh", written |-> FALSE]]
  /\ encodeBuf = <<>>
  /\ wire = <<>> /\ transport = "ended"
  /\ known = 0
  /\ decoder = [t \in Tags |-> [fields |-> FALSE, dicts |-> NoCats]]
  /\ header = <<>> /\ target = 0 /\ payload = <<>> /\ eof = TRUE
  /\ sent = <<>> /\ refused = {} /\ answers = <<>> /\ ended = "clean"

SinkRests == SinkInit /\ kind = "tlv" /\ full = FALSE

\* A connection that was closed before the first frame.
WebSocketRests ==
  /\ wsClient = FALSE /\ wsBusy = FALSE /\ wsFrames = <<>> /\ wsCut = 0
  /\ wsIn = <<>> /\ wsState = "closed" /\ wsEnd = "end"
  /\ wsNeed = 0 /\ wsMask = 0 /\ wsPing = <<>> /\ wsPong = <<>> /\ wsGot = <<>>
  /\ wsWrite = [st |-> "idle", of |-> 0, total |-> 0, done |-> 0]
  /\ wsCall = [n |-> 0, size |-> 0, st |-> "idle"]
  /\ wsLock = FALSE /\ wsDrops = 0
  /\ wsOut = <<>> /\ wsFull = FALSE /\ wsAsleep = {} /\ wsWaker = "none"

MCInit ==
  \/ part = "session" /\ Init /\ SinkRests /\ WebSocketRests
  \/ part = "sinks" /\ SinkInit /\ SessionRests /\ WebSocketRests
  \/ part = "websocket" /\ WsInit /\ SessionRests /\ SinkRests

\* To a busy socket beside a peer that pings, and to one that sends more than two
\* frames, fewer buffers are written; and no write is dropped beside a peer that
\* pings.
MCWsNext ==
  /\ WsNext
  /\ (wsBusy /\ WsPings # {}) \/ Len(wsFrames) > 2 => wsCall'.n <= WsCallsBeside
  /\ wsDrops' > 0 => WsPings = {}

\* Sinks and sockets may stop, a session may not.
MCNext ==
  /\ UNCHANGED part
  /\ \/ part = "session" /\ Next /\ UNCHANGED <<sinkvars, wsvars>>
     \/ part = "sinks" /\ (SinkNext \/ UNCHANGED sinkvars) /\ UNCHANGED <<vars, wsvars>>
     \/ part = "websocket" /\ (MCWsNext \/ UNCHANGED wsvars) /\ UNCHANGED <<vars, sinkvars>>

MCSpec ==
  /\ MCInit /\ [][MCNext]_<<part, vars, sinkvars, wsvars>>
  /\ WF_vars(Poll) /\ SinkFairness /\ WsFairness
===============================================================================
