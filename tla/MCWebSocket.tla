----------------------------- MODULE MCWebSocket -----------------------------
(* Instances of WebSocket for TLC: what the peer sends.                      *)
EXTENDS WebSocket

WsFrame(kind_, len) == [op |-> kind_, len |-> len]

MCWsStreams ==
  { <<WsFrame("ping", 1), WsFrame("data", 2)>>,
    <<WsFrame("data", 3), WsFrame("pong", 1), WsFrame("data", 1)>>,
    <<WsFrame("ping", 2), WsFrame("ping", 0), WsFrame("close", 0)>>,
    <<WsFrame("data", 1), WsFrame("bad", 0)>> }
==============================================================================
