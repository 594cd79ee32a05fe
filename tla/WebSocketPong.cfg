\* A buffer written beside a peer that pings, on a socket that takes parts of a
\* write.
CONSTANTS
  WsStreams <- MCWsStreams
  WsSizes = {1}
  WsMaxCalls = 1
  WsMaxDrops = 0
SPECIFICATION WsSpec
INVARIANTS
  WsFramesWhole
CHECK_DEADLOCK FALSE
