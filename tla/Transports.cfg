\* LightstreamSession: three types, two frames, frames of up to three units and one
\* over the limit.  Sinks: every sink, three items of three-unit frames, one failure
\* of the destination.  WebSocket: writes of one and two bytes among the frames of
\* MCWsStreams, whole or cut anywhere, and one write dropped half way; one write only
\* where MCWsNext says.
CONSTANTS
  Registry <- MCRegistry
  Tables <- MCTables
  MsgLens = {0, 2, 4}
  TagRange = 256
  LenRange = 8
  MaxFrame = 3
  MaxSends = 2
  Kinds = {"stream", "file", "tlv"}
  FrameSize = 3
  CloseOverPending = FALSE
  MaxItems = 3
  MaxFaults = 1
  WsStreams <- MCWsStreams
  WsSizes = {1, 2}
  WsMaxCalls = 2
  WsMaxDrops = 1
  WsCallsBeside = 1
SPECIFICATION MCSpec
INVARIANTS
  FramingKept
  TypesAreIsolated
  CategoriesKept
  EndIsComplete
  WireInOrder
  OkIsComplete
  WsDataInOrder
  WsHalvesWhole
PROPERTIES
  EveryFrameAnswered
  StreamEnds
  CallsReturn
  WsReadEnds
