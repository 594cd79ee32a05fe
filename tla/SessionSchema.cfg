\* A table the encoder refuses before the first one it can send.
CONSTANTS
  Registry <- MCRegistry
  Tables <- MCTables
  MsgLens = {0}
  TagRange = 256
  LenRange = 8
  MaxFrame = 3
  MaxSends = 1
SPECIFICATION Spec
INVARIANTS
  FirstPayloadTeaches
