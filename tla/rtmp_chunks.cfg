SPECIFICATION Spec
CONSTANTS
  Channels <- SomeChannels
  Stamps <- SomeStamps
  Sizes <- SomeSizes
  Types <- SomeTypes
  ChunkSizes <- OtherChunkSizes
  DefaultChunk = 2
  Ext = 5
  Wrap = 8
  MaxMessages = 3
  MaxWire = 1
  MaxLosses = 1
  NULL = NULL
INVARIANTS
  TypeOK
  PacketsKept
  StaysInStep
  NothingLeftOver
CHECK_DEADLOCK FALSE
