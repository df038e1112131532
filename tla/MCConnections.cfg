SPECIFICATION Spec
CONSTANTS
  Clients = {c1, c2}
  PlayerIDs = {}
  NoClient = NoClient
  NoPeer = NoPeer
  NoPacket = NoPacket
  ByteValues = 4
  PrefixT = 1
  PrefixC = 2
  BufferSize = 13
  Commands = {1, 3}
  AddReq = 3
  Streams <- MCStreams
  MaxPending = 1
INVARIANTS
  TypeOK
  ClosedOnce
  BufferHoldsUnread
  NothingWaits
  EncodingFrames
PROPERTIES
  ImplementsStream
  ImplementsHandleLife
  RoundsShorten
  ReadReturns
  ClosingFrees
