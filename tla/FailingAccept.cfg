SPECIFICATION FailingSpec
CONSTANTS
  Clients = {c1, c2}
  PlayerIDs = {}
  NoClient = NoClient
  NoPeer = NoPeer
  NoPacket = NoPacket
  ByteValues = 3
  PrefixT = 1
  PrefixC = 2
  BufferSize = 13
  Commands = {1, 3}
  AddReq = 3
  Streams = {}
  MaxPending = 1
INVARIANT
  ReleasedAfterClose
