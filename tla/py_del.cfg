SPECIFICATION Spec
CONSTANTS
  fake = fake
  none = none
  noPacket = noPacket
  p1 = p1
  r = r
  SeqMod = 3
  FakeLen = 2
  LocalPorts = {p1}
  RemotePorts <- MCRemotePorts
  Payloads <- MCPayloads
  Empty = empty
  Methods = {"wrong_seq"}
  NoConn = none
  NoPacket = noPacket
  Handlers = {h1, h2}
  FakeData = fake
  NoPort = noPort
  Traffic <- MCRefusedTraffic
CHECK_DEADLOCK FALSE
INVARIANT DelFindsEntry
