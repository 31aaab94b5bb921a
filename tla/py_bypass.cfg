SPECIFICATION FairSpec
CONSTANTS
  fake = fake
  none = none
  noPacket = noPacket
  p1 = p1
  r = r
  SeqMod = 3
  FakeLen = 2
  LocalPorts = {p1}
  RemotePorts <- MCRemotePorts
  Payloads <- MCPayloads
  Empty = empty
  Methods = {"wrong_seq"}
  NoConn = none
  NoPacket = noPacket
  Handlers = {h1, h2}
  FakeData = fake
  NoPort = noPort
  Traffic <- MCTraffic
CHECK_DEADLOCK FALSE
INVARIANTS
  TypeOK
  JudgedOnce
  NoEntryLeft
  MessageIsThere
PROPERTIES
  OutcomeIsFinal
  ImplementsGate
  EveryClientDecided
  PacketsMove
