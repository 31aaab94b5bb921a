SPECIFICATION FairBSpec
CONSTANTS
  h1 = h1
  h2 = h2
  none = none
  noPacket = noPacket
  Handlers = {h1, h2}
  BypassMethod = "wrong_seq"
  NoPort = noPort
  Isn <- MCIsn
  ServerIsn = 7
  MaxExtra = 2
  SeqMod = 8
  FakeLen = 2
  LocalPorts = {p1}
  RemotePorts <- MCRemotePorts
  Payloads <- MCPayloads
  Empty = empty
  Methods = {"wrong_seq", "other"}
  NoConn = none
  NoPacket = noPacket
INVARIANTS
  BTypeOK
  FakeNeverRead
  NoEntryLeft
  WaitsOnOwnEntry
  ConfirmedByServer
PROPERTIES
  ImplementsGate
  EveryClientDecided
