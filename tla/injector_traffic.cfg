SPECIFICATION Spec
CONSTANTS
  fake = fake
  data = data
  none = none
  noPacket = noPacket
  r = r
  SeqMod = 3
  FakeLen = 2
  LocalPorts = {p1}
  RemotePorts <- MCRemotePorts
  Payloads <- MCPayloads
  Empty = empty
  Methods = {"wrong_seq", "other"}
  NoConn = none
  NoPacket = noPacket
INVARIANTS
  TypeOK
  HandshakeOrder
  WokenWithOutcome
  FakeIsOld
  ThreadView
PROPERTIES
  NothingLost
  OutcomeIsFinal
  NumbersAreStable
  OneFake
