SPECIFICATION FSpec
CONSTANTS
  SniLengths <- MCSniLengths
  Segments <- MCSegments
  WrongSeq <- MCWrongSeq
CHECK_DEADLOCK FALSE
INVARIANTS
  SeesWhatWasSent
  FakeCopiesAck
  NameIsRead
  Always517Bytes
