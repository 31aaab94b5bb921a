SPECIFICATION Spec
CONSTANTS
  Runs = {r1, r2, r3}
  Nodes <- MCNodes
  Plain = {"plain"}
  Garbled <- Refused
  Answers <- MCAnswers
  NoAnswer = noAnswer
  Defaults = {"plain"}
  Embedding = {r1, r2}
  NoNode = noNode
  Faults = {"start", "kill", "write", "bind", "injector"}
  PortOf <- MCPortOf
  JsonOf <- MCJsonOf
  Url <- MCUrl
  Says <- MCSays
CHECK_DEADLOCK FALSE
INVARIANTS
  TypeOK
  StopKillsSidecar
  SidecarOfOwnNode
  PresentsOwnNode
