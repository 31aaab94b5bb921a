SPECIFICATION Spec
CONSTANTS
  Runs = {r1, r2}
  Nodes = {n1, n2, n3, n4}
  Plain = {n3}
  Garbled = {n4}
  Answers = {{n1, n2, n3, n4}}
  NoAnswer = noAnswer
  Defaults = {n3}
  Embedding = {r1, r2}
  NoNode = noNode
  Faults = {"kill"}
CHECK_DEADLOCK FALSE
INVARIANT ExtractedWhole
