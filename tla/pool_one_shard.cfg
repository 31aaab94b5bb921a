SPECIFICATION Spec
CONSTANTS
  Tasks = {1, 2, 3, 4}
  Workers = 4
  Shards = {1}
  ShardOf <- OneShard
CHECK_DEADLOCK FALSE
INVARIANTS
  TypeOK
PROPERTIES
  EveryTaskEnds
