SPECIFICATION Spec
CONSTANTS
  Tasks = {1, 2, 3, 4, 5}
  Workers = 4
  Shards = {1}
  ShardOf <- OneShard
CHECK_DEADLOCK FALSE
PROPERTIES
  NotifyWakes
