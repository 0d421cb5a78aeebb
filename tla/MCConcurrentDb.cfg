CONSTANTS
  Putters = {t1, t2}
  Keys <- MCKeys
  MaxPuts = 4
  PrefixCap = 2
  TableSize = 2
  Concurrency = 2
  Faults = {"create", "put", "flush", "open", "read", "table", "commit"}
SPECIFICATION Spec
INVARIANTS
  LevelOneDisjoint
PROPERTIES
  NoTableOverwritten
  FailureSticks
  ImplementsStore
  Termination
