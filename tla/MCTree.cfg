\* No more rows may be appended at the end, and an index in sync has nothing to do.
CHECK_DEADLOCK FALSE
SPECIFICATION Spec
CONSTANTS
  Layouts <- EightRows
  LeafCapacity = 2
  Fanout = 3
  PoolLeaves = 4
  Laps = 2
  WorkPerAdd = 4
  BulkMin = 4
  Batches = {1, 4}
  PersistAt = {5}
  FailAt = {4}
  Factors = {1, 2}
  Infinity = 1000000
  Queries <- AskedAbout
  Ks = {1, 3}
  LeafBudget = 1
  None = None
INVARIANTS TreeSound SearchExact
PROPERTIES PersistedComesBack
