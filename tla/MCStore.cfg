SPECIFICATION StoreAndPages
CONSTANTS
  Metrics = {one, m}
  One = one
  Hard = 2
  MaxObs = 2
  MaxBatch = 2
  MaxCrashes = 2
  Faults = {"header", "metadata", "sidecar", "marker"}
  None = None
  Torn = Torn
  Readers = {t1, t2}
  MaxPages = 2
  FirstCapacity = 1
  PageBytes = 4
  MetaBytes = 1
  WindowBytes = 2
  Budget = 5
  BitOf <- MCBitOf
  WordOf <- MCWordOf
INVARIANTS AckedDurable IndexInForce PageMemorySound
PROPERTIES CleanPersistReopensWhole
