SPECIFICATION Spec
CONSTANTS
  Clients = {c1, c2, c3}
  Workers = {w1, w2, w3}
  NoWorker = NoWorker
  Metrics = {m1, m2}
  FirstMetric = m1
  MaxRows = 2
  Soft = 1
  Hard = 2
  Third = c3
  ThirdCalls = {"stale"}
  OtherCalls = {"wait", "schedule", "ensure", "persist", "search", "stale", "add", "metric", "close"}
  Calls <- MCCalls
SYMMETRY Symmetry
INVARIANTS TypeOK ExclusiveSettled IndexInMetric PendingCoversGap CleanMeansPersisted DroppedQuiet
PROPERTIES FailureReported ImplementsService
