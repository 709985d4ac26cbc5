SPECIFICATION FairSpec
CONSTANTS
  Clients = {c1, c2, c3}
  Workers = {w1, w2}
  NoWorker = NoWorker
  Metrics = {m1}
  FirstMetric = m1
  MaxRows = 1
  Soft = 1
  Hard = 2
  Third = c3
  ThirdCalls = {"stale"}
  OtherCalls = {"wait", "schedule", "ensure", "search", "stale", "add", "close"}
  Calls <- MCCalls
PROPERTIES CallsReturn FlushCatchesUp
