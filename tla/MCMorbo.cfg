SPECIFICATION Spec
CONSTANTS
  NumDim = 1
  LengthInit = 4
  LengthMin = 4
  LengthMax = 8
  Points <- MCPoints
  Weights <- MCWeights
  Unit = 2
  AlphaParts = 1
  AlphaOf = 10
  Arms = {4}
  Batches = {1, 2}
  Bulk = 2
  NumInit = 1
  K = 1
  MaxObs = 4
  Faults = {"fit", "predict", "release"}
  None = None
  NegInf = NegInf
INVARIANTS RangesCoverRows BaselineIsKept
CHECK_DEADLOCK FALSE
