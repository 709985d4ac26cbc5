SPECIFICATION Spec
CONSTANTS
  NumDim = 1
  LengthInit = 8
  LengthMin = 8
  LengthMax = 16
  Uses <- BothUses
  Bulk = 2
  NumInit = 2
  K = 2
  None = None
  NegInf = NegInf
INVARIANTS TrackerSynced IncumbentStored CountersAreRuns
PROPERTIES ImplementsTurbo
\* The caller of the library may stop, at the bound on rows or before.
CHECK_DEADLOCK FALSE
