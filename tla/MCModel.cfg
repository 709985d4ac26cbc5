SPECIFICATION Spec
CONSTANTS
  Dims <- TwoDims
  Learned <- LearnedScales
  AutoCapacity = 2
  MinRows = 2
  Growths = {110, 150}
  Growth = 150
  Drifts = {2, 4}
  Drift = 2
  Tol = 1
  Floor = 4
  Capacities = {3}
  Seeds = {0}
  Datasets <- Points
  Layouts <- AllLayouts
  FirstRows = {0, 2}
  Batches = {1, 2}
  Unscaled = {{}, {2}}
  CallerScales <- CalledScales
  Faults = {"append", "flush", "marker"}
INVARIANTS ScalesInStep
\* The caller of the library may stop, at the bound on rows or before.
CHECK_DEADLOCK FALSE
