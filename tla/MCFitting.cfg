SPECIFICATION FittingSpec
CONSTANTS
  Drivers = {"incremental", "surrogate", "sampler", "observations", "tuning", "configuration"}
  Dims <- OneDim
  Learned <- LearnedScales
  AutoCapacity = 2
  MinRows = 2
  Growths = {150}
  Growth = 150
  Drifts = {2}
  Drift = 2
  Tol = 1
  Floor = 4
  None = None
  Capacities = {0, 1, 2, 3}
  Seeds = {1, 2}
  MaxSeen = 6
  Datasets <- Points
  Layouts <- AllLayouts
  FirstRows = {0, 2}
  Batches = {1, 2, 3}
  Unscaled = {{}}
  CallerScales = {}
  FitKs = {1, 2}
  FitSeeds = {1}
  MaxOwners = 2
  Bulk = 3
  Faults = {"append", "flush", "marker", "fit", "release", "remove"}
  YBounds <- OneMetric
  YBatches <- Calls
  Unbounded = Unbounded
  NoFile = NoFile
  Torn = Torn
  NotOpen = NotOpen
  MaxRows = 3
  MaxDeaths = 1
  MaxFailures = 1
  Openers = {c1, c2}
  Paths = {home, other}
  Home = home
  Softs = {0, 2}
  Hards = {1, 3}
  DefaultSoft = 1
  DefaultHard = 1
  MaxEdits = 3
  Absent = Absent
  Garbage = Garbage
  Inputs = 2
  FormChanges <- FormSettings
  KeyChanges <- KeySettings
  Ks = {Unset, 0, 3}
  Budgets = {Unset, 0, 2}
  WorkDirs <- Directories
  Arms = {1, 2}
  TellSizes = {1, 2}
  Unset = Unset
  Denied = Denied
INVARIANTS TokensTellOnce FitsItsModel SampleUniform RowsReadAsTold
  BuiltAsConfigured ServesEveryCall
PROPERTY ThresholdsFollowFile
\* The caller of the library may stop, at the bound on rows or before.
CHECK_DEADLOCK FALSE
