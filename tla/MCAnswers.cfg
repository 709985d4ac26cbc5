SPECIFICATION Spec
CONSTANTS
  Oversample = 1
  PointSets <- SomePoints
  Batches <- SomeBatches
  WhatIfs <- SomeWhatIfs
  Ks = {1, 2, 3}
  Params <- SomeParams
  Bases = {511}
  Metrics = {0, 1}
  EpsVar = 1
  SeedPrime = 7
  QuerySalt = 256
  Word = 512
  Predictions <- SomePredictions
  ArmCounts = {1, 2, 3, 4}
  Scores <- EvenScores
  Objectives <- SomeObjectives
  Sizes = {1, 2, 3, 4}
  Weights <- SomeWeights
  Highs = {1, 2, 3, 5, 7, 8, 9, 63}
  Word32 = 8
  Targets <- SomeTargets
  Calibrators <- SomeCalibrators
  Bounds <- SomeBounds
  Reals <- SomeReals
  ArmDraws <- SomeArmDraws
  BoundEps = 1
  Cap = 2
  Paged <- SomePaged
  Beams = {1, 3}
  MaxClusters = 3
  MaxIterations = 20
  SkipDegree = 1
  MaxLeaves = 4
  ScanRows = 4
  SkipRows = 6
  DrawnScales <- SomeDrawn
  FitSizes = {1, 2, 3}
  FitScores = {0, 1}
  Learnings <- SomeLearnings
  Factors = {3}
  Shifts = {2}
  MinDependenceRows = 3
  DependenceZ = 1
  FloorPart = 10
  None = None
INVARIANTS PosteriorNearest BatchAsSingle WeightsFollowData DrawsFollowPosterior PredictionsCalibrated ArmsAreBest HypervolumeIsArea ChoicesFair PagesFindRows
