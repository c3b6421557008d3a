SPECIFICATION Spec
CONSTANTS
  N = 3
  Rates = {60, 120}
  EpisodeLen = 3
  Deceptive <- MCDeceptive
  Noises = {0, 20}
  StartLoads <- MCStartLoads
  Weights <- MCWeights
  RolloutSteps = 4
  PpoEpisode = 2
  PpoTotal = 8
  Gamma = 2
  Lambda = 3
  Rewards <- MCRewards
  Values <- MCValues
  Actions <- MCActions
  Grain = 5760000
  CbfIter = 2
  GridSize = 5
  SplineOrder = 3
  Unit = 4
  Workers <- MCWorkers
  w1 = w1
  w2 = w2
  Params = 2
  NStep = 2
  WorkerSteps = 5
  RateEpisode = 3
  RateRewards <- MCRateRewards
  RateValues <- MCValues
  Discount = 2
  MinRps = 90
  MaxRps = 115
  StartRps = 100
  ReplayCapacity = 3
  BatchSize = 2
  SyncEvery = 2
  DqnSteps = 7
INVARIANTS
  TrainingInv
  FloorNotTraded
  AdvantagesRight
  FairToLoad
  BasisExact
  GradientsKept
CHECK_DEADLOCK FALSE
