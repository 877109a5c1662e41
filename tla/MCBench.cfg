SPECIFICATION BenchFairSpec
CONSTANTS
  w1 = w1
  w2 = w2
  Workers <- TwoWorkers
  Warmup = 2
  Ops = 3
  PoisonEvery = 2
  MaxAttempts = 2
CHECK_DEADLOCK FALSE
INVARIANTS WindowNotOvershot  SeriesSpansWindow
PROPERTIES BenchAlwaysEnds
