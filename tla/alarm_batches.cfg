\* Batches that hold the lock, a database that fails, fair goroutines.
CONSTANTS
  tank = tank
  d1 = d1
  d2 = d2
  Defs = {d1, d2}
  RuleOf <- ThresholdRules
  InitialDefs = {d1}
  Tags = {tank}
  Values = {0, 2}
  Refs = {r1, r2}
  NoRef = NoRef
  Workers = {w1}
  Ticker = ticker
  Reloader = reloader
  MaxTime = 1
  MaxLag = 0
  MaxBatch = 2
  RetryInterval = 1
  DefaultTimeout = 1
  Env = {"series", "fail"}
SPECIFICATION FairSpec
INVARIANTS
  TypeOK
PROPERTY
  QueueDrains
