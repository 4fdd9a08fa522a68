\* Batches of two goroutines at one moment; a reliable database.
CONSTANTS
  tank = tank
  d1 = d1
  d2 = d2
  Defs = {d1, d2}
  RuleOf <- ThresholdRules
  InitialDefs = {d1}
  Tags = {tank}
  Values = {0, 2}
  Refs = {r1, r2, r3}
  NoRef = NoRef
  Workers = {w1, w2}
  Ticker = ticker
  Reloader = reloader
  MaxTime = 0
  MaxLag = 0
  MaxBatch = 2
  RetryInterval = 1
  DefaultTimeout = 1
  Env = {"series"}
SPECIFICATION Spec
INVARIANTS
  FiredIsAnnounced
