\* A comm_loss rule that two processes judge; restarts, acknowledgements, events twice.
CONSTANTS
  tank = tank
  d1 = d1
  d2 = d2
  Defs = {d1}
  RuleOf <- CommLossRule
  InitialDefs = {d1}
  Tags = {tank}
  Values = {0}
  Refs = {r1, r2}
  NoRef = NoRef
  Workers = {w1}
  Ticker = ticker
  Reloader = reloader
  MaxTime = 1
  MaxLag = 0
  MaxBatch = 2
  RetryInterval = 1
  DefaultTimeout = 1
  Env = {"ack", "crash", "fail"}
SPECIFICATION PipelineSpec
PROPERTY
  CommLossSettles
