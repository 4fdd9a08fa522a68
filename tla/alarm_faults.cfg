\* A comm_loss rule more patient than the frozen rule of its tag; an unreliable database; an
\* operator who acknowledges.
CONSTANTS
  tank = tank
  d1 = d1
  d2 = d2
  Defs = {d1, d2}
  RuleOf <- HealthRules
  InitialDefs = {d1, d2}
  Tags = {tank}
  Values = {0, 1}
  Refs = {r1, r2, r3}
  NoRef = NoRef
  Workers = {w1}
  Ticker = ticker
  Reloader = reloader
  MaxTime = 2
  MaxLag = 0
  MaxBatch = 2
  RetryInterval = 1
  DefaultTimeout = 1
  Env = {"fail", "lost", "ack"}
SYMMETRY PointerSymmetry
SPECIFICATION Spec
INVARIANTS
  MuteIsNotFrozen
  SingleDrainer
  NoStrandedIO
  AnnouncedInOrder
  OneOpenRow
  FiredIsAnnounced
