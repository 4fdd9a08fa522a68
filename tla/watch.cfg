SPECIFICATION Spec
CONSTANTS
  Gateways = {g1, g2}
  g1 = g1
  g2 = g2
  None = None
  Unread = Unread
  RateMax = 1
  Silence = 3
  MaxFaults = 1
  MaxCrashes = 1
  MaxChanges = 2
  MaxEvents = 2
  Plans <- SixPlants
INVARIANTS
  RatePerLimiter
  SaidOnce
  ToldAsRecorded
  HealthyLeftAlone
  OverOnlyWhenBlind
  FailedRunIsHeard
PROPERTY
  RecordSettles
