\* One tag, a deadband of two, three readings, instants one, two and three apart; services that fail, a gateway that goes off.
CONSTANTS
  Tags = {t1}
  Historized = {t1}
  Values = {0, 1, 2}
  Null = Null
  None = None
  Deadband = 2
  Floor = 2
  Times = {1, 2, 4}
  MaxLate = 1
  MaxHealth = 1
  MaxFaults = 1
  MaxResent = 1
  Plans <- SixDeployments
SPECIFICATION Spec
CHECK_DEADLOCK FALSE
INVARIANTS
  CopiesCostFaults
  LiveValueSettles
PROPERTY
  AnswersEverySample
