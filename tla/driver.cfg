\* Numbers that wrap after three; a fault and an outage.
CONSTANTS
  seqMax = 3
  None = None
  Asked = Asked
  MaxSends = 3
  MaxFails = 1
  MaxDowns = 1
  Plans <- AllNodes
  t1 = t1
  t2 = t2
  t3 = t3
  l1 = l1
  l2 = l2
  Tags = {t1, t2, t3}
  Loads = {l1, l2}
  Nobody = Nobody
  Writers = 2
  Setups <- AllSetups
  MaxAge = 1
  AddrSpace = 32
  MaxGap = 1
  MaxCount = 5
SPECIFICATION ProcessSpec
CHECK_DEADLOCK FALSE
INVARIANTS
  GapsCostFailures
  NodeBornFirst
  DeathIsRecognised
  DeviceStateHeard
  BlocksCover
  WritesStayApart
  LoadIsAnswered
  ShownAfterPoll
