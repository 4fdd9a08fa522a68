\* Writes that end early, with the process or with an error, and two connections: replays that are
\* cut off and the replay after them. A torn line and the record written on it exceed the scanner's
\* buffer.
CONSTANTS
  Msgs = {m1, m2, m3, m4}
  large = m1
  SizeOf <- OneTooLarge
  MaxBytes = 7
  ScanLimit = 4
  Publishers = {p1}
  Drainer = drainer
  Nobody = Nobody
  MaxConnects = 2
  Env = {"torn", "cut", "fail"}
SPECIFICATION FairSpec
CHECK_DEADLOCK FALSE
INVARIANTS
  ReplayInOrder
  UnderCeiling
PROPERTY
  GoesOutOnReconnect
