\* A spool of six bytes and messages of two, three and four; a broker that comes and goes,
\* publishes that time out, files that stay, restarts between two writes.
CONSTANTS
  Msgs = {m1, m2, m3}
  large = m1
  SizeOf <- OneOfEach
  MaxBytes = 6
  ScanLimit = 9
  Publishers = {p1}
  Drainer = drainer
  Nobody = Nobody
  MaxConnects = 3
  Env = {"late", "crash", "keep"}
SPECIFICATION Spec
CHECK_DEADLOCK FALSE
INVARIANTS
  NoSilentLoss
  HoleIsDeclared
PROPERTY
  ActsAsOutbox
