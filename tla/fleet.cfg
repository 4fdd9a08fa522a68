SPECIFICATION Spec
CONSTANTS
  Gateways = {g1, g2}
  Boxes = {b1, b2}
  Server = Server
  None = None
  g1 = g1
  g2 = g2
  b1 = b1
  b2 = b2
  MaxTries = 2
  MaxFaults = 2
  MaxCrashes = 1
  Plans <- FourPlants
INVARIANTS
  BooksAreComplete
PROPERTIES
  RemovedBoxTakesNothing
  OwnerPolls
  NobodyElsePolls
