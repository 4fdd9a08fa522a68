------------------------------- MODULE MCFleet -------------------------------
EXTENDS Fleet

CONSTANTS g1, g2, b1, b2

FourPlants ==
  { [gateways |-> {g1}, boxes |-> {b1}, all |-> {},
     env |-> {"update", "cut", "fault", "crash", "stop"}, changes |-> 2],
    [gateways |-> {g1}, boxes |-> {b1}, all |-> {},
     env |-> {"update", "ota", "byhand", "fault"}, changes |-> 2],
    [gateways |-> {g1}, boxes |-> {b1, b2}, all |-> {b1},
     env |-> {"update", "scope", "remove"}, changes |-> 2],
    [gateways |-> {g1, g2}, boxes |-> {}, all |-> {},
     env |-> {"update", "delete", "ota"}, changes |-> 3] }
=============================================================================
