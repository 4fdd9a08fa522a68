------------------------------- MODULE MCWatch -------------------------------
EXTENDS Watch

CONSTANTS g1, g2

Everything == [on |-> TRUE, min |-> 0, cleared |-> TRUE]
Shipped == [on |-> TRUE, min |-> 1, cleared |-> FALSE]

\* One gateway with every change and fault; one in a maintenance window, or under
\* the filters as shipped; the database with every fault; a gateway and the
\* database, or two gateways, on one limiter.
SixPlants ==
  { [gateways |-> {g1}, env |-> {"link", "lost", "stale", "enable", "fail", "crash"}, wanted |-> Everything],
    [gateways |-> {g1}, env |-> {"lost", "maintenance", "crash"}, wanted |-> Shipped],
    [gateways |-> {g1}, env |-> {"lost", "manager", "fail"}, wanted |-> Shipped],
    [gateways |-> {}, env |-> {"database", "fail", "crash"}, wanted |-> Everything],
    [gateways |-> {g1}, env |-> {"database"}, wanted |-> Everything],
    [gateways |-> {g1, g2}, env |-> {"lost"}, wanted |-> Everything] }
=============================================================================
