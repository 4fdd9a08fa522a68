----------------------------- MODULE MCTelemetry -----------------------------
(* Telemetry on one tag, in the deployments that differ. *)
EXTENDS Telemetry

\* A legacy gateway under a historian that dies; one under a core-api that restarts
\* and queries that are refused; a Sparkplug gateway with failed reads that goes
\* off, and one with refused queries; a legacy one behind a link that breaks; a dual one.
SixDeployments ==
  { [mode |-> "legacy", env |-> {"crash", "retain"}],
    [mode |-> "legacy", env |-> {"restart", "fail", "retain"}],
    [mode |-> "sparkplug", env |-> {"bad", "offline"}],
    [mode |-> "sparkplug", env |-> {"fail"}],
    [mode |-> "legacy", env |-> {"redeliver"}],
    [mode |-> "dual", env |-> {}] }

\* One gateway that goes off while nothing fails.
GoesOff == { [mode |-> "legacy", env |-> {"offline"}] }

\* One driver whose failed reads are published as null.
NullReadings == { [mode |-> "legacy", env |-> {"bad", "null"}] }
=============================================================================
