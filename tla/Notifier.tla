------------------------------ MODULE Notifier ------------------------------
(***************************************************************************)
(* The dispatcher of internal/notifications, as the watchers of core-api   *)
(* use it: Dispatch lets an event through or drops it, and a loop reads    *)
(* the settings again every minute.  The channels themselves (mail, chat,  *)
(* paging) are external.  The process core-api, which can crash, is here.  *)
(*                                                                         *)
(* One tick of the clock is the minute of the limiter's window, of         *)
(* refreshLoop and of the gateway watcher's timer.                         *)
(***************************************************************************)
EXTENDS Integers, Sequences

CONSTANTS
  RateMax,     \* notif_rate_limit_per_min
  Plans,       \* what moves: [gateways, env, wanted]; wanted: what the notif_* rows say
  MaxFaults,   \* bound on refused queries
  MaxCrashes,  \* bound on crashes of core-api
  None

ASSUME NotifierAssumption ==
  RateMax \in Nat \ {0} /\ MaxFaults \in Nat /\ MaxCrashes \in Nat

VARIABLES
  plan,
  up,         \* does core-api run
  crashes,
  loaded,     \* the dispatcher's copy of the settings: [on, min, cleared]
  spent,      \* events the limiter has let through
  reloadDue,  \* refreshLoop's timer
  sent,       \* events sent in this minute (history)
  faults      \* queries that were refused

notifierVars == <<loaded, spent, reloadDue, sent>>

Fail == "fail" \in plan.env /\ faults < MaxFaults

\* severityRank
Rank(severity) == IF severity = "info" THEN 0 ELSE IF severity = "warning" THEN 1 ELSE 3

\* What loadSettings makes of a query that failed: an empty map, no channel.
NoSettings == [on |-> FALSE, min |-> 0, cleared |-> FALSE]

NotifierTypeOK ==
  /\ plan \in Plans /\ up \in BOOLEAN /\ crashes \in 0..MaxCrashes
  /\ loaded \in {plan.wanted, NoSettings}
  /\ spent \in 0..RateMax /\ reloadDue \in BOOLEAN /\ sent \in Nat /\ faults \in 0..MaxFaults

NotifierInit ==
  /\ plan \in Plans /\ up = TRUE /\ crashes = 0
  /\ loaded = plan.wanted
  /\ spent = 0 /\ reloadDue = FALSE /\ sent = 0 /\ faults = 0

\* Dispatch: the filters, then the limiter, then the maintenance window, then
\* the channels that are switched on.
Passes(e) == Rank(e.severity) >= loaded.min /\ (e.status = "CLEARED" => loaded.cleared)
Allowed(e) == Passes(e) /\ spent < RateMax
Silenced == "maintenance" \in plan.env
Heard(e) == Allowed(e) /\ ~Silenced /\ loaded.on

(* Mutant: the limiter is asked and not obeyed. *)
DispatchUnlimited(e) ==
  /\ spent' = IF Allowed(e) THEN spent + 1 ELSE spent
  /\ sent' = IF Passes(e) /\ ~Silenced THEN sent + 1 ELSE sent
  /\ UNCHANGED <<loaded, reloadDue>>

Dispatch(e) ==
  /\ spent' = IF Allowed(e) THEN spent + 1 ELSE spent
  /\ sent' = IF Heard(e) THEN sent + 1 ELSE sent
  /\ UNCHANGED <<loaded, reloadDue>>

LoadSettings ==
  \/ loaded' = plan.wanted /\ UNCHANGED faults
  \/ Fail /\ faults' = faults + 1 /\ loaded' = NoSettings

\* reload: settings, channels and a new, empty limiter.
Reload ==
  /\ up /\ reloadDue
  /\ reloadDue' = FALSE
  /\ spent' = 0
  /\ LoadSettings
  /\ UNCHANGED sent

\* A minute later.  A limiter lives as long as its window: nothing expires in it.
NotifierTick ==
  /\ ~reloadDue
  /\ reloadDue' = up
  /\ sent' = 0
  /\ UNCHANGED <<loaded, spent>>

NotifierCrash ==
  /\ reloadDue' = FALSE
  /\ UNCHANGED <<loaded, spent, sent>>

\* NewDispatcher
NotifierStart ==
  /\ spent' = 0
  /\ LoadSettings
  /\ UNCHANGED <<reloadDue, sent>>

\* "At most max events per window" is what one limiter grants.  The reload brings
\* a new one, and so does a restart: a minute sees twice the rate, and as much
\* again for every crash, and no more.
RatePerLimiter == sent <= (2 + crashes) * RateMax
=============================================================================
