------------------------------- MODULE DbWatch -------------------------------
(***************************************************************************)
(* The watcher of the database (internal/dbhealth), a goroutine of         *)
(* core-api: at each turn of its timer it takes a snapshot, compares it    *)
(* with the one before and tells the operator of what is new and of what   *)
(* is gone.  Both the snapshot and the set of open problems are in memory. *)
(***************************************************************************)
EXTENDS Notifier

CONSTANTS
  Unread,      \* what a snapshot holds of a part that could not be read
  MaxEvents    \* bound on what happens to the database

ASSUME DbAssumption == MaxEvents \in Nat /\ {Unread, None} \cap Nat = {} /\ Unread # None

Keys == {"pool", "job", "job-stale", "slow-query"}

VARIABLES
  pool,      \* requests have waited for a connection since the last snapshot
  job,       \* the TimescaleDB job: last run failed, failures in all, too long without success
  query,     \* a statement runs for too long
  prev,      \* failures of the job in the previous snapshot; None: there was none
  open,      \* problems the operator was told of
  problems,  \* still to be announced
  resolved,
  dbDue,     \* the watcher's timer
  heldBack,  \* a run of the job has failed since the last announcement of it (history)
  missed,    \* failed runs that a later scan than the first passed over in silence (history)
  wrongly,   \* scans that declared a problem over while it lasts (history)
  events

dbVars == <<pool, job, query, prev, open, problems, resolved, dbDue, heldBack, missed, wrongly, events>>
dbState == <<pool, job, query, heldBack, events>>

DbTypeOK ==
  /\ pool \in BOOLEAN /\ query \in BOOLEAN /\ heldBack \in BOOLEAN /\ dbDue \in BOOLEAN
  /\ job \in [failed : BOOLEAN, failures : 0..MaxEvents, old : BOOLEAN]
  /\ prev \in (0..MaxEvents) \cup {Unread, None}
  /\ open \subseteq Keys /\ problems \subseteq open /\ resolved \subseteq Keys \ open
  /\ missed \in Nat /\ wrongly \in Nat /\ events \in 0..MaxEvents /\ job.failures <= events

DbInit ==
  /\ pool = FALSE /\ query = FALSE
  /\ job = [failed |-> FALSE, failures |-> 0, old |-> FALSE]
  /\ prev = None /\ open = {} /\ problems = {} /\ resolved = {} /\ dbDue = FALSE
  /\ heldBack = FALSE /\ missed = 0 /\ wrongly = 0 /\ events = 0

-----------------------------------------------------------------------------
\* What happens to the database (external).
DbEvent ==
  /\ "database" \in plan.env /\ events < MaxEvents
  /\ events' = events + 1
  /\ \/ pool' = TRUE /\ UNCHANGED <<job, query, heldBack>>
     \/ query' = ~query /\ UNCHANGED <<pool, job, heldBack>>
     \/ /\ job' = [job EXCEPT !.failed = TRUE, !.failures = @ + 1]
        /\ heldBack' = TRUE /\ UNCHANGED <<pool, query>>
     \/ job' = [job EXCEPT !.failed = FALSE, !.old = FALSE] /\ UNCHANGED <<pool, query, heldBack>>
     \/ job' = [job EXCEPT !.old = TRUE] /\ UNCHANGED <<pool, query, heldBack>>
  /\ UNCHANGED <<prev, open, problems, resolved, dbDue, missed, wrongly>>

(* Mutant: a failed run counts only while it is the last one. *)
FailingNow(p) == job.failed

(* Mutant: a job is failing only when its failures grow. *)
FailingMore(p) == p \notin {Unread, None} /\ job.failures > p

\* jobIssues: the last run failed, or one has failed since the snapshot before.
Failing(p) == job.failed \/ (p \notin {Unread, None} /\ job.failures > p)

\* Evaluate: what is wrong, from the parts of the snapshot that could be read.
Evaluate(jobsRead, queriesRead) ==
  (IF prev # None /\ pool THEN {"pool"} ELSE {})
  \cup (IF ~jobsRead THEN {} ELSE IF Failing(prev) THEN {"job"} ELSE IF job.old THEN {"job-stale"} ELSE {})
  \cup (IF queriesRead /\ query THEN {"slow-query"} ELSE {})

\* The problems that are there whatever the watcher makes of them (history).  A
\* job too long without success that fails as well is a failing job: what lasts
\* of it is the problem the same scan announces.
Lasting(issues) ==
  (IF pool THEN {"pool"} ELSE {}) \cup (IF query THEN {"slow-query"} ELSE {})
  \cup (IF job.failed THEN {"job"} ELSE {})
  \cup (IF job.old /\ "job" \notin issues THEN {"job-stale"} ELSE {})

\* Collect and the first half of Scan: what is announced in its second half is
\* already out of, or in, the set of open problems.
DbScan ==
  /\ up /\ dbDue
  /\ dbDue' = FALSE
  /\ \E jobsRead, queriesRead \in BOOLEAN :
       LET issues == Evaluate(jobsRead, queriesRead)
           gone == open \ issues
           silent == prev # None /\ jobsRead /\ heldBack /\ "job" \notin issues
       IN /\ IF jobsRead /\ queriesRead THEN UNCHANGED faults ELSE Fail /\ faults' = faults + 1
          /\ prev' = IF jobsRead THEN job.failures ELSE Unread
          /\ open' = issues
          /\ problems' = issues \ open /\ resolved' = gone
          /\ wrongly' = IF gone \cap Lasting(issues) = {} THEN wrongly ELSE wrongly + 1
          /\ missed' = IF silent THEN missed + 1 ELSE missed
          /\ heldBack' = (heldBack /\ ~jobsRead)
  /\ pool' = FALSE
  /\ UNCHANGED <<job, query, events>>

\* dbAnnouncer
Problem(k) == [severity |-> IF k = "job" THEN "critical" ELSE "warning", status |-> "ACTIVE"]
Resolution == [severity |-> "info", status |-> "CLEARED"]

\* The second half of Scan: the problems, then the resolved ones.
DbAnnounce ==
  /\ up
  /\ \/ \E k \in problems : problems' = problems \ {k} /\ Dispatch(Problem(k)) /\ UNCHANGED resolved
     \/ /\ problems = {}
        /\ \E k \in resolved : resolved' = resolved \ {k} /\ Dispatch(Resolution)
        /\ UNCHANGED problems
  /\ UNCHANGED <<dbState, prev, open, dbDue, missed, wrongly>>

DbCrash ==
  /\ prev' = None /\ open' = {} /\ problems' = {} /\ resolved' = {} /\ dbDue' = FALSE
  /\ UNCHANGED <<dbState, missed, wrongly>>

\* The timer turns every five minutes; which ones is left open.
DbTick ==
  /\ ~dbDue /\ problems = {} /\ resolved = {}
  /\ dbDue' \in {FALSE, up /\ "database" \in plan.env}
  /\ UNCHANGED <<dbState, prev, open, problems, resolved, missed, wrongly>>

-----------------------------------------------------------------------------
\* A problem that lasts is declared over only by a snapshot that could not be
\* read in full.  jobIssues sees a failing job also when it has not run again,
\* and a job too long without success for as long as it is; the one thing a full
\* snapshot declares over that has not passed is that a job does not succeed,
\* when the job starts failing and is announced as failing instead.
OverOnlyWhenBlind == wrongly <= faults

\* A run of the job that failed and was followed by a good one before anybody
\* looked is still announced by every scan but a first one, unless the snapshot
\* before could not be read.
FailedRunIsHeard == missed <= faults
=============================================================================
