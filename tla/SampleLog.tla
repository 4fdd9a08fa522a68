----------------------------- MODULE SampleLog -----------------------------
(***************************************************************************)
(* What the historian promises of the samples the drivers publish, with no *)
(* broker, no cache and no process in sight: every sample is answered      *)
(* once, and the answer is one of three.  It is recorded in tag_history;   *)
(* or it is left out because a recorded sample already stands for it; or   *)
(* it is lost to an error, which is reported unless the sample came in a   *)
(* Sparkplug message.  Telemetry is shown to implement this specification. *)
(*                                                                         *)
(* Which row stands for a sample depends on whether the process can die    *)
(* between its writes.  If it cannot, it is the newest sample recorded     *)
(* before it.  If it can, the row, the baseline and its time may disagree  *)
(* after a restart, and all that is promised is some recorded sample of    *)
(* the same value that is not long past.                                   *)
(***************************************************************************)
EXTENDS Integers

CONSTANTS
  Samples,   \* every sample that can be published: [tag, v, ts, q]
  Deadband,  \* what a value must move by to be a new value
  Floor,     \* seconds (ticks) after which an unmoved value is recorded again
  Null       \* the value of a gap

VARIABLES
  mortal,    \* whether the process can die between two of its writes
  quiet,     \* whether samples come in Sparkplug messages
  published, \* samples sent to the broker
  answered,  \* those of them that have an answer
  recorded,  \* rows of tag_history: [tag, ts, v, by]
  lost,      \* samples that were dropped
  silent     \* those of them that nobody was told of

vars == <<mortal, quiet, published, answered, recorded, lost, silent>>

\* The row a sample becomes: a sample that is not GOOD is a gap.
RowOf(s) == [tag |-> s.tag, ts |-> s.ts, v |-> IF s.q = 0 THEN s.v ELSE Null, by |-> "sample"]

Moved(a, b) == IF Deadband = 0 THEN a # b ELSE a - b >= Deadband \/ b - a >= Deadband

\* A reading of the same value as the sample, no longer than Floor before it.
SameReading(r, s) ==
  /\ r.by = "sample" /\ r.v # Null
  /\ s.ts - r.ts <= Floor
  /\ ~Moved(r.v, s.v)

\* The newest sample recorded before s.
NewestBefore(r, s) ==
  /\ r.ts < s.ts
  /\ \A n \in recorded : n.tag = s.tag /\ n.by = "sample" /\ n.ts < s.ts => n.ts <= r.ts

\* A row stands for a GOOD sample when it is at the very time of the sample, or
\* when it is the newest sample recorded before it, not older than Floor, and
\* the value has not moved since.  Offline markers stand for no other time.
StandsFor(r, s) ==
  /\ r.tag = s.tag
  /\ \/ r.ts = s.ts
     \/ SameReading(r, s) /\ (mortal \/ NewestBefore(r, s))

Init ==
  /\ mortal \in BOOLEAN /\ quiet \in BOOLEAN
  /\ published = {} /\ answered = {} /\ recorded = {} /\ lost = {} /\ silent = {}

Publish(s) ==
  /\ published' = published \cup {s}
  /\ UNCHANGED <<mortal, quiet, answered, recorded, lost, silent>>

\* A sample is answered when it was published and has no answer yet.
Answer(s) ==
  /\ s \in published \ answered
  /\ answered' = answered \cup {s}
  /\ UNCHANGED <<mortal, quiet, published>>

Record(s) ==
  /\ Answer(s)
  /\ recorded' = recorded \cup {RowOf(s)}
  /\ UNCHANGED <<lost, silent>>

LeaveOut(s) ==
  /\ Answer(s)
  /\ s.q = 0
  /\ \E r \in recorded : StandsFor(r, s)
  /\ UNCHANGED <<recorded, lost, silent>>

Lose(s) ==
  /\ Answer(s)
  /\ lost' = lost \cup {s}
  /\ \/ UNCHANGED silent
     \/ quiet /\ silent' = silent \cup {s}
  /\ UNCHANGED recorded

\* A sample that comes again may be recorded although it was lost or left out.
RecordAgain(s) ==
  /\ s \in answered
  /\ recorded' = recorded \cup {RowOf(s)}
  /\ UNCHANGED <<mortal, quiet, published, answered, lost, silent>>

\* A gap at the time a gateway was seen to be off.
MarkOffline ==
  /\ \E r \in [tag : {s.tag : s \in Samples}, ts : {s.ts : s \in Samples}, v : {Null}, by : {"marker"}] :
       recorded' = recorded \cup {r}
  /\ UNCHANGED <<mortal, quiet, published, answered, lost, silent>>

Next ==
  \/ \E s \in Samples : Publish(s) \/ Record(s) \/ LeaveOut(s) \/ Lose(s) \/ RecordAgain(s)
  \/ MarkOffline

Spec == Init /\ [][Next]_vars
=============================================================================
