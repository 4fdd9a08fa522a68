-------------------------------- MODULE Outbox --------------------------------
(***************************************************************************)
(* What the disk spool promises of the messages a driver publishes, with   *)
(* no file, no lock, no goroutine and no connection in sight: a queue that *)
(* outlives the process.  A message that cannot be sent joins at its end.  *)
(* A replay sends from its front and forgets only what it has sent.  When  *)
(* there is no room the oldest go, no more of them than need be, and each  *)
(* is counted.  A process that dies forgets how far its replay got, what   *)
(* was not yet queued and the count, and nothing of the queue.  MqttSpool  *)
(* is shown to implement this specification where its writes finish.       *)
(***************************************************************************)
EXTENDS Integers, Sequences

CONSTANTS
  Msgs,      \* the messages the driver publishes, each once
  SizeOf,    \* [Msgs -> Nat]: the room a message takes
  MaxBytes   \* the room there is

VARIABLES
  fresh,     \* messages not published yet
  hand,      \* messages that could not be sent and are not queued yet
  queue,     \* messages to be sent, in order
  sent,      \* how many of them this replay has sent
  delivered, \* what the broker received, in order
  kept,      \* messages the MQTT client may still send by itself
  dropped    \* what did not find room since the process started

vars == <<fresh, hand, queue, sent, delivered, kept, dropped>>

Room(messages) ==
  LET upto[k \in 0..Len(messages)] == IF k = 0 THEN 0 ELSE upto[k - 1] + SizeOf[messages[k]]
  IN  upto[Len(messages)]

Fits(messages, m) == Room(messages) + SizeOf[m] <= MaxBytes

Behind(k) == SubSeq(queue, k + 1, Len(queue))

Init ==
  /\ fresh = Msgs /\ hand = {} /\ kept = {}
  /\ queue = <<>> /\ delivered = <<>>
  /\ sent = 0 /\ dropped = 0

\* A publish goes out at once, past the queue; or the message is to be queued.
Publish(m) ==
  /\ m \in fresh /\ fresh' = fresh \ {m}
  /\ \/ delivered' = Append(delivered, m) /\ UNCHANGED <<hand, kept>>
     \/ hand' = hand \cup {m} /\ kept' \in {kept, kept \cup {m}} /\ UNCHANGED delivered
  /\ UNCHANGED <<queue, sent, dropped>>

\* Messages join the queue between replays, where there is room.
Put(m) ==
  /\ m \in hand /\ hand' = hand \ {m}
  /\ sent = 0 /\ Fits(queue, m)
  /\ queue' = Append(queue, m)
  /\ UNCHANGED <<fresh, sent, delivered, kept, dropped>>

\* A message that would not fit into an empty queue.
Refuse(m) ==
  /\ m \in hand /\ hand' = hand \ {m}
  /\ ~Fits(<<>>, m)
  /\ dropped' = dropped + 1
  /\ UNCHANGED <<fresh, queue, sent, delivered, kept>>

\* The oldest k make room for m: with one of them kept there would be none.
DropOldest(m, k) ==
  /\ m \in hand /\ sent = 0 /\ k \in 1..Len(queue)
  /\ Fits(Behind(k), m)
  /\ \A j \in 0..(k - 1) : ~Fits(Behind(j), m)
  /\ queue' = Behind(k)
  /\ dropped' = dropped + k
  /\ UNCHANGED <<fresh, hand, sent, delivered, kept>>

\* The replay sends the next message.
Resend ==
  /\ sent < Len(queue)
  /\ sent' = sent + 1
  /\ delivered' = Append(delivered, queue[sent + 1])
  /\ UNCHANGED <<fresh, hand, queue, kept, dropped>>

\* The next message cannot be sent: it and those behind it stay.
GiveUp ==
  /\ sent < Len(queue)
  /\ queue' = Behind(sent) /\ sent' = 0
  /\ kept' \in {kept, kept \cup {queue[sent + 1]}}
  /\ UNCHANGED <<fresh, hand, delivered, dropped>>

\* All is sent; what is not forgotten now will be sent again.
Finish ==
  /\ sent = Len(queue)
  /\ queue' \in {<<>>, queue} /\ sent' = 0
  /\ UNCHANGED <<fresh, hand, delivered, kept, dropped>>

SendLate(m) ==
  /\ m \in kept /\ kept' = kept \ {m}
  /\ delivered' = Append(delivered, m)
  /\ UNCHANGED <<fresh, hand, queue, sent, dropped>>

\* The process dies: the queue stays.
Restart ==
  /\ hand' = {} /\ kept' = {} /\ sent' = 0 /\ dropped' = 0
  /\ UNCHANGED <<fresh, queue, delivered>>

Next ==
  \/ \E m \in Msgs : Publish(m) \/ Put(m) \/ Refuse(m) \/ SendLate(m)
  \/ \E m \in Msgs : \E k \in 1..Len(queue) : DropOldest(m, k)
  \/ Resend \/ GiveUp \/ Finish \/ Restart

Spec == Init /\ [][Next]_vars
================================================================================
