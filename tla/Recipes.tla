------------------------------- MODULE Recipes -------------------------------
(***************************************************************************)
(* The ways core-api sends write commands to a driver: one tag at a time   *)
(* (web interface, i3X, sys/write), and a recipe, which writes several and *)
(* waits for the driver's results (internal/handlers/recipes.go).          *)
(*                                                                         *)
(* A load registers for the results of its tags, publishes its commands,   *)
(* and takes results from its channel until as many have come as commands  *)
(* were sent, or five seconds are over.  Results carry the tag and nothing *)
(* of the command; "by" on a command, a result and a load is history.      *)
(***************************************************************************)
EXTENDS ModbusDriver

CONSTANTS Loads, Nobody

\* A recipe is a sequence of values, of which Unfit does not fit the tag's range.
\* The table has one row for a recipe and a tag.
Unfit == 2
Recipe(r) ==
  /\ r \in Seq([tag : Tags, v : Values \cup {Unfit}])
  /\ \A i, j \in DOMAIN r : r[i].tag = r[j].tag => i = j

ASSUME RecipeAssumption ==
  /\ Nobody \notin Loads /\ {"operator", "caller", "scada"} \cap (Loads \cup {Nobody}) = {}
  /\ \A s \in Setups : \A l \in Loads : Recipe(s.loads[l])

VARIABLES
  waiters,  \* ackWaiters: who waits for the result of a tag
  load,     \* the Load calls: pc, values left to publish, remaining, channel, results
  mixed     \* tags with two commands or results under way at once (history)

recipeVars == <<waiters, load, mixed>>
allPathVars == <<pathVars, recipeVars>>

RecipeOf(l) == setup.loads[l]
TagsOf(l) == {RecipeOf(l)[i].tag : i \in 1..Len(RecipeOf(l))}

UnderWay(t) ==
  \/ \E i \in 1..Len(cmds) : cmds[i].tag = t
  \/ \E w \in 1..Writers : writer[w].pc # "free" /\ writer[w].cmd.tag = t
  \/ \E i \in 1..Len(acks) : acks[i].tag = t

Command(t, v, type, by) == [tag |-> t, v |-> v, type |-> type, stamped |-> TRUE, age |-> 0, by |-> by]

Publishes(cmd) ==
  /\ cmds' = Append(cmds, cmd)
  /\ mixed' = IF UnderWay(cmd.tag) \/ waiters[cmd.tag] \notin {Nobody, cmd.by}
              THEN mixed \cup {cmd.tag} ELSE mixed

-----------------------------------------------------------------------------
(* Single writes. *)

OneWrite(t, v) ==
  /\ Can("write") /\ t \in Known /\ Input
  /\ Publishes(Command(t, v, JsonType, "operator"))
  /\ UNCHANGED <<setup, driverVars, deviceVars, writer, acks, troubles, waiters, load, calm>>

\* The tags handler and the i3X handler send what the operator asked for now; a
\* value outside of the range, an unknown tag or a failed publish sends nothing.
TagWrite(t, v) == OneWrite(t, v)
I3XWrite(t, v) == OneWrite(t, v)

\* handleWriteCommand of core-api: the caller's own stamp, which may be old.
ExternalWrite(t, v, age) ==
  /\ Can("external") /\ t \in Known /\ Input
  /\ Publishes([Command(t, v, JsonType, "caller") EXCEPT !.age = age])
  /\ UNCHANGED <<setup, driverVars, deviceVars, writer, acks, troubles, waiters, load, calm>>

-----------------------------------------------------------------------------
(* Load. *)

NoLoad == [pc |-> "new", todo |-> <<>>, pending |-> {}, remaining |-> 0, chan |-> <<>>, results |-> <<>>]

OfLoad == <<setup, driverVars, deviceVars, writer, inputs, calm>>

LoadBegin(l) ==
  /\ Can("load") /\ load[l].pc = "new" /\ RecipeOf(l) # <<>> /\ Input
  /\ waiters' = [t \in Tags |-> IF t \in TagsOf(l) THEN l ELSE waiters[t]]
  /\ mixed' = mixed \cup {t \in TagsOf(l) : UnderWay(t) \/ waiters[t] # Nobody}
  /\ load' = [load EXCEPT ![l] = [NoLoad EXCEPT !.pc = "publish", !.todo = RecipeOf(l)]]
  /\ UNCHANGED <<setup, driverVars, deviceVars, writer, busVars, troubles, calm>>

Result(t, ok, by) == [tag |-> t, ok |-> ok, by |-> by]

(* Mutant: a waiter stays when its result is there. *)
StillWaiting(t) == waiters

\* delete(ackWaiters, tag), whoever registered it.
NotWaiting(t) == [waiters EXCEPT ![t] = Nobody]

LoadPublish(l) ==
  /\ load[l].pc = "publish" /\ load[l].todo # <<>>
  /\ LET x == Head(load[l].todo)
         next == [load[l] EXCEPT !.todo = Tail(@)]
         failed == [next EXCEPT !.results = Append(@, Result(x.tag, FALSE, l))]
     IN  \/ /\ x.v = Unfit
            /\ load' = [load EXCEPT ![l] = failed]
            /\ UNCHANGED <<cmds, mixed, waiters, troubles>>
         \/ /\ x.v # Unfit /\ Can("nobroker") /\ Spend
            /\ load' = [load EXCEPT ![l] = failed]
            /\ waiters' = NotWaiting(x.tag)
            /\ UNCHANGED <<cmds, mixed>>
         \/ /\ x.v # Unfit
            /\ Publishes(Command(x.tag, x.v, "string", l))
            /\ load' = [load EXCEPT ![l] = [next EXCEPT !.pending = @ \cup {x.tag}, !.remaining = @ + 1]]
            /\ UNCHANGED <<waiters, troubles>>
  /\ UNCHANGED <<OfLoad, acks>>

\* cleanup: the waiters of these tags, whoever registered them.
Cleanup(l) == [t \in Tags |-> IF t \in TagsOf(l) THEN Nobody ELSE waiters[t]]

\* case ack := <-ackCh
Receive(l) ==
  LET ack == Head(load[l].chan)
  IN  [load[l] EXCEPT !.chan = Tail(@), !.remaining = @ - 1, !.pending = @ \ {ack.tag},
                      !.results = Append(@, Result(ack.tag, ack.ok, ack.by))]

LoadAck(l) ==
  /\ load[l].pc = "publish" /\ load[l].todo = <<>> /\ load[l].remaining > 0 /\ load[l].chan # <<>>
  /\ load' = [load EXCEPT ![l] = Receive(l)]
  /\ UNCHANGED <<OfLoad, busVars, troubles, waiters, mixed>>

\* case <-deadline: what is pending has failed, in any order.
LoadTimeout(l) ==
  /\ load[l].pc = "publish" /\ load[l].todo = <<>> /\ load[l].remaining > 0
  /\ load' = [load EXCEPT ![l].pc = "done",
                          ![l].results = @ \o SetToSeq({Result(t, FALSE, l) : t \in load[l].pending})]
  /\ waiters' = Cleanup(l)
  /\ UNCHANGED <<OfLoad, busVars, troubles, mixed>>

LoadEnd(l) ==
  /\ load[l].pc = "publish" /\ load[l].todo = <<>> /\ load[l].remaining = 0
  /\ load' = [load EXCEPT ![l].pc = "done"]
  /\ waiters' = Cleanup(l)
  /\ UNCHANGED <<OfLoad, busVars, troubles, mixed>>

-----------------------------------------------------------------------------
(* Results. *)

\* The subscription of NewRecipesHandler: the waiter of the tag gets it, once.
HandleAck ==
  /\ acks # <<>>
  /\ LET ack == Head(acks)
         l == waiters[ack.tag]
     IN  IF l = Nobody THEN UNCHANGED <<waiters, load>>
         ELSE /\ waiters' = NotWaiting(ack.tag)
              /\ load' = [load EXCEPT ![l].chan = Append(@, ack)]
  /\ \/ acks' = Tail(acks) /\ UNCHANGED troubles
     \* QoS 1: the same result comes again.
     \/ Can("dup") /\ Spend /\ UNCHANGED acks
  /\ UNCHANGED <<OfLoad, cmds, mixed>>

PathInit ==
  /\ DriverInit
  /\ waiters = [t \in Tags |-> Nobody] /\ load = [l \in Loads |-> NoLoad] /\ mixed = {}

\* The driver's own steps; what SCADA systems send mixes with the rest.
DriverSteps ==
  /\ DriverNext
  /\ mixed' = IF Len(cmds') > Len(cmds) THEN mixed \cup {Last(cmds').tag} ELSE mixed
  /\ UNCHANGED <<waiters, load>>

LoadSteps(l) == LoadBegin(l) \/ LoadPublish(l) \/ LoadAck(l) \/ LoadTimeout(l) \/ LoadEnd(l)

PathNext ==
  \/ DriverSteps
  \/ \E t \in Tags, v \in Values :
       TagWrite(t, v) \/ I3XWrite(t, v) \/ \E age \in 0..(MaxAge + 1) : ExternalWrite(t, v, age)
  \/ \E l \in Loads : LoadSteps(l)
  \/ HandleAck

-----------------------------------------------------------------------------
\* "Real success/failure from the driver is reported": a load that ends has one
\* result for each of its values, and one that says OK stands for a write of
\* this load.  Results name the tag alone, so that is so for a load whose tags
\* nobody else writes at the time.
LoadIsAnswered ==
  \A l \in Loads : load[l].pc = "done" /\ TagsOf(l) \cap mixed = {} =>
    LET r == load[l].results
    IN  /\ Len(r) = Cardinality(TagsOf(l)) /\ {r[i].tag : i \in 1..Len(r)} = TagsOf(l)
        /\ \A i \in 1..Len(r) : r[i].by = l
=============================================================================
