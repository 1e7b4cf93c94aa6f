----------------------------- MODULE AioConsumer -----------------------------
(***************************************************************************)
(* The asyncio consumers of toolset.event_bus.aio: BaseConsumer, and       *)
(* BaseGarbageConsumer when Garbage is TRUE.                               *)
(*                                                                         *)
(* _listen_queue starts one asyncio task per delivered message and never   *)
(* waits for it, so the tasks of one consumer interleave with each other,  *)
(* with the closing of the channel, with its loss and recovery             *)
(* (connect_robust), and with the cancellation that ends the event loop.   *)
(* A task is a slot here: it names a delivery from its arrival in the      *)
(* queue iterator to the frame that settles it.                            *)
(***************************************************************************)
EXTENDS Broker

CONSTANTS
  Tasks,            \* slots for deliveries and their tasks (a bound of the model)
  Kind,             \* what the body of each message is
  Garbage,          \* BaseGarbageConsumer instead of BaseConsumer
  RequeueMsg,       \* the requeue_msg parameter of BaseConsumer
  CancelIsFailure,  \* `except Exception` catches CancelledError (Python 3.7)
  MaxFaults         \* bound on crashes, losses, restarts, stops and refusals

\* A body is a JSON object, other JSON, no JSON at all, or not even text.
Kinds == {"object", "other", "malformed", "undecodable"}

ASSUME AioAssumption ==
  /\ Kind \in [Messages -> Kinds]
  /\ Garbage \in BOOLEAN
  /\ RequeueMsg \in BOOLEAN
  /\ CancelIsFailure \in BOOLEAN
  /\ MaxFaults \in Nat
  /\ Nothing \notin Tasks

VARIABLES
  phase,    \* how far each consumer's program is
  up,       \* the consumers whose channel is open
  pc,       \* where each task is
  body,     \* the message a task works on
  home,     \* the consumer a task belongs to
  copy,     \* the unacked copy a task may still settle, if its channel lives
  faults    \* environment events so far

taskVars == <<pc, body, home, copy>>
vars == <<published, place, content, sure, fate, phase, up, pc, body, home, copy, faults>>

\* listening: in the `async for` of _listen_queue; stopped: the iterator is
\* closed, the context manager is not; dying: asyncio.run cancels all tasks.
Phases == {"off", "listening", "stopped", "dying"}

\* buffered: in the queue iterator; spawned: create_task, not yet running;
\* sleeping: asyncio.sleep(delay); moving: publishing the garbage copy;
\* confirming: waiting for the publisher confirm; acking, nacking, rejecting:
\* marked processed, the frame not sent yet; abandoned: cancelled with its
\* delivery unsettled.
Steps == {"idle", "buffered", "spawned", "running", "sleeping", "moving",
          "confirming", "acking", "nacking", "rejecting", "abandoned"}
Settling == {"acking", "nacking", "rejecting"}

TypeOK ==
  /\ BrokerTypeOK
  /\ phase \in [Consumers -> Phases]
  /\ up \subseteq Consumers
  /\ pc \in [Tasks -> Steps]
  /\ body \in [Tasks -> Messages \cup {Nothing}]
  /\ home \in [Tasks -> Consumers \cup {Nothing}]
  /\ copy \in [Tasks -> Copies \cup {Nothing}]
  /\ faults \in 0..MaxFaults

Init ==
  /\ BrokerInit
  /\ phase = [p \in Consumers |-> "off"]
  /\ up = {}
  /\ pc = [t \in Tasks |-> "idle"]
  /\ body = [t \in Tasks |-> Nothing]
  /\ home = [t \in Tasks |-> Nothing]
  /\ copy = [t \in Tasks |-> Nothing]
  /\ faults = 0

-----------------------------------------------------------------------------
(* Helpers. *)

Goto(t, step) == pc' = [pc EXCEPT ![t] = step]

\* Only the program counter of a task changes.
OnlyStep(t, step) ==
  /\ Goto(t, step)
  /\ UNCHANGED <<body, home, copy, storeVars, published, phase, up, faults>>

\* The tasks in S end.
Finish(S) ==
  /\ pc' = [t \in Tasks |-> IF t \in S THEN "idle" ELSE pc[t]]
  /\ body' = [t \in Tasks |-> IF t \in S THEN Nothing ELSE body[t]]
  /\ home' = [t \in Tasks |-> IF t \in S THEN Nothing ELSE home[t]]
  /\ copy' = [t \in Tasks |-> IF t \in S THEN Nothing ELSE copy[t]]

TasksOf(p) == {t \in Tasks : home[t] = p}
Buffered(p) == {t \in TasksOf(p) : pc[t] = "buffered"}

Fault == faults < MaxFaults /\ faults' = faults + 1

\* Mutant: a garbage consumer that sleeps and nacks, as BaseConsumer does.
AfterFailureSleeps(t) == "sleeping"

\* Where a task goes once its callback has raised: _process_unexpected_exception.
\* The garbage consumer needs an open channel (_check_setup raises otherwise)
\* and a JSON object (body["error"] raises TypeError otherwise); what it raises
\* escapes _process_message, and message.process() rejects the message.
AfterFailure(t) ==
  IF ~Garbage THEN "sleeping"
  ELSE IF home[t] \in up /\ Kind[body[t]] = "object" THEN "moving"
  ELSE "rejecting"

\* The channels of the consumers in P are gone: their tasks keep running, but
\* what they hold can no longer be settled, and a publish in progress raises.
LoseLinks(P) ==
  /\ pc' = [t \in Tasks |-> IF home[t] \in P /\ pc[t] \in {"moving", "confirming"}
                            THEN "rejecting" ELSE pc[t]]
  /\ copy' = [t \in Tasks |-> IF home[t] \in P THEN Nothing ELSE copy[t]]
  /\ UNCHANGED <<body, home>>

-----------------------------------------------------------------------------
(* The consumer: __aenter__, consume, _listen_queue, __aexit__. *)

\* init_connection, then consume up to the queue iterator.
Start(p) ==
  /\ phase[p] = "off"
  /\ phase' = [phase EXCEPT ![p] = "listening"]
  /\ up' = up \cup {p}
  /\ UNCHANGED <<brokerVars, taskVars, faults>>

\* The broker delivers a copy to the iterator of a listening consumer.
Deliver(p, t, c) ==
  /\ phase[p] = "listening" /\ p \in up
  /\ pc[t] = "idle"
  /\ Deliverable(c, p)
  /\ MoveCopy(c, p)
  /\ Goto(t, "buffered")
  /\ body' = [body EXCEPT ![t] = content[c]]
  /\ home' = [home EXCEPT ![t] = p]
  /\ copy' = [copy EXCEPT ![t] = c]
  /\ UNCHANGED <<published, fate, phase, up, faults>>

\* Mutant: the delivery is acknowledged before it is processed.
SpawnAcksFirst(t) ==
  /\ pc[t] = "buffered" /\ phase[home[t]] = "listening"
  /\ IF copy[t] # Nothing THEN MoveCopy(copy[t], "free") ELSE UNCHANGED storeVars
  /\ Goto(t, "spawned")
  /\ copy' = [copy EXCEPT ![t] = Nothing]
  /\ UNCHANGED <<body, home, published, fate, phase, up, faults>>

\* async for: create_task(self._process_message(...)).
Spawn(t) ==
  /\ pc[t] = "buffered" /\ phase[home[t]] = "listening"
  /\ OnlyStep(t, "spawned")
  /\ UNCHANGED fate

\* Mutant: the buffered deliveries are rejected without requeue.
CloseIteratorDiscards(p) ==
  Relocate([c \in Copies |->
              IF \E t \in Buffered(p) : copy[t] = c THEN "free" ELSE place[c]])

\* The iterator closes: what it still buffers is rejected with requeue=True.
CloseIterator(p) ==
  Relocate([c \in Copies |->
              IF \E t \in Buffered(p) : copy[t] = c THEN "main" ELSE place[c]])

\* The consume() coroutine alone is cancelled or fails; its tasks live on.
StopListening(p) ==
  /\ phase[p] = "listening"
  /\ Fault
  /\ phase' = [phase EXCEPT ![p] = "stopped"]
  /\ CloseIterator(p)
  /\ Finish(Buffered(p))
  /\ UNCHANGED <<published, fate, up>>

\* close_connection: the broker requeues what the channel had unacked, while
\* the tasks created by _listen_queue go on with stale deliveries.
Close(p) ==
  /\ phase[p] = "stopped"
  /\ phase' = [phase EXCEPT ![p] = "off"]
  /\ up' = up \ {p}
  /\ Relocate(Requeued(p))
  /\ LoseLinks({p})
  /\ UNCHANGED <<published, fate, faults>>

-----------------------------------------------------------------------------
(* The tasks: _process_message and what it awaits. *)

\* json.loads: a body that is no JSON is acknowledged and skipped; one that is
\* not text raises UnicodeDecodeError, which nothing catches.
Begin(t) ==
  /\ pc[t] = "spawned"
  /\ \/ Kind[body[t]] = "malformed" /\ OnlyStep(t, "acking")
     \/ Kind[body[t]] = "undecodable" /\ OnlyStep(t, "rejecting")
     \/ Kind[body[t]] \in {"object", "other"} /\ OnlyStep(t, "running")
  /\ UNCHANGED fate

\* `await callback(...)` returns: message.ack().
CallbackReturns(t) ==
  /\ pc[t] = "running"
  /\ OnlyStep(t, "acking")
  /\ Witness(body[t], "handled")

\* `await callback(...)` raises: await self._process_unexpected_exception(...).
CallbackRaises(t) ==
  /\ pc[t] = "running"
  /\ OnlyStep(t, AfterFailure(t))
  /\ Witness(body[t], "failed")

\* asyncio.sleep(self._delay) is over: message.nack(requeue=self._requeue_msg).
Woken(t) ==
  /\ pc[t] = "sleeping"
  /\ OnlyStep(t, "nacking")
  /\ UNCHANGED fate

\* Mutant: the garbage copy is published without a delivery mode.
StoreCopyTransient(t) ==
  /\ pc[t] = "moving" /\ home[t] \in up
  /\ \E c \in Copies : Store(c, body[t], "garbage", FALSE)
  /\ Goto(t, "confirming")
  /\ UNCHANGED <<body, home, copy, published, fate, phase, up, faults>>

\* Mutant: it is published on the channel of the delivery, which may be gone.
StoreCopyOnOwnChannel(t) ==
  /\ pc[t] = "moving" /\ home[t] \in up /\ copy[t] # Nothing
  /\ \E c \in Copies : Store(c, body[t], "garbage", TRUE)
  /\ Goto(t, "confirming")
  /\ UNCHANGED <<body, home, copy, published, fate, phase, up, faults>>

\* The broker receives the garbage copy and stores it: delivery_mode PERSISTENT.
StoreCopy(t) ==
  /\ pc[t] = "moving" /\ home[t] \in up
  /\ \E c \in Copies : Store(c, body[t], "garbage", TRUE)
  /\ Goto(t, "confirming")
  /\ UNCHANGED <<body, home, copy, published, fate, phase, up, faults>>

\* The broker refuses it (it is full, or something else is wrong there): publish
\* raises, and message.process() rejects.
RefuseCopy(t) ==
  /\ pc[t] = "moving" /\ home[t] \in up
  /\ \/ Fault
     \/ (\A c \in Copies : place[c] # "free") /\ UNCHANGED faults
  /\ Goto(t, "rejecting")
  /\ Witness(body[t], "refused")
  /\ UNCHANGED <<body, home, copy, storeVars, published, phase, up>>

\* Mutant: the original is nacked after its garbage copy is stored.
ConfirmedNacks(t) ==
  /\ pc[t] = "confirming"
  /\ OnlyStep(t, "nacking")
  /\ UNCHANGED fate

\* The publisher confirm arrives: publish returns, then message.ack().
Confirmed(t) ==
  /\ pc[t] = "confirming"
  /\ OnlyStep(t, "acking")
  /\ UNCHANGED fate

\* Mutants: requeue_msg is not passed on; a queue nobody declared.
VerdictNeverRequeues(step) == "free"
VerdictUndeclared(step) == IF step = "nacking" /\ RequeueMsg THEN "main" ELSE "retry"

\* Where the frame that settles a delivery sends it; the main queue has no dead
\* letter exchange, so what is not requeued is discarded.
Verdict(step) == IF step = "nacking" /\ RequeueMsg THEN "main" ELSE "free"

\* Mutant: a task that ends with an exception sends no reject.
SettleForgetsReject(t) ==
  /\ pc[t] \in Settling
  /\ IF copy[t] # Nothing /\ pc[t] # "rejecting"
     THEN MoveCopy(copy[t], Verdict(pc[t])) ELSE UNCHANGED storeVars
  /\ Finish({t})
  /\ UNCHANGED <<published, fate, phase, up, faults>>

\* The frame is sent on the channel of the delivery, if that still exists.
Settle(t) ==
  /\ pc[t] \in Settling
  /\ IF copy[t] # Nothing THEN MoveCopy(copy[t], Verdict(pc[t])) ELSE UNCHANGED storeVars
  /\ Finish({t})
  /\ UNCHANGED <<published, fate, phase, up, faults>>

-----------------------------------------------------------------------------
(* Cancellation, crashes and connection loss. *)

\* CancelledError escapes from _process_message at these awaits.
Cut(t) == \/ pc[t] \in {"sleeping", "moving", "confirming"}
          \/ pc[t] = "running" /\ ~CancelIsFailure

\* What cancelling a task makes of it.
Cancelled(t) ==
  IF pc[t] \in {"idle", "buffered"} THEN "idle"
  ELSE IF Cut(t) THEN "rejecting"
  ELSE IF pc[t] = "running" THEN AfterFailure(t) ELSE "abandoned"

\* asyncio.run is leaving (KeyboardInterrupt, an exception in main): it cancels
\* every task of the loop, before the connection is closed.
Interrupt(p) ==
  /\ phase[p] \in {"listening", "stopped"}
  /\ Fault
  /\ phase' = [phase EXCEPT ![p] = "dying"]
  /\ CloseIterator(p)
  /\ pc' = [t \in Tasks |-> IF home[t] = p THEN Cancelled(t) ELSE pc[t]]
  /\ body' = [t \in Tasks |-> IF t \in Buffered(p) THEN Nothing ELSE body[t]]
  /\ home' = [t \in Tasks |-> IF t \in Buffered(p) THEN Nothing ELSE home[t]]
  /\ copy' = [t \in Tasks |-> IF t \in Buffered(p) THEN Nothing ELSE copy[t]]
  /\ fate' = [m \in Messages |->
                fate[m] \cup
                {e \in {"cut", "failed"} :
                  \E t \in TasksOf(p) : /\ body[t] = m
                                        /\ \/ e = "cut" /\ Cut(t)
                                           \/ e = "failed" /\ pc[t] = "running" /\ ~Cut(t)}]
  /\ UNCHANGED <<published, up>>

\* The process of p is gone, and with it its tasks and its connection.
EndProcess(p) ==
  /\ phase' = [phase EXCEPT ![p] = "off"]
  /\ up' = up \ {p}
  /\ Relocate(Requeued(p))
  /\ Finish(TasksOf(p))
  /\ UNCHANGED <<published, fate>>

\* __aexit__ closes the connection and asyncio.run closes the loop: nothing the
\* cancelled tasks still do can reach the broker.
Exit(p) == phase[p] = "dying" /\ EndProcess(p) /\ UNCHANGED faults

\* The process is killed.
Crash(p) == phase[p] # "off" /\ Fault /\ EndProcess(p)

\* The connection breaks; connect_robust will open it again.
ConnectionLost(p) ==
  /\ p \in up
  /\ Fault
  /\ up' = up \ {p}
  /\ Relocate(Requeued(p))
  /\ LoseLinks({p})
  /\ UNCHANGED <<published, fate, phase>>

\* connect_robust restores the connection, the channel and the subscription.
Reconnect(p) ==
  /\ phase[p] \in {"listening", "stopped"} /\ p \notin up
  /\ up' = up \cup {p}
  /\ UNCHANGED <<brokerVars, taskVars, phase, faults>>

BrokerRestart ==
  /\ Fault
  /\ RestartStore
  /\ up' = {}
  /\ LoseLinks(Consumers)
  /\ UNCHANGED phase

-----------------------------------------------------------------------------
\* Producers, and the operator of the garbage queue.
Outside ==
  /\ \/ \E m \in Messages : Publish(m)
     \/ \E c \in Copies : Garbage /\ (ReplayGarbage(c) \/ DeleteGarbage(c))
  /\ UNCHANGED <<phase, up, taskVars, faults>>

\* Nothing to do: the consumers wait for a delivery.
Rest ==
  /\ published = Messages
  /\ \A p \in Consumers : phase[p] = "listening" /\ p \in up
  /\ \A t \in Tasks : pc[t] = "idle"
  /\ \A c \in Copies : place[c] # "main"
  /\ UNCHANGED vars

TaskStep(t) ==
  \/ Spawn(t) \/ Begin(t) \/ CallbackReturns(t) \/ CallbackRaises(t) \/ Woken(t)
  \/ StoreCopy(t) \/ RefuseCopy(t) \/ Confirmed(t) \/ Settle(t)

ConsumerStep(p) ==
  \/ Start(p) \/ StopListening(p) \/ Close(p) \/ Interrupt(p) \/ Exit(p)
  \/ Crash(p) \/ ConnectionLost(p) \/ Reconnect(p)
  \/ \E t \in Tasks, c \in Copies : Deliver(p, t, c)

Next ==
  \/ Outside
  \/ \E t \in Tasks : TaskStep(t)
  \/ \E p \in Consumers : ConsumerStep(p)
  \/ BrokerRestart
  \/ Rest

Spec == Init /\ [][Next]_vars

(***************************************************************************)
(* What the environment owes the program: the event loop runs every task   *)
(* that can run, callbacks end, sleeps end, the broker answers, whoever    *)
(* started the program starts it again, connect_robust reconnects, and a   *)
(* queue is first in first out, so a copy that can be delivered again and  *)
(* again (SF) is delivered.  Faults, operators and producers owe nothing.  *)
(***************************************************************************)
Fairness ==
  /\ \A t \in Tasks :
       /\ WF_vars(Spawn(t) \/ Begin(t) \/ Woken(t) \/ Confirmed(t) \/ Settle(t))
       /\ WF_vars(CallbackReturns(t) \/ CallbackRaises(t))
       /\ WF_vars(StoreCopy(t) \/ RefuseCopy(t))
  /\ \A p \in Consumers :
       WF_vars(Start(p) \/ Close(p) \/ Exit(p) \/ Reconnect(p))
  /\ \A c \in Copies : SF_vars(\E p \in Consumers, t \in Tasks : Deliver(p, t, c))

FairSpec == Spec /\ Fairness

-----------------------------------------------------------------------------
(* Correctness. *)

\* The reasons for which the consumer may let a message go: a callback accepted
\* it; it is not JSON; an operator deleted it; it failed where the consumer
\* drops failures (requeue_msg=False, or a garbage copy that cannot be built
\* because the body is no JSON object); the broker refused the garbage copy; a
\* cancellation cut its processing; a restart found it transient.
Justified(m) ==
  \/ Kind[m] \in {"malformed", "undecodable"}
  \/ fate[m] \cap {"handled", "deleted", "refused", "cut"} # {}
  \/ "failed" \in fate[m] /\ IF Garbage THEN Kind[m] # "object" ELSE ~RequeueMsg
  \/ "evaporated" \in fate[m] /\ ~(Durable /\ Persistent)

\* Whatever the interleaving of tasks, closings, losses, restarts and crashes, a
\* message the main queue received is still there, or in the garbage queue, or
\* was let go for one of the reasons above (_process_message, _move_to_garbage_queue
\* and message.process settle a delivery only after its fate is known).
NothingLost == \A m \in published : Kept(m) \/ Justified(m)

\* A delivery the broker waits for always has exactly one task, which is going to settle
\* it: no path through _process_message forgets the ack, which would take one unit of
\* prefetch_count away until the channel closes.  Only while asyncio.run is leaving may
\* its task be abandoned; then closing the channel gives the delivery back.
EveryDeliveryOwned ==
  \A c \in Copies : place[c] \in Consumers =>
    /\ \E t \in TasksOf(place[c]) :
         copy[t] = c /\ pc[t] # "idle" /\ (pc[t] = "abandoned" => phase[place[c]] = "dying")
    /\ \A s, t \in Tasks : copy[s] = c /\ copy[t] = c => s = t

\* Without faults a message is in two places only while its garbage copy is
\* stored and its original not yet acknowledged (publish before ack).
OneCopy ==
  faults = 0 =>
    \A c, d \in Copies :
      c # d /\ content[c] # Nothing /\ content[c] = content[d] =>
        \E t \in Tasks : copy[t] \in {c, d} /\ pc[t] \in {"confirming", "acking"}

Busy(p) == {t \in TasksOf(p) : pc[t] \notin {"idle", "buffered", "abandoned"}}

\* The tasks _listen_queue creates without waiting for them are bounded by
\* prefetch_count alone, and each loss of the channel may leave that many stale
\* tasks running besides the ones the restored channel starts.
Backpressure == \A p \in Consumers : Cardinality(Busy(p)) <= Prefetch * (1 + faults)

\* The detached tasks and the channel recovery still implement at-least-once
\* delivery: a message stays with the broker until there is a reason to let it go.
Contract == INSTANCE AtLeastOnce WITH
  accepted <- published,
  kept     <- {m \in Messages : Kept(m)},
  released <- {m \in published : Justified(m)}
AtLeastOnceDelivery == Contract!Spec

\* Every message is dealt with: a callback accepts it, or it is let go, or it
\* waits in the garbage queue; no message is redelivered for ever and none is
\* stuck at a task, whatever the (finitely many) faults.
EventuallyDealtWith ==
  \A m \in Messages : m \in published ~> (Justified(m) \/ Parked(m))

\* No task of _listen_queue stays for ever, in particular not after its channel
\* is gone.
TasksEnd == \A t \in Tasks : pc[t] # "idle" ~> pc[t] = "idle"

-----------------------------------------------------------------------------
(* What the documentation says and the code does not do. *)

\* "if handler (callback) exits with exception, message body will be republished
\* to garbage queue and stored there until it will be deleted (acked) or
\* rejected": a message that only ever failed is still with the broker.
FailedMessageIsStored ==
  \A m \in published :
    Garbage /\ "failed" \in fate[m] /\ fate[m] \cap (Fates \ {"failed"}) = {} => Kept(m)

\* "requeue_msg: send message back to queue if consumer close unexpectedly": a
\* message no callback accepted survives the cancellation of its task.
RequeuedOnUnexpectedClose ==
  \A m \in published :
    RequeueMsg /\ Kind[m] \in {"object", "other"} /\ "cut" \in fate[m]
      /\ "handled" \notin fate[m] => Kept(m)
=============================================================================
