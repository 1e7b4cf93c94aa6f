--------------------------- MODULE DjangoConsumer ---------------------------
(***************************************************************************)
(* The blocking consumers of toolset.event_bus.django: BaseConsumer, and   *)
(* GarbageConsumer with store_failed on or off.                            *)
(*                                                                         *)
(* A consumer is one thread that takes one message after the other out of  *)
(* the deliveries pika has received.  What makes it hard is not its own    *)
(* concurrency but what goes on around it: the broker pushes the next      *)
(* deliveries and may drop the connection while a callback runs, publish   *)
(* and ack go out without confirmation, and an exception ends              *)
(* start_consuming, with everything pika had received and not dispatched.  *)
(***************************************************************************)
EXTENDS Broker

CONSTANTS
  Kind,         \* what the body of each message is
  Policy,       \* what _process_unexpected_exception does, see Policies
  RequeueMsg,   \* the requeue_msg parameter
  MaxFaults     \* bound on crashes, losses, restarts and refused publishes

Kinds == {"object", "other", "malformed", "undecodable"}

\* raise: BaseConsumer nacks and raises; return: GarbageConsumer nacks and goes
\* on (store_failed=False); store: GarbageConsumer moves the message to the
\* garbage queue (store_failed=True).
Policies == {"raise", "return", "store"}

ASSUME DjangoAssumption ==
  /\ Kind \in [Messages -> Kinds]
  /\ Policy \in Policies
  /\ RequeueMsg \in BOOLEAN
  /\ MaxFaults \in Nat

VARIABLES
  step,      \* where each consumer's thread is
  up,        \* the consumers whose connection is open
  cur,       \* the delivery the thread works on
  body,      \* the message that delivery carried
  faults     \* environment events so far

threadVars == <<step, cur, body>>
vars == <<published, place, content, sure, fate, step, up, cur, body, faults>>

\* raised: an exception is on its way out of start_consuming.
Steps == {"off", "waiting", "running", "storing", "acking", "nacking", "raised"}

TypeOK ==
  /\ BrokerTypeOK
  /\ step \in [Consumers -> Steps]
  /\ up \subseteq Consumers
  /\ cur \in [Consumers -> Copies \cup {Nothing}]
  /\ body \in [Consumers -> Messages \cup {Nothing}]
  /\ faults \in 0..MaxFaults

Init ==
  /\ BrokerInit
  /\ step = [p \in Consumers |-> "off"]
  /\ up = {}
  /\ cur = [p \in Consumers |-> Nothing]
  /\ body = [p \in Consumers |-> Nothing]
  /\ faults = 0

-----------------------------------------------------------------------------
Goto(p, s) == step' = [step EXCEPT ![p] = s]

\* The thread is done with its delivery and is at s.
Drop(p, s) ==
  /\ Goto(p, s)
  /\ cur' = [cur EXCEPT ![p] = Nothing]
  /\ body' = [body EXCEPT ![p] = Nothing]

Fault == faults < MaxFaults /\ faults' = faults + 1

\* Only the step of the thread changes.
OnlyStep(p, s) ==
  /\ Goto(p, s)
  /\ UNCHANGED <<cur, body, storeVars, published, up, faults>>

\* Deliveries the thread has not looked at yet.
Pending(p) == {c \in Copies : place[c] = p} \ {cur[p]}

\* Mutant: the subscription was made with auto_ack.
DisconnectDiscards(p) ==
  /\ up' = up \ {p}
  /\ Relocate([c \in Copies |-> IF place[c] = p THEN "free" ELSE place[c]])

\* The connection of p is gone: the broker requeues what it had unacked.
Disconnect(p) ==
  /\ up' = up \ {p}
  /\ Relocate(Requeued(p))

-----------------------------------------------------------------------------
(* start_consuming. *)

\* A connection, a channel, the declarations and basic_consume.
Start(p) ==
  /\ step[p] = "off"
  /\ Goto(p, "waiting")
  /\ up' = up \cup {p}
  /\ UNCHANGED <<brokerVars, cur, body, faults>>

\* The broker pushes a delivery while the thread is busy, or has raised.
Deliver(p, c) ==
  /\ p \in up
  /\ Deliverable(c, p)
  /\ MoveCopy(c, p)
  /\ UNCHANGED <<published, fate, threadVars, up, faults>>

\* _pika_callback: json.loads; what is no text raises UnicodeDecodeError.
Take(p, c) ==
  /\ step[p] = "waiting" /\ p \in up /\ c \in Pending(p)
  /\ cur' = [cur EXCEPT ![p] = c]
  /\ body' = [body EXCEPT ![p] = content[c]]
  /\ \/ Kind[content[c]] = "malformed" /\ Goto(p, "acking")
     \/ Kind[content[c]] = "undecodable" /\ Goto(p, "raised")
     \/ Kind[content[c]] \in {"object", "other"} /\ Goto(p, "running")
  /\ UNCHANGED <<brokerVars, up, faults>>

CallbackReturns(p) ==
  /\ step[p] = "running"
  /\ OnlyStep(p, "acking")
  /\ Witness(body[p], "handled")

\* Mutant: a body that cannot be given an "error" is skipped, as broken JSON is.
CallbackRaisesSkips(p) ==
  /\ step[p] = "running"
  /\ \/ Policy # "store" /\ OnlyStep(p, "nacking")
     \/ Policy = "store" /\ Kind[body[p]] = "object" /\ OnlyStep(p, "storing")
     \/ Policy = "store" /\ Kind[body[p]] = "other" /\ OnlyStep(p, "acking")
  /\ Witness(body[p], "failed")

\* Mutant: store_failed is ignored.
CallbackRaisesNacks(p) ==
  /\ step[p] = "running"
  /\ OnlyStep(p, "nacking")
  /\ Witness(body[p], "failed")

\* _process_unexpected_exception; payload["error"] = ... raises TypeError unless
\* the body is a JSON object.
CallbackRaises(p) ==
  /\ step[p] = "running"
  /\ \/ Policy # "store" /\ OnlyStep(p, "nacking")
     \/ Policy = "store" /\ Kind[body[p]] = "object" /\ OnlyStep(p, "storing")
     \/ Policy = "store" /\ Kind[body[p]] = "other" /\ OnlyStep(p, "raised")
  /\ Witness(body[p], "failed")

\* Mutants: a routing key no queue is bound to; nack after publish.
StoreCopyMisrouted(p) ==
  /\ step[p] = "storing" /\ p \in up
  /\ \E c \in Copies : Store(c, body[p], "retry", FALSE)
  /\ Goto(p, "acking")
  /\ UNCHANGED <<cur, body, published, fate, up, faults>>
StoreCopyNacks(p) ==
  /\ step[p] = "storing" /\ p \in up
  /\ \E c \in Copies : Store(c, body[p], "garbage", FALSE)
  /\ Goto(p, "nacking")
  /\ UNCHANGED <<cur, body, published, fate, up, faults>>

\* _move_to_garbage_queue: basic_publish without properties, so the copy is
\* transient, and on a channel without confirms.
StoreCopy(p) ==
  /\ step[p] = "storing" /\ p \in up
  /\ \E c \in Copies : Store(c, body[p], "garbage", FALSE)
  /\ Goto(p, "acking")
  /\ UNCHANGED <<cur, body, published, fate, up, faults>>

\* The broker drops the copy; without confirms nobody hears of it.
RefuseCopy(p) ==
  /\ step[p] = "storing" /\ p \in up
  /\ \/ Fault
     \/ (\A c \in Copies : place[c] # "free") /\ UNCHANGED faults
  /\ Goto(p, "acking")
  /\ Witness(body[p], "refused")
  /\ UNCHANGED <<cur, body, storeVars, published, up>>

\* Mutant: basic_reject, whose requeue is True unless told otherwise.
AckRejects(p) ==
  /\ step[p] = "acking" /\ p \in up
  /\ MoveCopy(cur[p], "main")
  /\ Drop(p, "waiting")
  /\ UNCHANGED <<published, fate, up, faults>>

Ack(p) ==
  /\ step[p] = "acking" /\ p \in up
  /\ MoveCopy(cur[p], "free")
  /\ Drop(p, "waiting")
  /\ UNCHANGED <<published, fate, up, faults>>

\* Mutant: the nack does not pass requeue_msg on.
NackDrops(p) ==
  /\ step[p] = "nacking" /\ p \in up
  /\ MoveCopy(cur[p], "free")
  /\ Drop(p, IF Policy = "raise" THEN "raised" ELSE "waiting")
  /\ UNCHANGED <<published, fate, up, faults>>

\* basic_nack, after which BaseConsumer raises the exception of the callback.
Nack(p) ==
  /\ step[p] = "nacking" /\ p \in up
  /\ MoveCopy(cur[p], IF RequeueMsg THEN "main" ELSE "free")
  /\ Drop(p, IF Policy = "raise" THEN "raised" ELSE "waiting")
  /\ UNCHANGED <<published, fate, up, faults>>

\* Mutant: a lost connection is opened again under the delivery being processed.
NoticeLossReconnects(p) ==
  /\ step[p] \in {"waiting", "storing", "acking", "nacking"} /\ p \notin up
  /\ up' = up \cup {p}
  /\ UNCHANGED <<brokerVars, threadVars, faults>>

\* pika finds the connection closed when it next uses it, and raises.
NoticeLoss(p) ==
  /\ step[p] \in {"waiting", "storing", "acking", "nacking"} /\ p \notin up
  /\ Drop(p, "raised")
  /\ UNCHANGED <<brokerVars, up, faults>>

\* The exception leaves start_consuming: its `finally`, or close() when `with`
\* is left, closes the connection.
CloseAfterRaise(p) ==
  /\ step[p] = "raised"
  /\ Disconnect(p)
  /\ Drop(p, "off")
  /\ UNCHANGED <<published, fate, faults>>

-----------------------------------------------------------------------------
(* The environment. *)

\* The process ends: killed, or by KeyboardInterrupt, which nothing catches.
Crash(p) ==
  /\ step[p] # "off"
  /\ Fault
  /\ Disconnect(p)
  /\ Drop(p, "off")
  /\ UNCHANGED <<published, fate>>

\* The network, or the heartbeats a long callback does not send.  What the
\* thread holds is requeued while the thread still works on it.
ConnectionLost(p) ==
  /\ p \in up
  /\ Fault
  /\ Disconnect(p)
  /\ UNCHANGED <<published, fate, step, cur, body>>

BrokerRestart ==
  /\ Fault
  /\ RestartStore
  /\ up' = {}
  /\ UNCHANGED <<step, cur, body>>

Outside ==
  /\ \/ \E m \in Messages : Publish(m)
     \/ \E c \in Copies : Policy = "store" /\ (ReplayGarbage(c) \/ DeleteGarbage(c))
  /\ UNCHANGED <<threadVars, up, faults>>

\* Nothing to do: the consumers wait for a delivery.
Rest ==
  /\ published = Messages
  /\ \A p \in Consumers : step[p] = "waiting" /\ p \in up /\ Pending(p) = {}
  /\ \A c \in Copies : place[c] # "main"
  /\ UNCHANGED vars

ThreadStep(p) ==
  \/ Start(p) \/ \E c \in Copies : Take(p, c)
  \/ CallbackReturns(p) \/ CallbackRaises(p) \/ StoreCopy(p) \/ RefuseCopy(p)
  \/ Ack(p) \/ Nack(p) \/ NoticeLoss(p) \/ CloseAfterRaise(p)

Next ==
  \/ Outside
  \/ \E p \in Consumers : ThreadStep(p) \/ Crash(p) \/ ConnectionLost(p)
  \/ \E p \in Consumers, c \in Copies : Deliver(p, c)
  \/ BrokerRestart
  \/ Rest

Spec == Init /\ [][Next]_vars

(***************************************************************************)
(* Callbacks end, the thread goes on, and the program is started again     *)
(* when it has ended.  The queue and the deliveries pika holds are first   *)
(* in first out, so a copy that can be delivered, or taken, again and      *)
(* again is.  That is too much to ask when a message raises each time it   *)
(* is taken and so keeps its place at the head; see EventuallyDealtWith.   *)
(***************************************************************************)
Fairness ==
  /\ \A p \in Consumers :
       /\ WF_vars(Start(p) \/ StoreCopy(p) \/ RefuseCopy(p) \/ Ack(p) \/ Nack(p)
                  \/ NoticeLoss(p) \/ CloseAfterRaise(p))
       /\ WF_vars(CallbackReturns(p) \/ CallbackRaises(p))
  /\ \A p \in Consumers, c \in Copies : SF_vars(Take(p, c))
  /\ \A c \in Copies : SF_vars(\E p \in Consumers : Deliver(p, c))

FairSpec == Spec /\ Fairness

-----------------------------------------------------------------------------
(* Correctness. *)

\* The reasons for which a message may leave the broker.  A body that cannot be
\* decoded or given an "error" is not among them: it comes back for ever.
Justified(m) ==
  \/ Kind[m] = "malformed"
  \/ fate[m] \cap {"handled", "deleted", "refused"} # {}
  \/ "failed" \in fate[m] /\ Policy # "store" /\ ~RequeueMsg
  \/ "evaporated" \in fate[m] /\ ~(Durable /\ Persistent)
  \/ {"evaporated", "failed"} \subseteq fate[m] /\ Policy = "store"

\* No crash, loss, restart or exception makes a message disappear from the broker
\* without one of these reasons: publish goes out before ack on one channel, and
\* what the thread had not settled is requeued when the channel closes.
NothingLost == \A m \in published : Kept(m) \/ Justified(m)

\* Without faults a message is in two places only between the publish of its
\* garbage copy and the ack of the original.
OneCopy ==
  faults = 0 =>
    \A c, d \in Copies :
      c # d /\ content[c] # Nothing /\ content[c] = content[d] =>
        \E p \in Consumers : cur[p] \in {c, d} /\ step[p] = "acking"

\* Without faults no callback is called again for a message one has returned for:
\* an exception for another delivery ends start_consuming and the broker delivers
\* again what the channel had not settled, but none of that has been handled, and
\* a garbage copy that an operator replays is the copy of a message that failed.
HandledOnce ==
  faults = 0 =>
    \A p \in Consumers : step[p] = "running" => "handled" \notin fate[body[p]]

\* The delivery the thread is about to settle is still its own: the tag of a
\* lost connection is never used on the next one.
SettlesItsOwn ==
  \A p \in Consumers :
    p \in up /\ step[p] \in {"running", "storing", "acking", "nacking"} =>
      /\ place[cur[p]] = p /\ content[cur[p]] = body[p]
      /\ \A q \in Consumers \ {p} : q \in up => cur[q] # cur[p]

\* The blocking consumers implement at-least-once delivery.
Contract == INSTANCE AtLeastOnce WITH
  accepted <- published,
  kept     <- {m \in Messages : Kept(m)},
  released <- {m \in published : Justified(m)}
AtLeastOnceDelivery == Contract!Spec

\* With store_failed, and bodies that are JSON objects, every message is dealt
\* with, although losses and crashes interrupt and repeat callbacks.
EventuallyDealtWith ==
  \A m \in Messages : m \in published ~> (Justified(m) \/ Parked(m))

-----------------------------------------------------------------------------
(* What the documentation says and the code does not do. *)

\* "message body will be republished to garbage queue and stored there until it
\* will be deleted (acked) or rejected": with store_failed, a durable queue and
\* persistent messages, nothing but the operator ends the life of a message that
\* only ever failed.
StoredUntilRemoved ==
  \A m \in published :
    Policy = "store" /\ Durable /\ Persistent /\ "failed" \in fate[m]
      /\ fate[m] \cap {"handled", "deleted", "refused"} = {} => Kept(m)
=============================================================================
