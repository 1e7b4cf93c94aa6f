------------------------------ MODULE Sessions ------------------------------
(***************************************************************************)
(* The consumers of toolset.event_bus before and after their deliveries:   *)
(* entering and leaving `with`, connecting, the declarations and bindings  *)
(* of start_consuming and consume, and what is closed when they end.       *)
(*                                                                         *)
(* One consumer of one class.  Every request to the broker may fail; the   *)
(* exception leaves by the path the code gives it.                         *)
(***************************************************************************)
EXTENDS Naturals, Sequences, FiniteSets

CONSTANTS
  Conns,        \* identities of connections (a bound of the model)
  NoConn,       \* stands for "no connection"
  MaxFailures,  \* bound on requests that fail
  MaxRaises     \* bound on the callback's exceptions inside one `with`

ASSUME SessionAssumption ==
  NoConn \notin Conns /\ MaxFailures \in Nat /\ MaxRaises \in Nat

VARIABLES
  class,       \* the class of the consumer, with store_failed
  entered,     \* the program is inside `with consumer`
  inContext,   \* _in_ctx
  connection,  \* the attribute: connection, _connection
  mine,        \* the connection of the running start_consuming or consume
  status,      \* none; open; lost: broken, the client has not noticed
  chan,        \* the channel of each connection: none, open, closed
  subs,        \* its subscriptions to the queue
  bound,       \* self.bindings is not empty
  topology,    \* what is declared on the broker
  step,        \* 0, the next request of the set-up, or after the last: consuming
  raises,      \* history: exceptions of the callback since `with`
  failures     \* history: failed requests and set-ups

sessionVars == <<class, entered, inContext, connection, mine, status, chan, subs,
                 bound, topology, step, raises, failures>>

Classes == {"aio", "aio garbage", "base", "garbage", "storing"}
Declarations == {"exchange", "retry", "queue", "garbage", "keys", "garbage key", "retry key"}

SessionTypeOK ==
  /\ class \in Classes
  /\ {entered, inContext, bound} \subseteq BOOLEAN
  /\ {connection, mine} \subseteq Conns \cup {NoConn}
  /\ status \in [Conns -> {"none", "open", "lost"}]
  /\ chan \in [Conns -> {"none", "open", "closed"}]
  /\ subs \in [Conns -> 0..MaxRaises + 1]
  /\ topology \subseteq Declarations
  /\ step \in 0..9
  /\ raises \in 0..MaxRaises /\ failures \in 0..MaxFailures

\* The exchange of the bindings is another service's; the consumer may come first.
SessionInit ==
  /\ class \in Classes
  /\ entered = FALSE /\ inContext = FALSE /\ bound = FALSE
  /\ connection = NoConn /\ mine = NoConn
  /\ status = [k \in Conns |-> "none"] /\ chan = [k \in Conns |-> "none"]
  /\ subs = [k \in Conns |-> 0]
  /\ topology \in {{}, {"exchange"}}
  /\ step = 0 /\ raises = 0 /\ failures = 0

-----------------------------------------------------------------------------
(* Helpers. *)

Asyncio == class \in {"aio", "aio garbage"}
AtRest == step = 0

\* Mutant: it subscribes before the garbage queue is there.
PlanSubscribesEarly ==
  CASE class \in {"aio", "base", "garbage"} -> <<"qos", "queue", "keys", "subscribe">>
    [] class = "aio garbage" ->
         <<"qos", "retry", "queue", "garbage", "keys", "garbage key", "retry key", "subscribe">>
    [] class = "storing" ->
         <<"qos", "queue", "keys", "subscribe", "retry", "garbage", "garbage key", "retry key">>

\* The requests of start_consuming and consume, in their order.
Plan ==
  CASE class \in {"aio", "base", "garbage"} -> <<"qos", "queue", "keys", "subscribe">>
    [] class = "aio garbage" ->
         <<"qos", "retry", "queue", "garbage", "keys", "garbage key", "retry key", "subscribe">>
    [] class = "storing" ->
         <<"qos", "queue", "keys", "retry", "garbage", "garbage key", "retry key", "subscribe">>

\* What the broker must have for a request; without it it closes the channel.
Needs(request) ==
  CASE request = "keys" -> {"exchange", "queue"}
    [] request = "garbage key" -> {"retry", "garbage"}
    [] request = "retry key" -> {"retry", "queue"}
    [] request = "subscribe" -> {"queue"}
    [] OTHER -> {}

Consuming == step = Len(Plan) + 1
SettingUp == step \in 1..Len(Plan)
Request == Plan[step]
Dead(k) == k = NoConn \/ status[k] # "open" \/ chan[k] # "open"

Unused == {k \in Conns : status[k] = "none" /\ k # connection}

Fails == failures < MaxFailures /\ failures' = failures + 1

\* The connection k becomes s, its channel c and its subscriptions n.
Becomes(k, s, c, n) ==
  /\ status' = [status EXCEPT ![k] = s]
  /\ chan' = [chan EXCEPT ![k] = c]
  /\ subs' = [subs EXCEPT ![k] = n]
CallOver == step' = 0 /\ mine' = NoConn
lineVars == <<status, chan, subs>>

-----------------------------------------------------------------------------
(* __enter__ and __aenter__, __exit__ and __aexit__. *)

\* The asyncio client takes up what it still has open, the blocking one connects.
OpenSession ==
  /\ AtRest /\ ~entered
  /\ \E k \in Conns :
       /\ IF Asyncio /\ connection # NoConn /\ status[connection] = "open"
            THEN k = connection ELSE k \in Unused
       /\ Becomes(k, "open", "open", subs[k])
       /\ connection' = k
  /\ entered' = TRUE /\ inContext' = ~Asyncio /\ raises' = 0
  /\ UNCHANGED <<class, mine, bound, topology, step, failures>>

\* It cannot connect, or the connection gives it no channel: `with` raises, and
\* the open connection stays in the attribute.
OpenSessionFails ==
  /\ AtRest /\ ~entered
  /\ Fails
  /\ \/ UNCHANGED <<connection, lineVars>>
     \/ \E k \in Conns :
          /\ IF Asyncio /\ connection # NoConn /\ status[connection] = "open"
               THEN k = connection /\ chan[k] # "open" ELSE k \in Unused
          /\ Becomes(k, "open", "none", 0)
          /\ connection' = k
  /\ UNCHANGED <<class, entered, inContext, mine, bound, topology, step, raises>>

\* close() skips what is_open denies.  On a connection that broke unnoticed it
\* raises, and _in_ctx is not reset.
CloseSession ==
  /\ AtRest /\ entered
  /\ Becomes(connection, "none", "none", 0)
  /\ inContext' = (status[connection] = "lost")
  /\ entered' = FALSE
  /\ UNCHANGED <<class, connection, mine, bound, topology, step, raises, failures>>

\* channel.close() raises in close_connection: connection.close() is skipped.
CloseSessionFails ==
  /\ AtRest /\ entered /\ Asyncio
  /\ Fails
  /\ Becomes(connection, "open", "closed", 0)
  /\ entered' = FALSE
  /\ UNCHANGED <<class, inContext, connection, mine, bound, topology, step, raises>>

-----------------------------------------------------------------------------
(* start_consuming and consume. *)

\* The call takes its connection and channel; its arguments may add a binding.
\* consume() raises at once on a dead channel, and nothing has changed.  Each call
\* may fail once, so that the bound must leave room for it.
StartConsuming ==
  /\ AtRest /\ failures < MaxFailures
  /\ step' = 1
  /\ bound' \in {bound, TRUE}
  /\ \/ /\ Asyncio /\ ~Dead(connection)
        /\ mine' = connection /\ UNCHANGED lineVars
     \/ /\ inContext
        /\ mine' = connection /\ UNCHANGED lineVars
     \/ /\ ~Asyncio /\ ~inContext
        /\ \E k \in Unused : mine' = k /\ Becomes(k, "open", "open", 0)
  /\ UNCHANGED <<class, entered, inContext, connection, topology, raises, failures>>

\* Outside of `with`: no connection, or one that is left open because it gave no channel.
StartConsumingFails ==
  /\ AtRest /\ ~Asyncio /\ ~inContext
  /\ Fails
  /\ \/ UNCHANGED lineVars
     \/ \E k \in Unused : Becomes(k, "open", "none", 0)
  /\ UNCHANGED <<class, entered, inContext, connection, mine, bound, topology, step, raises>>

\* One request of the set-up is answered.
SetUp ==
  /\ SettingUp /\ ~Dead(mine)
  /\ Needs(Request) \subseteq topology
  /\ Request = "keys" => bound
  /\ topology' = topology \cup ({Request} \cap Declarations)
  /\ subs' = [subs EXCEPT ![mine] = @ + (IF Request = "subscribe" THEN 1 ELSE 0)]
  /\ step' = step + 1
  /\ UNCHANGED <<class, entered, inContext, connection, mine, status, chan, bound,
                 raises, failures>>

\* The set-up raises, before the `try`: nothing is bound; the broker has not what
\* the request needs, or objects to it, and closes the channel; or the connection
\* is dead (a robust one is restored).
SetUpFails ==
  /\ SettingUp
  /\ \/ /\ Request = "keys" /\ ~bound /\ ~Dead(mine)
        /\ Fails /\ UNCHANGED lineVars
     \/ ~Dead(mine) /\ Fails /\ Becomes(mine, "open", "closed", 0)
     \/ ~Dead(mine) /\ ~Asyncio /\ Fails /\ Becomes(mine, "none", "none", 0)
     \/ /\ Dead(mine) /\ UNCHANGED failures
        /\ Becomes(mine, IF status[mine] = "lost" THEN "none" ELSE status[mine],
                         IF chan[mine] = "open" THEN "none" ELSE chan[mine], 0)
  /\ CallOver
  /\ UNCHANGED <<class, entered, inContext, connection, bound, topology, raises>>

\* Mutant: the iterator is left without cancelling its subscription.
StopListeningSubscribed ==
  /\ Consuming /\ Asyncio
  /\ CallOver
  /\ UNCHANGED <<class, entered, inContext, connection, lineVars, bound, topology, raises, failures>>

\* consume() is cancelled or told to stop: the iterator cancels its subscription.
StopListening ==
  /\ Consuming /\ Asyncio
  /\ Becomes(mine, "open", "open", 0)
  /\ CallOver
  /\ UNCHANGED <<class, entered, inContext, connection, bound, topology, raises, failures>>

\* consume() ends because the broker has closed the channel.
ListeningFails ==
  /\ Consuming /\ Asyncio
  /\ Fails
  /\ Becomes(mine, "open", "closed", 0)
  /\ CallOver
  /\ UNCHANGED <<class, entered, inContext, connection, bound, topology, raises>>

\* Mutant: the connection is only closed inside of `with`.
CallbackRaisesKeeping ==
  /\ Consuming /\ ~Asyncio
  /\ raises < MaxRaises
  /\ raises' = IF inContext THEN raises + 1 ELSE raises
  /\ IF inContext THEN Becomes(mine, "none", "none", 0) ELSE UNCHANGED lineVars
  /\ CallOver
  /\ UNCHANGED <<class, entered, inContext, connection, bound, topology, failures>>

\* The callback's exception ends start_consuming.  The `finally` closes channel and
\* connection, but inside of `with`, where also the subscription stays.
CallbackRaises ==
  /\ Consuming /\ ~Asyncio
  /\ raises < MaxRaises
  /\ raises' = IF inContext THEN raises + 1 ELSE raises
  /\ IF inContext THEN UNCHANGED lineVars ELSE Becomes(mine, "none", "none", 0)
  /\ CallOver
  /\ UNCHANGED <<class, entered, inContext, connection, bound, topology, failures>>

\* The broker closes the channel of a running start_consuming.  BaseConsumer then
\* closes the connection; GarbageConsumer's channel.close() raises before it can.
ChannelClosed ==
  /\ Consuming /\ ~Asyncio
  /\ Fails
  /\ Becomes(mine, IF inContext \/ class # "base" THEN "open" ELSE "none", "closed", 0)
  /\ CallOver
  /\ UNCHANGED <<class, entered, inContext, connection, bound, topology, raises>>

\* The connection breaks: while consuming the client sees it, between its calls not.
ConnectionLost ==
  /\ ~Asyncio
  /\ Fails
  /\ \/ Consuming /\ Becomes(mine, "none", "none", 0) /\ CallOver
     \/ /\ AtRest /\ UNCHANGED <<step, mine>>
        /\ \E k \in Conns : /\ status[k] = "open"
                            /\ Becomes(k, IF k = connection THEN "lost" ELSE "none", chan[k], 0)
  /\ UNCHANGED <<class, entered, inContext, connection, bound, topology, raises>>

\* Another service declares the exchange.
ExchangeDeclared ==
  /\ "exchange" \notin topology
  /\ topology' = topology \cup {"exchange"}
  /\ UNCHANGED <<class, entered, inContext, connection, mine, lineVars, bound, step,
                 raises, failures>>

SessionNext ==
  \/ OpenSession \/ OpenSessionFails \/ CloseSession \/ CloseSessionFails
  \/ StartConsuming \/ StartConsumingFails \/ SetUp \/ SetUpFails
  \/ StopListening \/ ListeningFails
  \/ CallbackRaises \/ ChannelClosed \/ ConnectionLost \/ ExchangeDeclared

SessionSpec == SessionInit /\ [][SessionNext]_sessionVars

-----------------------------------------------------------------------------
(* Correctness. *)

OpenConns == {k \in Conns : status[k] = "open"}
Abandoned == OpenConns \ {connection, mine}

\* The callback's exceptions cost no connection, in or out of `with`.  Each one
\* that is left open and forgotten is the price of a failure on the way; the
\* asyncio client forgets none, its next `async with` takes it up.
LeaksCostFailures ==
  /\ Cardinality(Abandoned) <= failures
  /\ Asyncio => Abandoned = {}
  /\ failures = 0 /\ AtRest /\ ~entered => OpenConns = {}

\* Whatever failed half-way before, messages are only subscribed to when the queue,
\* its bindings and the way to the garbage queue and back are all in place.
SubscribedIsSetUp ==
  \A k \in Conns : subs[k] > 0 =>
    bound /\ \A i \in DOMAIN Plan : Plan[i] \in Declarations => Plan[i] \in topology

\* A forgotten connection holds no subscription, which would keep messages nobody
\* reads.  A channel is subscribed twice only inside `with`, once more for each
\* exception of the callback; then prefetch_count counts as often.
SubscriptionsOwned ==
  \A k \in Conns : subs[k] > 0 =>
    /\ k = mine \/ (k = connection /\ entered)
    /\ subs[k] <= 1 + raises
    /\ subs[k] > 1 => inContext
=============================================================================
