# A verification project for toolset

`toolset` is a library of helpers for Python services: consumers and producers
for RabbitMQ (asyncio over aio_pika, blocking over pika), retry decorators, soft
deletion for Django models, serializer and error helpers for Django REST
framework, HTTP clients, and matching helpers for tests. This directory holds
TLA+ modules that model its core, the configurations that TLC checks, and proofs
that TLAPS checks.

## 1. Inventory

### asyncio consumers (`toolset/event_bus/aio/consumers.py`)

* State: the robust connection and the channel of `BaseClient`; bindings, queue
  and parameters (`durable`, `requeue_msg`, `delay`); the asyncio tasks that
  `_listen_queue` starts and forgets; for `BaseGarbageConsumer` a garbage queue
  and the exchange that leads to it and back.
* Operations: `__aenter__`/`init_connection`, `bind`, `consume` (qos, declarations,
  bindings, `_listen_queue`), `_process_message`, `_process_unexpected_exception`
  (sleep and nack; in the garbage consumer publish a copy and ack), `__aexit__`.
* Hard: up to `prefetch_count` tasks interleave at each `await`; closing or losing
  the channel does not stop them; cancellation arrives at any `await` and
  `message.process()` decides what becomes of the delivery; publish and ack are
  two steps; each request of connecting, setting up and closing may fail.
* Correct when: no delivery is forgotten, no message disappears without a reason,
  messages double only where at-least-once delivery allows it, tasks end; nothing is
  subscribed to before it is set up, no connection is left behind.

### blocking consumers (`toolset/event_bus/django/consumers/`)

* State: connection and channel of `BaseMessageBus`, whether a `with` is open,
  bindings, the delivery the thread works on, and the deliveries pika has buffered.
* Operations: `start_consuming`, `_pika_callback`, `_process_unexpected_exception`
  (`BaseConsumer` nacks and raises; `GarbageConsumer` stores or nacks), `close`.
* Hard: the connection can go away while the callback runs; an exception ends
  `start_consuming` with deliveries pending, inside `with` also with its subscription;
  the set-up may fail between the connection and the `try`; garbage copies go out
  without confirms.
* Correct when: as above; in addition a thread settles only the delivery it holds,
  and an exception for one message takes nothing from the others.

### blocking producer, message bus and retry (`django/producers.py`, `django/base.py`, `decorators.py`)

* State: `_connection` and `_in_ctx`, the connection of the current attempt, the
  attempt count.
* Operations: `__enter__`, `__exit__`, `publish` under `retry`.
* Hard: exceptions of the send are swallowed, those of the `finally` are not; in a
  context all attempts share a connection; nobody hears what the broker refused.
* Correct when: returning means the event was sent, copies and open connections are
  bounded by what went wrong, every call ends.

### soft delete (`django/soft_delete/`)

* State: a model's table in schema `public`, its twin in schema `deleted`, the
  triggers on both, and the instances that threads of the program hold.
* Operations: the statements Django sends, `restore`, the three trigger functions
  (`soft_delete`, `soft_restore`, `prevent_deletion`), the router, and `migrate`
  for each of the two databases.
* Hard: `save()` is two statements and its instance may be older than a delete; a
  restore inserts where others insert too; the databases are migrated one after the
  other while the program runs; the way back is computed from the table's name.
* Correct when: no row and no value is lost, the twin holds deleted rows and nothing
  else, a statement fails only for a reason.

### asyncio producer (`aio/producers.py`, `aio_retry` of `decorators.py`)

* State: a pool of channels whose factory takes a connection out of a second pool;
  `timeout`; the attempts of `aio_retry` around `publish`.
* Operations: `publish`, `teardown`, the two factories.
* Hard: a task waits for one pool inside the lock of the other; the timeout may fire
  after the broker stored the event; cancellation at any `await`; teardown while
  tasks make, use or return channels.
* Correct when: what is acquired is returned, nobody waits for ever, a return means
  the event is stored, after teardown nothing is open.

### tiny serializers (`drf/serializers/`)

* State: the cache `created_serializers`, by class name, for the life of the process.
* Operations: `make_tiny`, which descends into nested serializers and converts fields.
* Hard: threads convert at once; a conversion may raise half-way; two classes may have
  one name; the source of a primary key is cut at "_id", which is put behind it also
  where the relation has no such attribute.
* Correct when: a tiny serializer reads what the original reads.

### matching (`testing/matching.py`, `testing/tools.py`)

* State: none of its own, but a comparison may change the expected object.
* Operations: `assert_matches`, `copy_dict_with_swap_value`.
* Hard: `...` in lists, sets and dicts, nested; the scan after an ellipsis.
* Correct when: it agrees with its declarative meaning.

### DRF errors and HTTP clients (`drf/exceptions_utils/`, `aio/`, `sync/base_api_client.py`)

* State: the headers of a client's session.
* Operations: requests; `BaseCustomError`, `BaseProxyCustomError`,
  `custom_exception_handler`.
* Hard: an error that several services proxy or wrap; headers handed on.
* Correct when: an error names the service it comes from, a request the service that
  sent it.

### The other components

`django/event_view.py` renames serializer fields for Swagger and
`typing_helpers.py` holds type aliases: neither has state or behaviour to model.

Producers reach consumers only through the broker: exchange, main queue, consumer,
and for failed messages the post retry exchange and the garbage queue, from which
an operator's reject dead-letters a message back to the main queue. Services reach
each other through the HTTP clients on one side and the error handler on the other.
The remaining components share nothing.

## 2. Modules

| module | models |
|---|---|
| `Broker` | what the consumers rely on in RabbitMQ: main queue, garbage queue, copies, unacknowledged deliveries, prefetch, persistence, restart |
| `AtLeastOnce` | the abstract contract: an accepted message is kept until it may be released |
| `AioConsumer` | the asyncio consumers, `BaseConsumer` or (`Garbage = TRUE`) `BaseGarbageConsumer` |
| `DjangoConsumer` | the blocking consumers; `Policy` selects `BaseConsumer` ("raise"), `GarbageConsumer` with `store_failed=False` ("return") or `True` ("store") |
| `DjangoProducer` | the blocking producer with its context manager and `retry` |
| `SoftDelete` | the soft delete tables, triggers, router and migrations |
| `AioProducer` | the asyncio producer: the two pools, `publish` under `aio_retry`, `teardown` |
| `Sessions` | the consumers of both libraries before and after their deliveries: connecting, setting up, closing |
| `Matching` | `assert_matches`, beside a declarative definition of a match |
| `TinySerializers` | `make_tiny` with its cache, in several threads |
| `ServiceCalls` | requests and proxied errors between services |
| `BrokerProofs` | lemmas about the operators of `Broker` |
| `AioConsumerProofs`, `DjangoConsumerProofs`, `DjangoProducerProofs`, `AioProducerProofs`, `SoftDeleteProofs` | theorems about the module each is named after |
| `BusProofs` | theorems about `Sessions`, and about the clients that `MCBus` puts together |
| `ToolboxProofs` | theorems about `Matching`, `ServiceCalls` and `TinySerializers` |
| `MCAioConsumer`, `MCDjangoConsumer` | instances for TLC |
| `MCBus` | an instance of the clients of the bus: `DjangoProducer`, `AioProducer`, `Sessions` |
| `MCToolbox` | an instance of the rest: `SoftDelete`, `Matching`, `TinySerializers`, `ServiceCalls` |

The components in `MCBus` share no state, and neither do those in `MCToolbox`: a
behaviour chooses one of them (`client`, `part`) and the others stay as they are.

### Broker

RabbitMQ is not in the repository, and the module is marked external but for the
parts the code declares: the prefetch limit, durability, and the dead-letter
arguments of the garbage queue. What the broker stores is a *copy*; copies have
identities (`Copies`), so a requeued delivery and the garbage copy of the same
message are different things. `place` says where a copy is (`"free"`, `"main"`,
`"garbage"`, or unacknowledged at a consumer), `content` which message it carries,
`sure` whether it is persistent. `fate` is a history variable: it records what has
happened to each message (`handled`, `failed`, `refused`, `cut`, `deleted`,
`evaporated`) and no action reads it. A body is one of four kinds, the ones the
code tells apart: a JSON object, other JSON, no JSON, not even text.

### AioConsumer

A task is a slot with a program counter `pc`, the message it works on (`body`), the
consumer it belongs to (`home`) and the copy it may still settle (`copy`, `Nothing`
once its channel is gone). A task stands for a delivery from its arrival in the
queue iterator, so a "buffered" slot is a delivery that has no asyncio task yet.

| action | code |
|---|---|
| `Start`, `Close`, `Exit` | `__aenter__` and `consume`; `__aexit__` |
| `Deliver`, `Spawn` | the `async for` and `create_task` of `_listen_queue` |
| `StopListening` | the `consume` coroutine ends alone; the iterator gives its buffer back |
| `Begin` | `json.loads` in `_process_message` with its two ways out |
| `CallbackReturns`, `CallbackRaises` | `await callback(...)` |
| `Woken` | the end of `asyncio.sleep(self._delay)` |
| `StoreCopy`, `RefuseCopy`, `Confirmed` | `_move_to_garbage_queue` and the ack after it |
| `Settle` | the ack, nack or reject frame leaves; `message.process()` rejects without requeue what an exception left unsettled |
| `Interrupt` | `asyncio.run` cancels all tasks; `Cancelled` says what each makes of it |
| `Crash`, `ConnectionLost`, `BrokerRestart` | the environment |
| `Reconnect` | `connect_robust` |

Details that are easy to miss and are in the model: a stale task goes on after its
channel is gone, and its `ack` then reaches nobody; a publish goes through the
restored channel even when the delivery's channel is gone; a `TypeError` on
`body["error"]` or a closed channel turns the failure handling itself into a
reject; `except Exception` catches `CancelledError` on Python 3.7 and not from 3.8
on (`CancelIsFailure`, both are supported by the package).

What is assumed of aio_pika (6.8): `process(ignore_processed=True)` rejects with
requeue=False when its body ends with an exception, cancellation included, and does
nothing on a delivery already settled; `ack`, `nack`, `reject` mark the delivery at
once and send the frame later on the channel it came from; leaving the queue
iterator rejects its buffer with requeue=True; publish waits for the confirm.

### DjangoConsumer

A consumer is one thread: `step` is where it is, `cur` and `body` the delivery it
works on; other copies whose place is the consumer are what pika has buffered.
`Take` is the entry of `_pika_callback`, `Ack`/`Nack` its ends, `StoreCopy` and
`RefuseCopy` are `_move_to_garbage_queue`, `NoticeLoss` is pika raising at its next
use of a closed connection, and `CloseAfterRaise` the `finally` of `start_consuming`
or `close()` of the `with` around it. Publish and ack go out in order on one
channel, so the model stores the copy when it is sent; that nobody hears of a
refused copy (no confirms) is `RefuseCopy`, which goes on to the ack.

### DjangoProducer

One thread with one producer object calls `publish` for each event, and between the
calls enters and leaves `with producer`. `link` says what has become of each
connection; "broken" is a connection that is lost without pika having noticed, so
`is_open` is still true. `inWith` is where the program is, `inCtx` the field
`_in_ctx`, and they can differ: see `Exit`. `wire` holds frames the broker has not
received. The module stands beside the consumers and not on `Broker`: what it asks
about is the client, and a stored frame here is a message of `Broker.Publish`.

| action | code |
|---|---|
| `Enter`, `Exit` | `__enter__`; `__exit__` with `close()` |
| `Call`, `Wake` | the loop of `retry`: first attempt; the end of `sleep(wait)`, then the next attempt or the raise |
| `TakeConnection`, `ConnectFails`, `OpenChannel`, `ChannelFails` | the head of `publish`, outside of its `try` |
| `Send` | the `try`: `json.dumps` and `basic_publish`, whose exceptions are dropped |
| `KeepOpen`, `CloseOwn`, `CloseRaises` | the `finally` |
| `Route`, `CloseChannel`, `Lose` | the broker and the network |

What is assumed of pika (1.2): a closing handshake comes after what was sent on the
connection; `close()` on a connection that broke unnoticed raises, as it does on a
channel the broker has closed meanwhile; these exceptions are AMQPErrors, which
`retry` catches.

### AioProducer

`at` is where a task is in `publish` and around it: waiting for a channel (`full`),
for the lock of the pool (`lock`), making a connection or a channel in it (`dial`,
`channel`), declaring, waiting for the confirmation, or in the pause of `aio_retry`.
`slot` and `conn` are the items of the two pools: not made, in the pool's queue, shut,
or with the task that has acquired them; a channel that a closed pool has refused is
`gone`. `closing` is how far `teardown` has come.

| action | code |
|---|---|
| `PublishCall`, `Retry` | the loop of `aio_retry`, each with the entry of `acquire()` (`Acquire`) |
| `EnterLock`, `Dial`, `OpenSlot`, `NoSlot` | `get_rabbit_channel` and `get_rabbit_connection`, inside the pools |
| `GetReleased` | a channel that somebody has handed back |
| `SendParcel`, `PublishFails` | `get_exchange`, `json.dumps` and `exchange.publish`, and what they raise |
| `Confirmed`, `TimesOut`, `Cancel` | the ends of the wait for the confirmation; cancellation anywhere |
| `CloseSlots`, `CloseLinks` | the two lines of `teardown` |
| `Accept`, `Refuse`, `Interrupt`, `Restore` | the broker, the network, the robust connection |

What is assumed of aio_pika (6.8): a pool makes one item at a time, under a lock that
`close()` takes too; who finds the pool full waits for `put()`, in the lock if it was
full only there; a closed pool refuses `acquire()` and `put()`; publish waits for the
confirm, and raises when its channel is closed or its connection interrupted.

Two things the module makes plain. The factory hands its connection back as soon as
the channel is open, and the pool makes one channel at a time, so the second of the
two connections a pool may have is never made. And tasks that wait for a channel when
`teardown` comes are not woken: the loop's end has to cancel them (`Stranded`).

### Sessions

One consumer object of one class (`class`), with the connections it has had. `step` is
where `start_consuming` or `consume` is: 0, the next request of `Plan`, or past its end
while it consumes. `connection` is the field, `mine` the local variable. Deliveries are
not in the module: it is about what is open and declared, `AioConsumer` and
`DjangoConsumer` are about what happens to messages then.

| action | code |
|---|---|
| `OpenSession`, `OpenSessionFails` | `init_connection`; `BaseMessageBus.__enter__` |
| `CloseSession`, `CloseSessionFails` | `close_connection`; `__exit__` with `close()` |
| `StartConsuming`, `StartConsumingFails` | `_check_setup`; `_get_connection`, `_get_channel`, `bind` |
| `SetUp`, `SetUpFails` | the requests: qos, declarations, bindings, subscription |
| `StopListening`, `ListeningFails` | the queue iterator is left, or ends |
| `CallbackRaises`, `ChannelClosed` | the ends of the blocking `start_consuming`, with its `finally` |
| `ConnectionLost`, `ExchangeDeclared` | the environment |

The exchange that a consumer binds to belongs to the producers; a consumer that comes
first fails, and the channel with it (`Needs`).

### SoftDelete

`public[t]` and `deleted[t]` are the rows of table `t` and of its twin. A row has a
key, the value of a field that is unique in the model, and whether `deleted_at` is
set. A table name is a sequence of parts, one of which may be `deleted_`; that is all
`replace(tg_table_name, 'deleted_', '')` sees of it. `inst` is what a thread has
loaded, `last` how the latest statement ended. `reborn` is a history variable: the
keys that a statement inserted while a row with that key lay in the twin.

| action | code |
|---|---|
| `MigrateModels`, `MigrateTriggers` | `allow_migrate` and `get_soft_delete_sql_triggers`, per database |
| `Create`, `Load`, `Update` | Django; `UpdatedAtQueryset.update` |
| `SaveUpdate`, `SaveInsert` | the two statements of `Model.save()` |
| `Delete` | a DELETE with the trigger `soft_delete` |
| `Restore`, `Edit` | `restore`, and any other update of the twin, with `soft_restore` |
| `Purge` | a DELETE on the twin, with `prevent_deletion` |

A statement is atomic together with its triggers, whatever number of rows it takes,
and each is a transaction of its own (Django's autocommit). Writers of one row wait
for each other in PostgreSQL, so a sequence of statements stands for their overlap.
What is assumed of Django: `save()` of a loaded instance writes all fields with an
UPDATE and, if that met no row, with an INSERT under the old key.

Deletes and saves go on while the databases are migrated, in either order. Restores
and other statements on the twin wait until both are done (`Released`): they belong
to the release that `bin/migrate.sh`, which runs both commands, precedes. Without
that a restore before `soft_restore` exists leaves a row without deletion date in the
twin, which `prevent_deletion` no longer protects.

`AppOf` gives the twins the app label `soft_deleted`, which the router spells out.
The repository's README names the app `soft_delete_app` in some of its steps
(README.md:202, README.md:215) and `soft_deleted` in another (README.md:276); under
the first label the router would create the twins in schema `public`.

### Matching

An object is a pair of its type and its contents, nested at most `MaxDepth` deep; a dict
maps every key to its value or to `Missing`. `Matches` says what a match is, by laying the
items of an expected list over the original in order; `AssertMatches` is the code, and
returns also what the comparison has made of the expected object. Both, like the objects
themselves (`Objects`), are functions on depths: `Matching[n]` holds the matching pairs of
objects nested n deep, `Comparison[n]` is `assert_matches` on such pairs, and what it does
with their parts is `Comparison[n - 1]`. `Run` is the loop over a list, item by item;
`Seek` the inner one, after an ellipsis. A test
(`Derive`, `Compare`) writes an expectation, or derives one with
`copy_dict_with_swap_value`, and compares objects with it one after the other.

### TinySerializers

`stack` is the recursion of `make_tiny` in each thread, a frame per serializer with the
fields made so far; `created` is the cache. `MakeTiny`, `Nest` and `Finish` read and
write it in steps of their own, so threads interleave between a miss and the store. The
name of an attribute is a sequence of parts, of which `"_id"` is one; a tiny serializer
is the list of its fields with the attribute each reads. Where the original reads is
assumed of DRF (`Attribute`): the key of a foreign key from the attribute of its column,
`<name>_id`; a reverse one-to-one relation has no column and is read through the related
object, although `make_tiny_primary_key_related` treats it like a foreign key. `built` is a history variable:
all tiny serializers ever made. `ReadsTheSame` compares each of them with its original
field by field, and asks of what is nested in it only that it was made, for a class of
the same name; being made, it is compared in its turn.

### ServiceCalls

`path` is the chain of services a request has gone down, each with the secret header it
was called with. `Raise`, `Proxy` and `Crash` answer through `Handled`, which is the
handler: the detail in its four forms, and the error code as a sequence of the service
and what it says. `Ignore` is a caller that goes on without looking. That no service is
called like an error code is an assumption of the model, which writes both as parts of a
sequence: it lets a code be "named once".

### AtLeastOnce

Three sets: accepted, kept, released. A step may release messages, drop released
ones and bring them back, but never drop one that is not released. Both detailed
modules instantiate it (`Contract`) with the mapping accepted = `published`,
kept = messages with a copy anywhere, released = published messages that are
`Justified`; `AtLeastOnceDelivery` is its specification.

`Justified` lists the reasons a message may go, and it is where the two consumers
differ: `BaseConsumer` lets failed messages go only with `requeue_msg=False`, the
asyncio garbage consumer loses failed non-objects, the blocking one keeps those for
ever but loses stored copies in a broker restart. A cancellation is a reason for
the asyncio consumers ("cut") because the code rejects there; see the findings.

## 3. Runs

| run | instance | checks |
|---|---|---|
| `aio_garbage` | garbage consumer, 1 consumer, 2 tasks, prefetch 2, an object and a non-object, 4 copies, 2 faults, Python 3.7 | `TypeOK`, `NothingLost`, `EveryDeliveryOwned`, `OneCopy`, refinement of `AtLeastOnce` |
| `aio_base` | base consumer, 2 consumers, 3 tasks, prefetch 1, transient messages (other JSON, not text, no JSON), 3 copies, 2 faults, Python 3.8 | `NothingLost`, `Backpressure` |
| `aio_liveness` | garbage consumer, 1 message, 2 tasks, 3 copies, 2 faults, fair | `EventuallyDealtWith`, `TasksEnd` |
| `django_store` | store_failed, 2 consumers, prefetch 2, an object and a non-object, 4 copies, 2 faults | `TypeOK`, `NothingLost`, `OneCopy`, `HandledOnce`, `SettlesItsOwn`, refinement of `AtLeastOnce` |
| `django_base` | base consumer, 2 consumers, prefetch 2, three kinds of body, 3 copies, 2 faults | `NothingLost` |
| `django_liveness` | store_failed, 1 consumer, 2 objects, 1 fault, fair | `EventuallyDealtWith` |
| `bus` | blocking producer: 3 events, one unencodable, 2 attempts, 2 channels per connection, 3 connections, 2 faults, fair; asyncio producer: 3 tasks (2, 1, 1 attempts, one with data that is no JSON), 2 channels, 1 connection, 1 mishap, fair; consumer: each class, 4 connections, 2 failures, 2 exceptions of the callback | `TypesOK`, `ReportedIsSent`, `CopiesCostFaults`, `ConnectionsGivenBack`, `RaisesForAReason`, `EveryCallEnds`; `SlotsAccountedFor`, `ReturnedIsStored`, `TeardownClosesAll`, `EveryPublishEnds`; `LeaksCostFailures`, `SubscribedIsSetUp`, `SubscriptionsOwned` |
| `toolbox` | soft delete: a table with 2 keys and one named like it with `deleted_` inside and 1 key, 2 unique values, 1 client; matching: lists up to 3 items, lists of sets, dicts of 2 keys, 2 comparisons; serializers: 5, two of one name, 2 threads, 2 calls each; services: 2, paths of 4 | `TypeOK`, `TwinStamped`, `OnlyRebornCollide`, `FailsForAReason`, `RowsOnlyMove`, `OnlyRestoreBringsBack`; `PassingMatches`, `RefusedForAReason`; `ReadsTheSame`; `NamesTheSource` |
| `aio_nonobject`, `aio_cancelled`, `django_transient`, `matching` | as above | what the documentation says and the code does not do |

What the safety runs show: closing, losing, restoring and restarting under running
tasks neither forgets a delivery nor makes a message vanish; a message is in two
places only while its garbage copy is stored and its original not yet acknowledged,
unless a fault makes it so; at most `Prefetch * (1 + faults)` tasks run, and not
`Prefetch`, because a lost channel leaves its tasks running beside the new ones;
the blocking thread never settles a delivery with a tag of a lost connection. Where an
exception ends `start_consuming`, the broker delivers again what the thread had not
looked at; `HandledOnce` says that without faults no callback is run twice for it, nor
for what an operator replays. An asyncio task that asyncio.run abandons on its way out
settles nothing; `EveryDeliveryOwned` allows that only in this phase, which ends with
the channel closed and the delivery requeued.

The run `bus` shows what a caller of the blocking producer may conclude. A return means the event was
sent if it could be encoded and no fault took its frame, and not more: an event
json.dumps rejects, or one written to a connection that has just broken, is reported
as published. Outside of a context an exception means that every attempt met a fault
of its own; inside, one lost connection fails all attempts of all later calls, and so
does the channel limit, because no call closes the channel it opened. Every copy
beyond the first and every connection left open costs a fault.

Of the asyncio producer it shows that a return means more: the broker has stored the
event, whatever was lost or torn down meanwhile. An exception says nothing, the event
may be stored once per attempt, but each copy beyond the first costs a fault. Timeouts,
cancellations and interruptions give back what they hold, the two pools never lock each
other out, and only `teardown` leaves a task waiting for ever, if it waits for a channel.

Of the consumers it shows that what fails half-way is not built upon: a subscription is
there only with its queue, bindings and way back, however often the set-up failed
before. Every connection left open and forgotten is the price of a failed request; an
exception of the callback costs none. Inside `with` the callback's exception leaves its
subscription behind, so that the next `start_consuming` is a second one on one channel.

The run `toolbox` shows of soft delete that once its trigger is installed rows are moved and never
lost, whatever is restored, edited or purged, and what the design does not prevent: a
stale `save()` after a delete gives the row a second life under its key, and from
then on neither the deletion of the live row nor the restore of the deleted one
succeeds; a table with `deleted_` inside its name restores its rows into the table
that has the name without it, if there is one.

Of the others it shows: what `assert_matches` passes does match what the test wrote,
also after a failed comparison has changed it, and it refuses wrongly only behind an
ellipsis or after such a change; a tiny serializer reads what the original reads in
every interleaving and after every exception, but for a name used twice, an `_id`
inside a source or a relation without a column; an error arrives through any chain of
services with the code and the detail of where it was raised.

Where the code itself does not exclude something, the property says how far it goes
rather than that it never happens: a second subscription inside `with`
(`SubscriptionsOwned`), a stale `_in_ctx` (`RaisesForAReason`), a key in both tables
(`OnlyRebornCollide`), a wrong refusal (`RefusedForAReason`), a misread key and a
namesake's serializer (`ReadsTheSame`). The notes of these hazards in `PROJECT.json`
say which part stays possible.

### Findings

* **A failed message that is no JSON object is discarded by the asyncio garbage
  consumer** (`aio_nonobject`). Its docstring promises to store what fails. No
  fault is involved; the failure handling raises `TypeError` and the delivery is
  rejected without requeue.
* **`requeue_msg=True` does not bring back a message whose task is cancelled**
  (`aio_cancelled`). The docstring says it is for a consumer that closes
  unexpectedly; on cancellation `message.process()` rejects without requeue. From
  Python 3.8 on this concerns a running callback, on 3.7 a task in its delay.
* **The blocking consumer's garbage copies are transient** (`django_transient`): a
  broker restart removes from the durable garbage queue what its docstring says is
  stored until acked or rejected.

* **`assert_matches` refuses lists that match** (`matching`). Its docstring says it
  returns True if objects match partially with an ellipsis; `["a", "a"]` is refused for
  `[..., "a"]`, because the first element that fits is taken and not given up.

Met on the way and not a matter for a run: README.md:157 of the repository tests an
answer with `"error" in r_data` before it proxies it, while `custom_exception_handler`
answers with the keys `code`, `detail` and `error_code`, so that the error would be
passed over; `ServiceCalls` lets a caller do both (`Proxy`, `Ignore`).

### Bounds

* `Copies` is the number of copies the broker can hold. A full broker is not cut
  off: `RefuseCopy` is enabled then, so the full case is an execution of the code
  in which the broker refuses. Publishing waits for a free copy, which only delays a
  producer. Two messages with a delivery and a garbage copy each need four copies.
* `MaxFaults` bounds crashes, losses, restarts, stops, interruptions and refusals
  together. Two are enough for each pair, such as a loss during a recovery or a
  restart after a stop. `faults` also appears in `Backpressure`, and in `OneCopy`,
  which is about executions without faults.
* `Tasks` bounds concurrent deliveries. In `aio_base` it exceeds what prefetch
  allows at one time, so that stale tasks and new ones meet.
* In `bus` two attempts of the blocking producer and two faults are what it takes to exhaust the
  retries; the third call in a context meets the limit of two channels (2047 in
  RabbitMQ's default); three connections are one in use and one forgotten per fault.
  Of the asyncio producer three tasks on two channels make one wait for what the others
  hold, and meet teardown in each place; the connections are one because no second one is
  ever made. Of the consumers two failures forget two connections, and four are these,
  the one in the field and the one in use.
* In `toolbox` two keys and two values make unique values collide between a live and a
  deleted row and between two deleted ones; the second table's key meets the first
  one's. One client is enough for an instance to be stale, because the other statements
  are anybody's. Deadlock is not checked: when all keys are handed out and the last row
  was deleted before the trigger was installed, nothing is left to do, and the other
  parts end. Lists of three items hold an ellipsis with something before and after it,
  and a list swapped into a dict is an object three deep (`MaxDepth`); two comparisons
  are one that changes the expected object and one that suffers from it; two threads
  convert serializers that contain each other's; a path of four services has two proxies
  between a source and a caller.
* `Rest` stutters when everything published has been consumed and nothing waits,
  so TLC's deadlock check is on and reports only states where the program is stuck.

Copies, tasks and consumers are interchangeable and symmetric in the safety runs of the
consumers, and so are the unique values of `toolbox`;
messages are not, their kinds differ. The liveness runs use no symmetry.

### Fairness

`DjangoProducer`: the thread goes on and its sleeps end, the broker receives what is
sent. `AioProducer`: each task goes on where it can, the broker answers, a robust
connection comes back; nothing makes a task call `publish` in the first place, time out
or be cancelled, nor the program tear down. `Sessions` and the parts of `toolbox` make no
liveness claim and have no fairness. The consumers: weak fairness for each task's own steps (the event loop runs what is ready, sleeps
and callbacks end, the broker answers a publish) and for starting, closing, exiting
and reconnecting (a supervisor restarts the program, `connect_robust` reconnects).
Strong fairness for delivering a copy, because a main queue is first in, first out
and a copy that becomes deliverable again and again gets its turn; `DjangoConsumer`
asks the same for taking a delivery out of pika's buffer. Nothing is asked of
producers, operators or faults, which are finitely many. In `DjangoConsumer` strong
fairness would be too much for a message that raises out of `start_consuming` each
time: it goes back to the head of the queue and nothing behind it is delivered. So
`django_liveness` takes bodies that are JSON objects, with `store_failed=True`,
where no callback exception ends `start_consuming`. That a poisonous message stops
the blocking consumer is listed as a hazard, not as a property.

## 4. Proofs

The theorems hold for every value of the constants: any number of messages, copies,
consumers, tasks, connections, services, any prefetch, pool size and number of faults.
Their only hypotheses are the ASSUMEs of the modules, which say that numbers are
numbers, that what stands for "nothing" is nothing else, that a serializer has a list of
fields (`TinyAssumption`), that objects are nested at most `MaxDepth` deep and no test
compares a bare ellipsis (`MatchAssumption`), that no model's own table is named like a twin
(`NamesAssumption`) and no service like an error code (`CallsAssumption`). Each is proved from an
inductive invariant that TLC has checked on the instances of section 3 first (of the
invariant of `Matching`, which speaks of all objects, what it says of `Originals`). A lemma
deals with one action, or with the actions of one shape; the facts they share (what
`Relocate` or `Restart` does to the types of the broker, what a lost connection or a
failed request leaves of a connection) are lemmas of their own.

| property | theorem |
|---|---|
| `AioConsumer`: `TypeOK`, `NothingLost`, `EveryDeliveryOwned`, `OneCopy`, `Backpressure`, `AtLeastOnceDelivery` | `TypeCorrect`, `NoMessageLost`, `DeliveriesOwned`, `SecondCopyTransient`, `TasksBounded`, `AtLeastOnceImplemented` |
| `DjangoConsumer`: `TypeOK`, `NothingLost`, `SettlesItsOwn`, `OneCopy`, `HandledOnce`, `AtLeastOnceDelivery` | `TypeCorrect`, `NoMessageLost`, `OwnDeliverySettled`, `SecondCopyTransient`, `CallbacksOnce`, `AtLeastOnceImplemented` |
| `DjangoProducer`: `TypeOK`, `ReportedIsSent`, `CopiesCostFaults`, `ConnectionsGivenBack`, `RaisesForAReason` | `TypeCorrect`, `ReturnTellsTheTruth`, `CopiesBounded`, `LeaksPaidFor`, `RaisesExplained` |
| `AioProducer`: `PoolTypeOK`, `SlotsAccountedFor`, `TeardownClosesAll`, `ReturnedIsStored` | `PoolTypeCorrect`, `PoolsAccountedFor`, `TeardownComplete`, `PoolTellsTheTruth` |
| `Sessions`: `SessionTypeOK`, `SubscribedIsSetUp`, `SubscriptionsOwned`, `LeaksCostFailures` | `SessionTypeCorrect`, `SetUpBeforeSubscribed`, `NoForgottenSubscription`, `LeaksArePaidFor` |
| `SoftDelete`: `TypeOK`, `TwinStamped`, `OnlyRebornCollide`, `RowsOnlyMove`, `OnlyRestoreBringsBack`, `FailsForAReason` | `TypeCorrect`, `RowsStamped`, `CollisionsExplained`, `NothingDestroyed`, `OnlyRestore`, `FailuresExplained` |
| `ServiceCalls`: `NamesTheSource` | `SourceIsNamed` |
| `TinySerializers`: `ReadsTheSame` | `TinyReadsTheSame` |
| `Matching`: `PassingMatches`, `RefusedForAReason` | `PassIsRight`, `RefusalHasAReason` |
| `MCBus`: `TypesOK` | `AllTypesCorrect` |

### The asyncio consumers

`NothingLost` is not inductive: it says nothing of who will settle a delivery, and a
reject is only harmless when the message already has a reason to go. `IInv` adds:

* `Links`: a task names a copy exactly as long as that copy is unacknowledged at its
  consumer, whose channel is then open, and the copy carries the task's message;
* `SingleHolder` and `Held`: no two tasks name the same copy, and every
  unacknowledged copy is named;
* `AtWork`: which steps have a message and an owner;
* `Refusing`: only `BaseConsumer` sleeps and nacks, and only after its callback raised;
* `Stored`: a place that is not free holds a message, persistent if its publisher
  made it so;
* `Account`: each published message that may not go has a copy in a queue or a task
  that will not discard it (`Owed`, and `Owing` for the step a task is at).

Four more invariants carry the other theorems. `Leaving` says that a task is abandoned
only while its program is leaving, for `EveryDeliveryOwned`. `Known` (nobody holds what nobody
published) makes the refinement go through: a step either publishes one message, or
keeps `Known` and `NothingLost`, which is what a step of `AtLeastOnce` is. `Calm` says
that without faults no consumer has stopped and no task has lost its delivery, so that
a second copy can only come from `StoreCopy`. `Backpressure` counts two kinds of tasks:
those with a delivery are at most as many as the broker has pushed (`Credit`, by an
injection of tasks into copies), and those whose channel is gone at most `Prefetch` for
each loss (`Strays`), a stop having a fault in hand for the close to come.

### The blocking consumers

Here one thread holds one delivery and pika's buffer the others, so the invariant is
about the step instead of the holder: a copy is `Owing` unless a thread is about to ack
it, or to nack it without requeue (`Discarding`), and `Account` asks for one such copy
of each message that may not go. `Links` says that the delivery a thread works on is
the one the broker waits for, as long as the connection is open; `Closed` that a closed
connection has none; `Stored` and `Moving` that what a restart may take from the queues
is a garbage copy of a message that failed. `SettlesItsOwn` is read off this invariant;
the refinement is proved as for the asyncio consumers.

Without faults two things more are true. Who runs is connected (`Online`), so copies come
only from producers and from `StoreCopy`, every other step being `Quiet`; this gives
`OneCopy`. And a handled message is nowhere but at a thread about to acknowledge it
(`HandledDone`), from which `HandledOnce` follows. `HandledDone` needs `OneCopy` where a
callback returns: a second copy of its message could be handled again. In the other
direction, no garbage copy is published of a message that was handled.

### The blocking producer

* `Shape`: where connections are (`Attached`), and that each frame on the wire has a
  channel of its own (`Room`). Without `Room` the broker might close a channel the
  producer has not opened, and the counts of faults below would not add up.
* `Tally`: before an attempt sends, its event has fewer copies than attempts and no more
  than there were faults; an attempt that failed after sending has seen one (`Troubled`).
* `Paid`: each connection nobody will close has cost a fault, and the fault of one whose
  channel is closed is there before it is left behind.
* `Blame`: outside of a context each attempt that is over has a fault of its own; inside,
  the connection was hit or is full. `RaisesForAReason` is the step that ends the last.
* `Reported`: an event no fault has touched is on its way when `finally` is reached.

### The asyncio producer

`Seated` and `Wired` say who may hold a channel, a connection and the lock and at which
step of `publish`; `TornDown` that after `teardown` nobody is about to connect: these
make `SlotsAccountedFor` and `TeardownClosesAll` inductive. `ReturnedIsStored` counts
copies, so `Account` says for each task how many copies its attempts have made, and that
an attempt which has failed after it sent, or is bound to (`Spent`), has met a mishap.

### Sessions

`Anchored` says what the attribute `connection` may be outside of `with`, `Calling` on
which connection a call works and that it is alive from the second request on,
`Subscribed` that but for the running call only what the callback's exceptions left in a
context is subscribed, and `Planned` that the requests a call has been through are in
place, which is what `SubscribedIsSetUp` needs at the last one. The plans of the three kinds of
classes enter only through the lemma `PlanShape`: the subscription is the last request
and the only one, the binding comes before it. `LeaksCostFailures` counts `Leaked`
instead of `Abandoned`: it includes the connection left open in the attribute, which the
next `with` will overwrite at no new failure.

### The clients of the bus together

`ClientsImplemented` says that a behaviour of `MCBus`, in which one of the three clients
runs, is a behaviour of each of them: the one that runs takes the steps of its own
specification, and the fairness of the blocking producer is kept, and the others stay as
they were. So what is proved of a client alone holds in the composition: `AllTypesCorrect`
is that for the types, `ClientsCorrect` for everything else the run `bus` checks, but for
liveness.

### Soft delete

Everything the run `toolbox` checks of `SoftDelete`, from `SoftDeleteAssumption` and (for
the last) `NamesAssumption`. `IInv` adds to the types, `TwinStamped` and
`OnlyRebornCollide`:

* `Keyed`: a key names one row of a table and one of a twin, so that moving a row
  leaves no second one with its key behind;
* `InstancesLive`: an instance has no deletion date, so that `save()` cannot put one
  into the model's table.

`TwinStamped` is what the action properties rest on: `prevent_deletion` protects a
row, and `soft_restore` leaves an edited one where it is, only because its date is
set. `FailuresExplained` needs in addition that every twin exists once its database
is migrated (`TwinsMade`), and for this that no model's table looks like a twin.

### Service calls

`Traced` is the part about errors; a proxied error's detail goes through the handler
again, so the proof needs that this changes neither field nor words
(`SerializerErrorKeeps`). `AllSigned` says for each service on the path whose secret it
was given, the first one having none to forward, and `OverIsAnswered` that a request
without a service is answered, so that nobody calls from an empty path.

### Tiny serializers

`TinyIInv` is about the frames on the stacks: each has converted a prefix of its fields,
in order and each rightly (`StackRight`), and a frame below another one waits for the
serializer that the one above converts (`Waiting`). Without the latter nothing would say
that `Finish`, which hands its result to the frame below, fills in the right field.
`BuiltRight`, `CacheRight` and `ReturnedRight` carry this over to what is made, cached and
returned; since `built` only grows, what one thread has nested stays right when another
overwrites the cache. The lemma about the conversion, `ConvertedReadsTheSame`, is about
the attribute of a primary key: cutting a source at its first `_id` and putting `_id` back
gives the attribute of a foreign key again, unless the name has an earlier `_id` in it
(`Misread`, as every reverse relation is).

### Matching

`RightAtDepth` is about the code as a function: a comparison passes only what matches;
it passes all of it where no item of a list follows an ellipsis; and what it leaves of the
expectation matches no more than the expectation did (`Follows`), although it may match
less. The proof goes up the depths: `ComparedRight` takes this for the comparison of parts
and gives it for the comparison of wholes, a lemma for each of sets, dicts and lists. For
lists it goes along the items: `StateRight` says that those compared so far can be laid
over the objects before the next one in the way a match asks, with `TriedRight` inside for
an item that has been changed by each object it did not match. `PlaceByPlace` is the
converse: a list without a gap before its end leaves no choice of where its items go, so
the loop cannot miss a match.

`MatchIInv` then needs little: what the test passes follows what it has written, since it
did so before the comparison and the comparison leaves something that follows that. A pass
is right about the one because it is right about the other; a fresh expectation is both, so
that its refusal is explained by its shape.

The induction is over numbers, as sets (`AllOfNat`), because the induction theorems of the
library take operators as parameters. It also shows first that the recursive functions
exist (`ObjectsExist` and its like), without which their equations mean nothing.

### Only model-checked

* Liveness (`EventuallyDealtWith`, `TasksEnd`, `EveryCallEnds`, `EveryPublishEnds`):
  fairness and ENABLED are out of the prover's reach.
* What the runs that expect a violation say.

## 5. Not modelled

* Routing: a published message reaches the main queue. In the modules of the
  deliveries connecting, declaring and binding are one step (`Start`); `Sessions` has
  them one by one, without deliveries.
* Two `consume()` at once on one channel, and the deliveries of two subscriptions.
* Queue order, which only the head-of-line hazards depend on.
* Message bodies beyond their kind, and the error text put into garbage copies. An
  `"error"` overwritten in a replayed message makes no difference to the properties.
* Threads that share one blocking producer or consumer while one of them is inside
  `with`; `close()` called by the program itself.
* The length of pauses and timeouts: a timeout may fire at any time.
* Of tiny serializers: how DRF finds the attribute of a field, which is assumed for each
  kind of field; attributes other than the source, copied methods, the child
  relation of many-to-many fields. Of DRF errors: status codes, details nested deeper,
  and the serializers that describe errors to Swagger. Of the HTTP clients: parameters,
  timeouts, closing.
* Of soft delete: the values of `updated_at` and `created_at`; the order of columns in
  the twin, on which the positional copies rest; foreign keys, checked at commit;
  models whose key is not called `id`; transactions of several statements; TRUNCATE,
  which fires no row trigger; names that SQL has to quote.
* The components listed as not modelled in `PROJECT.json`.

## 6. Plan

Every invariant and every action property that the passing runs check is now a theorem;
liveness stays with TLC. What is left is modelling, the first items of section 5:
routing in the modules of the deliveries, two `consume()` at once on one channel, threads
that share one blocking producer, and transactions of several statements under soft
delete.
