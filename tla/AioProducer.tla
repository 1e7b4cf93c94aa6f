---------------------------- MODULE AioProducer ----------------------------
(***************************************************************************)
(* The asyncio producer of toolset.event_bus.aio: tasks that publish under *)
(* aio_retry, through a pool of channels whose factory takes a connection  *)
(* out of a second pool, and teardown, which closes both.                  *)
(*                                                                         *)
(* The pools are those of aio_pika 6.8: a pool makes one item at a time,   *)
(* under its lock; who finds nothing released and no room waits for put(); *)
(* a closed pool refuses acquire() and put().  Between any two awaits of a *)
(* task the others run, the connection is lost and restored, the publish   *)
(* times out, the task is cancelled, or teardown begins.                   *)
(***************************************************************************)
EXTENDS Naturals, FiniteSets

CONSTANTS
  Tasks,      \* tasks, each of which publishes one event
  Rejected,   \* the tasks whose data json.dumps rejects
  Slots,      \* the channels; max_size of their pool is their number
  Links,      \* the connections; max_size of their pool is their number
  None,       \* stands for "no connection", "no task"
  Tries,      \* the attempts parameter of each task's aio_retry
  MaxMishaps  \* bound on losses, failed connects, timeouts, refusals, cancellations

ASSUME PoolAssumption ==
  /\ Rejected \subseteq Tasks
  /\ None \notin Tasks \cup Links
  /\ {"none", "idle", "shut", "gone"} \cap Tasks = {}
  /\ Tries \in [Tasks -> Nat]
  /\ MaxMishaps \in Nat

VARIABLES
  at,        \* where each task is
  tries,     \* the iteration of aio_retry
  slot,      \* none; idle: in the pool's queue; gone: refused by it; or who holds it
  on,        \* the connection of each channel
  live,      \* channels nobody has closed
  conn,      \* none; idle; shut; or the task that holds the connection
  up,        \* connections that are not interrupted
  lock,      \* the task in the channel pool's lock
  closing,   \* teardown: no; channels: their pool is closed; done
  inflight,  \* events sent and not yet received by the broker
  accepted,  \* events the broker has stored
  acks,      \* confirmations under way
  ended,     \* history: how each publish ended
  mishaps    \* history: faults so far

poolVars == <<at, tries, slot, on, live, conn, up, lock, closing,
              inflight, accepted, acks, ended, mishaps>>
wires == <<inflight, accepted, acks>>
channelVars == <<slot, on, live>>

Places == {"idle", "full", "lock", "dial", "channel", "declare", "confirm", "sleep"}
Parcels == [task : Tasks, try : Nat, link : Links]

PoolTypeOK ==
  /\ at \in [Tasks -> Places] /\ tries \in [Tasks -> Nat]
  /\ slot \in [Slots -> {"none", "idle", "gone"} \cup Tasks]
  /\ on \in [Slots -> Links \cup {None}] /\ live \subseteq Slots
  /\ conn \in [Links -> {"none", "idle", "shut"} \cup Tasks] /\ up \subseteq Links
  /\ lock \in Tasks \cup {None}
  /\ closing \in {"no", "channels", "done"}
  /\ \A S \in {inflight, accepted, acks} : S \subseteq Parcels
  /\ ended \in [Tasks -> {"none", "returned", "raised"}]
  /\ mishaps \in 0..MaxMishaps

PoolInit ==
  /\ at = [t \in Tasks |-> "idle"] /\ tries = [t \in Tasks |-> 0]
  /\ slot = [s \in Slots |-> "none"] /\ on = [s \in Slots |-> None] /\ live = {}
  /\ conn = [k \in Links |-> "none"] /\ up = {}
  /\ lock = None /\ closing = "no"
  /\ inflight = {} /\ accepted = {} /\ acks = {}
  /\ ended = [t \in Tasks |-> "none"] /\ mishaps = 0

-----------------------------------------------------------------------------
(* Helpers. *)

Mishap == mishaps < MaxMishaps /\ mishaps' = mishaps + 1
To(t, place) == at' = [at EXCEPT ![t] = place]
Unlocked(t) == IF lock = t THEN None ELSE lock

\* put() at the end of `async with pool.acquire()`: a closed pool refuses it.
Released(t) ==
  [s \in Slots |-> IF slot[s] # t THEN slot[s] ELSE IF closing = "no" THEN "idle" ELSE "gone"]
HandedBack(t) == [k \in Links |-> IF conn[k] = t THEN "idle" ELSE conn[k]]

Idle == {s \in Slots : slot[s] = "idle"}
Unmade == {s \in Slots : slot[s] = "none"}
Held(t) == {s \in Slots : slot[s] = t}
Usable(t) == \E s \in Held(t) : s \in live /\ on[s] \in up
Parcel(t) == {f \in inflight \cup acks : f.task = t /\ f.try = tries[t]}

Returns(t, how) == To(t, "idle") /\ ended' = [ended EXCEPT ![t] = how]

\* An attempt ends with an exception that aio_retry catches; everything the
\* task had acquired is handed back on the way.
Raises(t) ==
  /\ To(t, "sleep")
  /\ slot' = Released(t) /\ conn' = HandedBack(t) /\ lock' = Unlocked(t)
  /\ UNCHANGED <<tries, on, live, up, closing, ended>>

-----------------------------------------------------------------------------
(* aio_retry around publish, and the pool of channels. *)

TakeSlot(t) ==
  /\ \E s \in Idle : slot' = [slot EXCEPT ![s] = t]
  /\ To(t, "declare")

\* `async with self._channel_pool.acquire()`, up to where it has to wait.
Acquire(t) ==
  /\ \/ closing # "no" /\ To(t, "sleep") /\ UNCHANGED slot
     \/ closing = "no" /\ TakeSlot(t)
     \/ /\ closing = "no" /\ Idle = {}
        /\ To(t, IF Unmade = {} THEN "full" ELSE "lock") /\ UNCHANGED slot
  /\ UNCHANGED ended

\* Without any attempt aio_retry raises an Exception nobody has caught.
PublishCall(t) ==
  /\ at[t] = "idle" /\ ended[t] = "none"
  /\ \/ Tries[t] = 0 /\ Returns(t, "raised") /\ UNCHANGED <<tries, slot>>
     \/ Tries[t] > 0 /\ tries' = [tries EXCEPT ![t] = 1] /\ Acquire(t)
  /\ UNCHANGED <<on, live, conn, up, lock, closing, wires, mishaps>>

\* asyncio.sleep is over; it also follows the last attempt.
Retry(t) ==
  /\ at[t] = "sleep"
  /\ \/ tries[t] < Tries[t] /\ tries' = [tries EXCEPT ![t] = @ + 1] /\ Acquire(t)
     \/ tries[t] = Tries[t] /\ Returns(t, "raised") /\ UNCHANGED <<tries, slot>>
  /\ UNCHANGED <<on, live, conn, up, lock, closing, wires, mishaps>>

\* The pool makes one channel at a time.  What had room before the lock may be full
\* in it, and the wait goes on there; else get_rabbit_channel takes a connection.
EnterLock(t) ==
  /\ at[t] = "lock" /\ lock = None
  /\ \/ /\ Idle # {} \/ Unmade = {}
        /\ lock' = t /\ To(t, "full") /\ UNCHANGED conn
     \/ /\ Idle = {} /\ Unmade # {} /\ closing = "done"
        /\ To(t, "sleep") /\ UNCHANGED <<conn, lock>>
     \/ /\ Idle = {} /\ Unmade # {} /\ closing # "done"
        /\ lock' = t
        /\ \/ \E k \in Links : /\ conn[k] = "idle" /\ conn' = [conn EXCEPT ![k] = t]
                              /\ To(t, "channel")
           \/ /\ \A k \in Links : conn[k] # "idle"
              /\ \E k \in Links : conn[k] = "none"
              /\ To(t, "dial") /\ UNCHANGED conn
  /\ UNCHANGED <<tries, channelVars, up, closing, wires, ended, mishaps>>

GetReleased(t) ==
  /\ at[t] = "full"
  /\ TakeSlot(t)
  /\ lock' = Unlocked(t)
  /\ UNCHANGED <<tries, on, live, conn, up, closing, wires, ended, mishaps>>

\* get_rabbit_connection, in the lock of the pool of connections.
Dial(t) ==
  /\ at[t] = "dial"
  /\ \/ /\ \E k \in Links : /\ conn[k] = "none"
                            /\ conn' = [conn EXCEPT ![k] = t] /\ up' = up \cup {k}
        /\ To(t, "channel")
        /\ UNCHANGED <<tries, channelVars, lock, closing, ended, mishaps>>
     \/ Mishap /\ Raises(t)
  /\ UNCHANGED wires

\* connection.channel(): the connection goes back before the channel is used.
OpenSlot(t) ==
  /\ at[t] = "channel" /\ closing # "done"
  /\ \E k \in up, s \in Unmade :
       /\ conn[k] = t
       /\ slot' = [slot EXCEPT ![s] = t] /\ on' = [on EXCEPT ![s] = k]
       /\ live' = live \cup {s}
       /\ conn' = [conn EXCEPT ![k] = "idle"]
  /\ lock' = None /\ To(t, "declare")
  /\ UNCHANGED <<tries, up, closing, wires, ended, mishaps>>

\* Mutant: without `async with`, the exception leaves the connection acquired.
NoSlotKeepsLink(t) ==
  /\ at[t] = "channel"
  /\ closing = "done" \/ \E k \in Links \ up : conn[k] = t
  /\ To(t, "sleep") /\ lock' = Unlocked(t)
  /\ UNCHANGED <<tries, channelVars, conn, up, closing, wires, ended, mishaps>>

\* It raises on an interrupted connection, and so does handing the connection
\* back to a pool that was closed in between.
NoSlot(t) ==
  /\ at[t] = "channel"
  /\ closing = "done" \/ \E k \in Links \ up : conn[k] = t
  /\ Raises(t)
  /\ UNCHANGED <<wires, mishaps>>

-----------------------------------------------------------------------------
(* publish, with a channel. *)

\* Mutant: the channel has no publisher confirms.
SendUnconfirmed(t) ==
  /\ at[t] = "declare" /\ t \notin Rejected /\ Usable(t)
  /\ inflight' = inflight \cup {[task |-> t, try |-> tries[t], link |-> on[s]] : s \in Held(t)}
  /\ Returns(t, "returned") /\ slot' = Released(t)
  /\ UNCHANGED <<tries, on, live, conn, up, lock, closing, accepted, acks, mishaps>>

\* get_exchange, which has no timeout, is answered; exchange.publish sends the event.
SendParcel(t) ==
  /\ at[t] = "declare" /\ t \notin Rejected /\ Usable(t)
  /\ inflight' = inflight \cup {[task |-> t, try |-> tries[t], link |-> on[s]] : s \in Held(t)}
  /\ To(t, "confirm")
  /\ UNCHANGED <<tries, channelVars, conn, up, lock, closing, accepted, acks, ended, mishaps>>

\* The data is no JSON; the channel or its connection is gone; the broker refused
\* the event, or its answer was lost with the connection.
PublishFails(t) ==
  /\ \/ at[t] = "declare" /\ t \in Rejected
     \/ at[t] \in {"declare", "confirm"} /\ ~Usable(t)
     \/ at[t] = "confirm" /\ Parcel(t) = {}
  /\ Raises(t)
  /\ UNCHANGED <<wires, mishaps>>

\* Mutant: without the `async with` the channel is not handed back.
TimesOutHolding(t) ==
  /\ at[t] = "confirm"
  /\ Mishap
  /\ To(t, "sleep")
  /\ UNCHANGED <<tries, channelVars, conn, up, lock, closing, wires, ended>>

\* wait_for gives up after `timeout`, whether or not the broker has the event.
TimesOut(t) ==
  /\ at[t] = "confirm"
  /\ Mishap
  /\ Raises(t)
  /\ UNCHANGED wires

\* The confirmation arrives.  If teardown was quicker, put() raises after all.
Confirmed(t) ==
  /\ at[t] = "confirm" /\ Usable(t)
  /\ \E f \in Parcel(t) : f \in acks /\ acks' = acks \ {f}
  /\ \/ /\ closing = "no" /\ Returns(t, "returned") /\ slot' = Released(t)
        /\ UNCHANGED <<tries, on, live, conn, up, lock, closing>>
     \/ closing # "no" /\ Raises(t)
  /\ UNCHANGED <<inflight, accepted, mishaps>>

\* The task is cancelled in one of its awaits (aio_retry lets that pass).
Cancel(t) ==
  /\ at[t] # "idle"
  /\ Mishap
  /\ Returns(t, "raised")
  /\ slot' = Released(t) /\ conn' = HandedBack(t) /\ lock' = Unlocked(t)
  /\ UNCHANGED <<tries, on, live, up, closing, wires>>

-----------------------------------------------------------------------------
(* teardown. *)

\* close() takes the lock of the pool and closes the channels, used or not.
CloseSlots ==
  /\ closing = "no" /\ lock = None
  /\ closing' = "channels" /\ live' = {}
  /\ UNCHANGED <<at, tries, slot, on, conn, up, lock, wires, ended, mishaps>>

\* Mutant: teardown does not wait for a connection that is being made.
CloseLinksEarly ==
  /\ closing = "channels"
  /\ closing' = "done" /\ live' = {} /\ up' = {}
  /\ conn' = [k \in Links |-> IF conn[k] = "none" THEN "none" ELSE "shut"]
  /\ UNCHANGED <<at, tries, slot, on, lock, wires, ended, mishaps>>

CloseLinks ==
  /\ closing = "channels" /\ \A t \in Tasks : at[t] # "dial"
  /\ closing' = "done" /\ live' = {} /\ up' = {}
  /\ conn' = [k \in Links |-> IF conn[k] = "none" THEN "none" ELSE "shut"]
  /\ UNCHANGED <<at, tries, slot, on, lock, wires, ended, mishaps>>

-----------------------------------------------------------------------------
(* The broker and the network. *)

Accept(f) ==
  /\ f \in inflight
  /\ inflight' = inflight \ {f} /\ accepted' = accepted \cup {f} /\ acks' = acks \cup {f}
  /\ UNCHANGED <<at, tries, channelVars, conn, up, lock, closing, ended, mishaps>>

Refuse(f) ==
  /\ f \in inflight
  /\ Mishap
  /\ inflight' = inflight \ {f}
  /\ UNCHANGED <<at, tries, channelVars, conn, up, lock, closing, accepted, acks, ended>>

Interrupt(k) ==
  /\ k \in up
  /\ Mishap
  /\ up' = up \ {k}
  /\ inflight' = {f \in inflight : f.link # k} /\ acks' = {f \in acks : f.link # k}
  /\ UNCHANGED <<at, tries, channelVars, conn, lock, closing, accepted, ended>>

\* A robust connection comes back, with its channels, until it is closed.
Restore(k) ==
  /\ k \notin up /\ conn[k] \notin {"none", "shut"}
  /\ up' = up \cup {k}
  /\ UNCHANGED <<at, tries, channelVars, conn, lock, closing, wires, ended, mishaps>>

TaskStep(t) ==
  \/ Retry(t) \/ EnterLock(t) \/ GetReleased(t)
  \/ Dial(t) \/ OpenSlot(t) \/ NoSlot(t)
  \/ SendParcel(t) \/ PublishFails(t) \/ Confirmed(t)

\* After teardown nobody hands a channel back: who waits for one waits for ever.
Stranded(t) == closing # "no" /\ at[t] \in {"full", "lock"} /\ Idle = {}

PoolRest ==
  /\ closing = "done" /\ inflight = {}
  /\ \A t \in Tasks : ended[t] # "none" \/ Stranded(t)
  /\ UNCHANGED poolVars

PoolNext ==
  \/ \E t \in Tasks : PublishCall(t) \/ TaskStep(t) \/ TimesOut(t) \/ Cancel(t)
  \/ \E f \in inflight : Accept(f) \/ Refuse(f)
  \/ \E k \in Links : Interrupt(k) \/ Restore(k)
  \/ CloseSlots \/ CloseLinks \/ PoolRest

\* The loop runs what is ready, the broker answers, robust connections come back.
PoolFairness ==
  /\ \A t \in Tasks : WF_poolVars(TaskStep(t))
  /\ WF_poolVars(\E f \in inflight : Accept(f))
  /\ \A k \in Links : WF_poolVars(Restore(k))
PoolSpec == PoolInit /\ [][PoolNext]_poolVars /\ PoolFairness

-----------------------------------------------------------------------------
(* Correctness. *)

\* Timeouts, refusals, losses and cancellations, wherever they reach a task, give
\* back what it had taken from the pools: a channel, a connection or the lock is
\* only ever out with a task that is using it.
SlotsAccountedFor ==
  /\ \A s \in Slots : slot[s] \in Tasks => at[slot[s]] \in {"declare", "confirm"}
  /\ \A t \in Tasks : Cardinality(Held(t)) <= 1
  /\ \A k \in Links : conn[k] \in Tasks => at[conn[k]] = "channel" /\ lock = conn[k]
  /\ lock # None => at[lock] \in {"full", "dial", "channel"}

\* publish returns only when the broker has stored the event; what it raises says
\* nothing, and a caller that retries may have it stored again, but each further
\* copy costs a fault, and a task leaves at most `attempts` of them.
ReturnedIsStored ==
  \A t \in Tasks :
    LET copies == {f \in inflight \cup accepted : f.task = t}
    IN  /\ ended[t] = "returned" => \E f \in accepted : f.task = t
        /\ Cardinality(copies) <= 1 + mishaps
        /\ Cardinality(copies) <= Tries[t]

\* Whatever is being made, used or given back while it runs, teardown leaves no
\* channel and no connection open, and nothing opens one after it.
TeardownClosesAll ==
  closing = "done" =>
    live = {} /\ up = {} /\ \A k \in Links : conn[k] \in {"none", "shut"}

\* The two pools do not lock each other out: every publish returns or raises, but
\* for one that teardown catches waiting for a channel.
EveryPublishEnds ==
  \A t \in Tasks : at[t] # "idle" ~> (at[t] = "idle" \/ Stranded(t))
=============================================================================
