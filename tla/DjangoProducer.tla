--------------------------- MODULE DjangoProducer ---------------------------
(***************************************************************************)
(* The blocking producer of toolset.event_bus.django: publish under the    *)
(* retry decorator, inside or outside of `with producer`.                  *)
(*                                                                         *)
(* Outside, every attempt has a connection of its own, which its `finally` *)
(* closes; inside, all attempts of all calls share one.  Between the calls *)
(* the broker routes what was sent, closes a channel (the exchange is      *)
(* missing), or the connection breaks without the client noticing.         *)
(***************************************************************************)
EXTENDS Naturals, FiniteSets

CONSTANTS
  Events,        \* what the program publishes, each once
  Unencodable,   \* the events whose body json.dumps rejects
  Connections,   \* identities of connections (a bound of the model)
  Nothing,       \* stands for "no event", "no connection"
  Attempts,      \* the attempts parameter of retry
  ChannelMax,    \* channels a connection may have
  MaxFaults      \* bound on failed connects, losses and closed channels

ASSUME ProducerAssumption ==
  /\ Unencodable \subseteq Events
  /\ Nothing \notin Events \cup Connections
  /\ Attempts \in Nat \ {0}
  /\ ChannelMax \in Nat \ {0}
  /\ MaxFaults \in Nat

VARIABLES
  link,       \* none; open; broken: lost, the client has not noticed; shut: it has
  channels,   \* open channels of each connection
  inWith,     \* the program is inside `with producer`
  inCtx,      \* _in_ctx
  ctx,        \* _connection
  pc,         \* where publish is
  event,      \* what it publishes
  attempt,    \* the iteration of retry
  own,        \* the connection of this attempt
  wire,       \* frames sent and not yet received
  stored,     \* frames the broker has routed
  outcome,    \* history: how the call for an event ended
  hit,        \* history: events one of whose frames a fault took
  since,      \* history: faults since publish was called
  faults      \* history: all faults

linkVars == <<link, channels, inWith, inCtx, ctx>>
callVars == <<pc, event, attempt, own>>
wireVars == <<wire, stored>>
historyVars == <<hit, since, faults>>
vars == <<linkVars, callVars, wireVars, outcome, historyVars>>

Frames == [event : Events, try : 1..Attempts, on : Connections]
Steps == {"idle", "start", "channel", "send", "finally", "sleep"}

TypeOK ==
  /\ link \in [Connections -> {"none", "open", "broken", "shut"}]
  /\ channels \in [Connections -> 0..ChannelMax]
  /\ inWith \in BOOLEAN /\ inCtx \in BOOLEAN
  /\ ctx \in Connections \cup {Nothing}
  /\ pc \in Steps
  /\ event \in Events \cup {Nothing}
  /\ attempt \in 0..Attempts
  /\ own \in Connections \cup {Nothing}
  /\ wire \subseteq Frames /\ stored \subseteq Frames
  /\ outcome \in [Events -> {"none", "returned", "raised"}]
  /\ hit \subseteq Events
  /\ since \in 0..MaxFaults /\ faults \in 0..MaxFaults

Init ==
  /\ link = [k \in Connections |-> "none"]
  /\ channels = [k \in Connections |-> 0]
  /\ inWith = FALSE /\ inCtx = FALSE /\ ctx = Nothing
  /\ pc = "idle" /\ event = Nothing /\ attempt = 0 /\ own = Nothing
  /\ wire = {} /\ stored = {}
  /\ outcome = [e \in Events |-> "none"]
  /\ hit = {} /\ since = 0 /\ faults = 0

-----------------------------------------------------------------------------
(* Helpers. *)

SetLink(k, status, n) ==
  /\ link' = [link EXCEPT ![k] = status]
  /\ channels' = [channels EXCEPT ![k] = n]

\* What a lost connection becomes once pika has raised: the producer keeps the
\* one of its context, any other is forgotten.
Noticed(k) == IF k = ctx THEN "shut" ELSE "none"

\* Nothing sent on k is under way: its closing handshake comes after it.
Quiescent(k) == \A f \in wire : f.on # k

Fault == faults < MaxFaults /\ faults' = faults + 1 /\ since' = since + 1

\* The attempt ends with an exception retry catches.
AttemptFails == pc' = "sleep" /\ own' = Nothing /\ UNCHANGED <<event, attempt, outcome>>

\* The call ends.
CallEnds(how) ==
  /\ pc' = "idle" /\ event' = Nothing /\ attempt' = 0 /\ own' = Nothing
  /\ outcome' = [outcome EXCEPT ![event] = how]

-----------------------------------------------------------------------------
(* The context manager. *)

\* __enter__: a connection and a channel, which publish does not use.
Enter ==
  /\ pc = "idle" /\ ~inWith
  /\ \E k \in Connections :
       /\ link[k] = "none"
       /\ link' = [c \in Connections |-> IF c = k THEN "open"
                                         ELSE IF c = ctx THEN "none" ELSE link[c]]
       /\ channels' = [channels EXCEPT ![k] = 1]
       /\ ctx' = k
  /\ inWith' = TRUE /\ inCtx' = TRUE
  /\ UNCHANGED <<callVars, wireVars, outcome, historyVars>>

\* __exit__.  On a connection that broke unnoticed close() raises, and _in_ctx is
\* not reset: the producer stays with its dead connection.
Exit ==
  /\ pc = "idle" /\ inWith
  /\ inWith' = FALSE
  /\ \/ /\ (link[ctx] = "open" /\ Quiescent(ctx)) \/ link[ctx] = "shut"
        /\ SetLink(ctx, "none", 0)
        /\ inCtx' = FALSE /\ ctx' = Nothing
     \/ /\ link[ctx] = "broken"
        /\ SetLink(ctx, "shut", 0)
        /\ UNCHANGED <<inCtx, ctx>>
  /\ UNCHANGED <<callVars, wireVars, outcome, historyVars>>

-----------------------------------------------------------------------------
(* publish, and retry around it. *)

Call(e) ==
  /\ pc = "idle" /\ outcome[e] = "none"
  /\ pc' = "start" /\ event' = e /\ attempt' = 1 /\ own' = Nothing
  /\ since' = 0
  /\ UNCHANGED <<linkVars, wireVars, outcome, hit, faults>>

TakeConnection ==
  /\ pc = "start"
  /\ pc' = "channel"
  /\ \/ inCtx /\ own' = ctx /\ UNCHANGED <<link, channels>>
     \/ ~inCtx /\ \E k \in Connections :
          link[k] = "none" /\ own' = k /\ SetLink(k, "open", 0)
  /\ UNCHANGED <<inWith, inCtx, ctx, event, attempt, wireVars, outcome, historyVars>>

\* No connection can be opened; outside of a context only.
ConnectFails ==
  /\ pc = "start" /\ ~inCtx
  /\ Fault
  /\ AttemptFails
  /\ UNCHANGED <<linkVars, wireVars, hit>>

OpenChannel ==
  /\ pc = "channel" /\ link[own] = "open" /\ channels[own] < ChannelMax
  /\ SetLink(own, "open", channels[own] + 1)
  /\ pc' = "send"
  /\ UNCHANGED <<inWith, inCtx, ctx, event, attempt, own, wireVars, outcome, historyVars>>

\* channel() raises before the `try`: the connection is lost, or full.
ChannelFails ==
  /\ pc = "channel"
  /\ \/ link[own] = "open" /\ channels[own] = ChannelMax /\ UNCHANGED <<link, channels>>
     \/ link[own] \in {"broken", "shut"} /\ SetLink(own, Noticed(own), 0)
  /\ AttemptFails
  /\ UNCHANGED <<inWith, inCtx, ctx, wireVars, historyVars>>

\* json.dumps and basic_publish.  What they raise is logged and dropped; a write
\* to a connection that has just broken may also succeed.
Send ==
  /\ pc = "send"
  /\ pc' = "finally"
  /\ \/ event \in Unencodable /\ UNCHANGED <<link, channels, wire, hit>>
     \/ /\ event \notin Unencodable /\ link[own] = "open"
        /\ wire' = wire \cup {[event |-> event, try |-> attempt, on |-> own]}
        /\ UNCHANGED <<link, channels, hit>>
     \/ /\ event \notin Unencodable /\ link[own] = "broken"
        /\ hit' = hit \cup {event}
        /\ UNCHANGED <<link, channels>> \/ SetLink(own, Noticed(own), 0)
        /\ UNCHANGED wire
  /\ UNCHANGED <<inWith, inCtx, ctx, event, attempt, own, stored, outcome, since, faults>>

\* In a context nothing is closed, not even the channel of this call.
KeepOpen ==
  /\ pc = "finally" /\ inCtx
  /\ CallEnds("returned")
  /\ UNCHANGED <<linkVars, wireVars, historyVars>>

\* Mutants: the connection is closed before the channel, whose close() then
\* raises; only the channel is closed.
CloseOwnSwapped ==
  /\ pc = "finally" /\ ~inCtx
  /\ link[own] = "none" \/ (link[own] = "open" /\ Quiescent(own))
  /\ SetLink(own, "none", 0)
  /\ IF link[own] = "none" THEN CallEnds("returned") ELSE AttemptFails
  /\ UNCHANGED <<inWith, inCtx, ctx, wireVars, historyVars>>
CloseOwnChannelOnly ==
  /\ pc = "finally" /\ ~inCtx
  /\ link[own] = "none" \/ (link[own] = "open" /\ Quiescent(own))
  /\ SetLink(own, link[own], 0)
  /\ CallEnds("returned")
  /\ UNCHANGED <<inWith, inCtx, ctx, wireVars, historyVars>>

\* The `finally` closes channel and connection, or finds both closed.
CloseOwn ==
  /\ pc = "finally" /\ ~inCtx
  /\ link[own] = "none" \/ (link[own] = "open" /\ Quiescent(own))
  /\ SetLink(own, "none", 0)
  /\ CallEnds("returned")
  /\ UNCHANGED <<inWith, inCtx, ctx, wireVars, historyVars>>

\* channel.close() raises out of the `finally`: the connection has broken, or the
\* broker has closed the channel; then connection.close() is never reached.
CloseRaises ==
  /\ pc = "finally" /\ ~inCtx
  /\ \/ link[own] = "broken" /\ SetLink(own, "none", 0)
     \/ /\ link[own] = "open" /\ Quiescent(own) /\ channels[own] = 0
        /\ UNCHANGED <<link, channels>>
  /\ AttemptFails
  /\ UNCHANGED <<inWith, inCtx, ctx, wireVars, historyVars>>

\* Another iteration of retry, after which n attempts have been started.
Again(n) == pc' = "start" /\ attempt' = n /\ UNCHANGED <<event, own, outcome>>

\* Mutants: one attempt too many, one too few, no count, no raise at the end.
WakeTooOften ==
  /\ pc = "sleep"
  /\ \/ attempt <= Attempts /\ Again(attempt + 1)
     \/ attempt > Attempts /\ CallEnds("raised")
  /\ UNCHANGED <<linkVars, wireVars, historyVars>>
WakeGivesUpEarly ==
  /\ pc = "sleep"
  /\ \/ attempt < Attempts - 1 /\ Again(attempt + 1)
     \/ attempt >= Attempts - 1 /\ CallEnds("raised")
  /\ UNCHANGED <<linkVars, wireVars, historyVars>>
WakeForgetsCount ==
  /\ pc = "sleep"
  /\ \/ attempt < Attempts /\ Again(attempt)
     \/ attempt = Attempts /\ CallEnds("raised")
  /\ UNCHANGED <<linkVars, wireVars, historyVars>>
WakeReturns ==
  /\ pc = "sleep"
  /\ \/ attempt < Attempts /\ Again(attempt + 1)
     \/ attempt = Attempts /\ CallEnds("returned")
  /\ UNCHANGED <<linkVars, wireVars, historyVars>>

\* sleep(wait) is over, also after the last attempt.
Wake ==
  /\ pc = "sleep"
  /\ \/ attempt < Attempts /\ Again(attempt + 1)
     \/ attempt = Attempts /\ CallEnds("raised")
  /\ UNCHANGED <<linkVars, wireVars, historyVars>>

-----------------------------------------------------------------------------
(* The broker and the network. *)

Route(f) ==
  /\ f \in wire
  /\ wire' = wire \ {f} /\ stored' = stored \cup {f}
  /\ UNCHANGED <<linkVars, callVars, outcome, historyVars>>

\* The exchange does not exist: the broker drops the event and closes the channel.
CloseChannel(f) ==
  /\ f \in wire
  /\ Fault
  /\ wire' = wire \ {f}
  /\ hit' = hit \cup {f.event}
  /\ channels' = [channels EXCEPT ![f.on] = @ - 1]
  /\ UNCHANGED <<link, inWith, inCtx, ctx, callVars, stored, outcome>>

\* A connection breaks, with what is under way on it.
Lose(k) ==
  /\ link[k] = "open"
  /\ Fault
  /\ SetLink(k, IF k \in {own, ctx} THEN "broken" ELSE "none", 0)
  /\ wire' = {f \in wire : f.on # k}
  /\ hit' = hit \cup {f.event : f \in wire \ wire'}
  /\ UNCHANGED <<inWith, inCtx, ctx, callVars, stored, outcome>>

PublishStep ==
  \/ TakeConnection \/ ConnectFails \/ OpenChannel \/ ChannelFails \/ Send
  \/ KeepOpen \/ CloseOwn \/ CloseRaises \/ Wake

Next ==
  \/ Enter \/ Exit
  \/ \E e \in Events : Call(e)
  \/ PublishStep
  \/ \E f \in wire : Route(f) \/ CloseChannel(f)
  \/ \E k \in Connections : Lose(k)

Spec == Init /\ [][Next]_vars

\* The thread goes on and its sleeps end; the broker receives what is sent.
Fairness == WF_vars(PublishStep) /\ WF_vars(\E f \in wire : Route(f))
FairSpec == Spec /\ Fairness

-----------------------------------------------------------------------------
(* Correctness. *)

Copies(e) == {f \in wire \cup stored : f.event = e}

\* publish returns although its exceptions are swallowed: it tells the truth when
\* the event can be encoded and no fault took a frame of it.
ReportedIsSent ==
  \A e \in Events \ (Unencodable \cup hit) : outcome[e] = "returned" => Copies(e) # {}

\* retry may publish an event again after it was sent, because the `finally` can
\* raise; each further copy costs a fault, and there are at most `attempts`.
CopiesCostFaults ==
  \A e \in Events : /\ Cardinality(Copies(e)) <= 1 + faults
                    /\ Cardinality(Copies(e)) <= Attempts

\* Connections nobody will close any more.
Forgotten == {k \in Connections : link[k] # "none"} \ {own, ctx}

\* A call leaves no connection behind, but for one that lost its channel to the
\* broker: every connection that is neither in use nor the context's costs a fault.
ConnectionsGivenBack == Cardinality(Forgotten) <= faults

\* Outside of a context each attempt starts afresh, so that publish raises only
\* after as many faults as attempts.  In a context the attempts share a fate: a
\* single fault fails them all, and without any fault during the call they fail
\* on a connection that is lost or has a channel from each of ChannelMax calls.
RaisesForAReason ==
  [][\A e \in Events : outcome[e] = "none" /\ outcome'[e] = "raised" =>
       \/ since >= Attempts
       \/ /\ inCtx
          /\ since > 0 \/ link[ctx] # "open" \/ channels[ctx] = ChannelMax]_vars

\* Every call returns or raises.
EveryCallEnds == pc # "idle" ~> pc = "idle"
=============================================================================
