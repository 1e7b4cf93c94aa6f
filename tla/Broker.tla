------------------------------- MODULE Broker -------------------------------
(***************************************************************************)
(* The message broker as the consumers of toolset.event_bus use it: one    *)
(* main queue that consumers share, one garbage queue whose rejected       *)
(* messages are dead-lettered back to the main queue, manual               *)
(* acknowledgement, and a prefetch limit per consumer.                     *)
(*                                                                         *)
(* RabbitMQ is not part of the repository: this module is what the code    *)
(* relies on, not a translation of it.  A message the broker stores is a   *)
(* copy.  Copies have identities, so that the requeue of one delivery and  *)
(* the garbage copy of the same message never get mixed up; their number   *)
(* bounds the model.                                                       *)
(***************************************************************************)
EXTENDS Naturals, FiniteSets

CONSTANTS
  Messages,    \* identities of the messages producers publish
  Copies,      \* identities of what the broker stores (a bound of the model)
  Consumers,   \* consumer objects, each with a connection and a channel
  Nothing,     \* stands for "no copy", "no message", "no consumer"
  Prefetch,    \* the prefetch_count given to the channel
  Durable,     \* the durable parameter: the main queue survives a restart
  Persistent   \* producers publish with delivery_mode PERSISTENT

ASSUME BrokerAssumption ==
  /\ Prefetch \in Nat \ {0}
  /\ Durable \in BOOLEAN
  /\ Persistent \in BOOLEAN
  /\ Nothing \notin Messages \cup Copies \cup Consumers
  /\ Consumers \cap {"free", "main", "garbage"} = {}

VARIABLES
  published,   \* messages the broker has routed to the main queue
  place,       \* where a copy is: nowhere, in a queue, or unacked at a consumer
  content,     \* the message a copy carries
  sure,        \* the copies stored with delivery_mode PERSISTENT
  fate         \* history: what has happened to each message so far

brokerVars == <<published, place, content, sure, fate>>
storeVars  == <<place, content, sure>>

Places == {"free", "main", "garbage"} \cup Consumers

(***************************************************************************)
(* The events a message may go through.  "handled": a callback returned;   *)
(* "failed": a callback ended with an exception the consumer catches;      *)
(* "refused": the broker refused the garbage copy; "cut": a cancellation   *)
(* escaped from the processing; "deleted": an operator acknowledged it in  *)
(* the garbage queue; "evaporated": a restart lost a transient copy.       *)
(***************************************************************************)
Fates == {"handled", "failed", "refused", "cut", "deleted", "evaporated"}

BrokerTypeOK ==
  /\ published \subseteq Messages
  /\ place \in [Copies -> Places]
  /\ content \in [Copies -> Messages \cup {Nothing}]
  /\ sure \subseteq Copies
  /\ fate \in [Messages -> SUBSET Fates]

BrokerInit ==
  /\ published = {}
  /\ place = [c \in Copies |-> "free"]
  /\ content = [c \in Copies |-> Nothing]
  /\ sure = {}
  /\ fate = [m \in Messages |-> {}]

-----------------------------------------------------------------------------
(* Effects on the stored copies. *)

\* A new copy of m appears in queue q, persistent or not.
Store(c, m, q, persistent) ==
  /\ place[c] = "free"
  /\ place' = [place EXCEPT ![c] = q]
  /\ content' = [content EXCEPT ![c] = m]
  /\ sure' = IF persistent THEN sure \cup {c} ELSE sure

\* Every copy c goes to to[c]; what goes nowhere is forgotten.
Relocate(to) ==
  /\ place' = to
  /\ content' = [c \in Copies |-> IF to[c] = "free" THEN Nothing ELSE content[c]]
  /\ sure' = {c \in sure : to[c] # "free"}

\* One copy goes to q.
MoveCopy(c, q) == Relocate([place EXCEPT ![c] = q])

\* What consumer p has not acknowledged when its channel closes is requeued.
Requeued(p) == [c \in Copies |-> IF place[c] = p THEN "main" ELSE place[c]]

Unacked(p) == {c \in Copies : place[c] = p}

Witness(m, event) == fate' = [fate EXCEPT ![m] = @ \cup {event}]

-----------------------------------------------------------------------------
(* Steps of producers, operators and of the broker itself. *)

\* A producer publishes m and the main queue receives it.
Publish(m) ==
  /\ m \in Messages \ published
  /\ published' = published \cup {m}
  /\ \E c \in Copies : Store(c, m, "main", Persistent)
  /\ UNCHANGED fate

\* The copy c may be delivered to consumer p: it waits, and p has credit.
Deliverable(c, p) ==
  /\ place[c] = "main"
  /\ Cardinality(Unacked(p)) < Prefetch

\* An operator rejects a garbage message (nack with requeue=False): the dead
\* letter exchange routes it back to the main queue.
ReplayGarbage(c) ==
  /\ place[c] = "garbage"
  /\ MoveCopy(c, "main")
  /\ UNCHANGED <<published, fate>>

\* An operator acknowledges a garbage message, which deletes it.
DeleteGarbage(c) ==
  /\ place[c] = "garbage"
  /\ MoveCopy(c, "free")
  /\ Witness(content[c], "deleted")
  /\ UNCHANGED published

\* The garbage queue is always durable, the main queue when it is declared so;
\* in a durable queue only persistent copies survive.
Survives(c) == place[c] # "free" /\ c \in sure /\ (place[c] = "garbage" \/ Durable)

\* The broker restarts: every channel is gone with it.
RestartStore ==
  /\ Relocate([c \in Copies |-> IF ~Survives(c) THEN "free"
                               ELSE IF place[c] = "garbage" THEN "garbage" ELSE "main"])
  /\ fate' = [m \in Messages |->
                IF \E c \in Copies : content[c] = m /\ ~Survives(c)
                THEN fate[m] \cup {"evaporated"} ELSE fate[m]]
  /\ UNCHANGED published

-----------------------------------------------------------------------------
\* The broker still has m, in a queue or unacknowledged.
Kept(m) == \E c \in Copies : content[c] = m /\ place[c] # "free"

\* A copy of m waits in the garbage queue.
Parked(m) == \E c \in Copies : content[c] = m /\ place[c] = "garbage"
=============================================================================
