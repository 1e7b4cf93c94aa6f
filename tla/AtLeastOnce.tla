----------------------------- MODULE AtLeastOnce -----------------------------
(***************************************************************************)
(* What the consumers of toolset.event_bus promise about a message: once   *)
(* the main queue has accepted it, the broker keeps it until there is a    *)
(* reason to release it.  Keeping it twice, handling it again after its    *)
(* release, and bringing back a released message are all allowed: this is  *)
(* at-least-once, not exactly-once, delivery.                              *)
(***************************************************************************)
CONSTANT Messages

VARIABLES
  accepted,   \* messages the main queue has received
  kept,       \* messages the broker holds: queued, unacknowledged or parked
  released    \* messages that may go, each for a reason of its own

vars == <<accepted, kept, released>>

TypeOK ==
  /\ accepted \subseteq Messages
  /\ kept \subseteq accepted
  /\ released \subseteq accepted

Init == accepted = {} /\ kept = {} /\ released = {}

Accept(m) ==
  /\ m \notin accepted
  /\ accepted' = accepted \cup {m}
  /\ kept' = kept \cup {m}
  /\ \/ released' = released
     \/ released' = released \cup {m}   \* a body no consumer will ever handle

\* Some messages get a reason to go, some that have one go, some come back.
Progress ==
  /\ UNCHANGED accepted
  /\ released \subseteq released' /\ released' \subseteq accepted
  /\ kept' \subseteq accepted
  /\ kept \subseteq kept' \cup released'

Next == Progress \/ \E m \in Messages : Accept(m)

Spec == Init /\ [][Next]_vars

\* The promise in one formula.
Safe == accepted \subseteq kept \cup released
=============================================================================
