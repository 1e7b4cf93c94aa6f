----------------------------- MODULE BrokerProofs -----------------------------
(***************************************************************************)
(* Lemmas about Broker that the theorems about both kinds of consumers     *)
(* rest on: what moving, storing, witnessing and a restart leave well      *)
(* typed, and what they do to the stored copies.                           *)
(***************************************************************************)
EXTENDS Broker, TLAPS

USE BrokerAssumption

-----------------------------------------------------------------------------
(* Types. *)

\* Moving copies about keeps the store well typed.
LEMMA RelocateType ==
  ASSUME BrokerTypeOK, NEW to \in [Copies -> Places], Relocate(to)
  PROVE  /\ place' \in [Copies -> Places]
         /\ content' \in [Copies -> Messages \cup {Nothing}]
         /\ sure' \subseteq Copies
BY DEF BrokerTypeOK, Relocate

LEMMA MoveCopyType ==
  ASSUME BrokerTypeOK, NEW c \in Copies, NEW q \in Places, MoveCopy(c, q)
  PROVE  /\ place' \in [Copies -> Places]
         /\ content' \in [Copies -> Messages \cup {Nothing}]
         /\ sure' \subseteq Copies
<1>1. [place EXCEPT ![c] = q] \in [Copies -> Places]
  BY DEF BrokerTypeOK
<1>2. QED
  BY <1>1, RelocateType DEF MoveCopy

LEMMA RequeuedType ==
  ASSUME BrokerTypeOK, NEW p
  PROVE  Requeued(p) \in [Copies -> Places]
BY DEF BrokerTypeOK, Requeued, Places

LEMMA WitnessType ==
  ASSUME BrokerTypeOK, NEW m, NEW e \in Fates, Witness(m, e)
  PROVE  fate' \in [Messages -> SUBSET Fates]
BY DEF BrokerTypeOK, Witness

LEMMA StoreType ==
  ASSUME BrokerTypeOK, NEW c \in Copies, NEW m \in Messages, NEW q \in Places,
         NEW b \in BOOLEAN, Store(c, m, q, b)
  PROVE  /\ place' \in [Copies -> Places]
         /\ content' \in [Copies -> Messages \cup {Nothing}]
         /\ sure' \subseteq Copies
BY DEF BrokerTypeOK, Store

LEMMA PublishType ==
  ASSUME BrokerTypeOK, NEW m \in Messages, Publish(m)
  PROVE  BrokerTypeOK'
BY StoreType DEF BrokerTypeOK, Publish, Places

LEMMA ReplayGarbageType ==
  ASSUME BrokerTypeOK, NEW c \in Copies, ReplayGarbage(c)
  PROVE  BrokerTypeOK'
BY MoveCopyType DEF BrokerTypeOK, ReplayGarbage, Places

LEMMA DeleteGarbageType ==
  ASSUME BrokerTypeOK, NEW c \in Copies, DeleteGarbage(c)
  PROVE  BrokerTypeOK'
<1>1. fate' \in [Messages -> SUBSET Fates]
  BY WitnessType DEF DeleteGarbage, Fates
<1>2. QED
  BY <1>1, MoveCopyType DEF BrokerTypeOK, DeleteGarbage, Places

LEMMA RestartStoreType ==
  ASSUME BrokerTypeOK, RestartStore
  PROVE  BrokerTypeOK'
<1> DEFINE to == [c \in Copies |-> IF ~Survives(c) THEN "free"
                                   ELSE IF place[c] = "garbage" THEN "garbage" ELSE "main"]
<1>1. to \in [Copies -> Places]
  BY DEF Places
<1>2. fate' \in [Messages -> SUBSET Fates]
  BY DEF RestartStore, BrokerTypeOK, Fates
<1>3. QED
  BY <1>1, <1>2, RelocateType DEF RestartStore, BrokerTypeOK

-----------------------------------------------------------------------------
(* Effects. *)

\* What has happened to a message is never forgotten.
LEMMA WitnessGrows ==
  ASSUME BrokerTypeOK, NEW w \in Messages, NEW e, Witness(w, e)
  PROVE  /\ \A m \in Messages : fate[m] \subseteq fate'[m]
         /\ e \in fate'[w]
BY DEF BrokerTypeOK, Witness

\* One copy moves: the others stay where and what they are.
LEMMA MoveCopyEffect ==
  ASSUME BrokerTypeOK, NEW c \in Copies, NEW q \in Places, MoveCopy(c, q)
  PROVE  /\ place' = [place EXCEPT ![c] = q]
         /\ \A d \in Copies : place'[d] # "free" => content'[d] = content[d]
         /\ \A d \in Copies : place'[d] = "free" => content'[d] = Nothing
         /\ \A d \in Copies : place'[d] # "free" /\ d \in sure => d \in sure'
BY DEF BrokerTypeOK, MoveCopy, Relocate

\* A channel closes: its copies wait in the main queue again.
LEMMA RequeueEffect ==
  ASSUME BrokerTypeOK, NEW p, p # "free", Relocate(Requeued(p))
  PROVE  /\ \A c \in Copies : place'[c] = IF place[c] = p THEN "main" ELSE place[c]
         /\ \A c \in Copies : place[c] # "free" =>
              content'[c] = content[c] /\ (c \in sure => c \in sure')
         /\ \A c \in Copies : place[c] = "free" => content'[c] = Nothing
BY DEF BrokerTypeOK, Requeued, Relocate

\* A restart: what survives waits in a queue, and what does not is on record.
LEMMA RestartEffect ==
  ASSUME BrokerTypeOK, RestartStore
  PROVE  /\ \A c \in Copies : Survives(c) =>
              /\ place'[c] \in {"main", "garbage"}
              /\ content'[c] = content[c] /\ c \in sure'
         /\ \A c \in Copies : ~Survives(c) => place'[c] = "free" /\ content'[c] = Nothing
         /\ \A m \in Messages : fate[m] \subseteq fate'[m]
         /\ \A c \in Copies : content[c] \in Messages /\ ~Survives(c) =>
              "evaporated" \in fate'[content[c]]
<1>1. /\ \A c \in Copies : place'[c] = IF ~Survives(c) THEN "free"
                                       ELSE IF place[c] = "garbage" THEN "garbage" ELSE "main"
      /\ \A c \in Copies : content'[c] = IF place'[c] = "free" THEN Nothing ELSE content[c]
      /\ sure' = {c \in sure : place'[c] # "free"}
  BY DEF RestartStore, Relocate, BrokerTypeOK
<1>2. \A c \in Copies : Survives(c) => c \in sure
  BY DEF Survives
<1>3. \A m \in Messages :
        fate'[m] = IF \E c \in Copies : content[c] = m /\ ~Survives(c)
                   THEN fate[m] \cup {"evaporated"} ELSE fate[m]
  BY DEF RestartStore
<1>4. \A m \in Messages : fate[m] \subseteq fate'[m]
  BY <1>3
<1>5. \A c \in Copies : content[c] \in Messages /\ ~Survives(c) =>
        "evaporated" \in fate'[content[c]]
  BY <1>3
<1>6. QED
  BY <1>1, <1>2, <1>4, <1>5
=============================================================================
