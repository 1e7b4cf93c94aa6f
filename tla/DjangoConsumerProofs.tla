------------------------- MODULE DjangoConsumerProofs -------------------------
(***************************************************************************)
(* Theorems about DjangoConsumer for every value of its constants: any     *)
(* number of messages, stored copies and consumers, any prefetch_count,    *)
(* any policy and any number of faults.                                    *)
(***************************************************************************)
EXTENDS DjangoConsumer, BrokerProofs

USE BrokerAssumption, DjangoAssumption

-----------------------------------------------------------------------------
(* Type correctness. *)

LEMMA GotoType ==
  ASSUME TypeOK, NEW p, NEW s \in Steps, Goto(p, s)
  PROVE  step' \in [Consumers -> Steps]
BY DEF TypeOK, Goto

LEMMA DropType ==
  ASSUME TypeOK, NEW p, NEW s \in Steps, Drop(p, s)
  PROVE  /\ step' \in [Consumers -> Steps]
         /\ cur' \in [Consumers -> Copies \cup {Nothing}]
         /\ body' \in [Consumers -> Messages \cup {Nothing}]
BY DEF TypeOK, Drop, Goto

LEMMA OnlyStepType ==
  ASSUME TypeOK, NEW p, NEW s \in Steps, OnlyStep(p, s),
         NEW m, NEW e \in Fates, Witness(m, e)
  PROVE  TypeOK'
BY GotoType, WitnessType DEF TypeOK, BrokerTypeOK, OnlyStep, storeVars

LEMMA FaultType ==
  ASSUME TypeOK, Fault
  PROVE  faults' \in 0..MaxFaults
BY DEF TypeOK, Fault

LEMMA DisconnectType ==
  ASSUME TypeOK, NEW p, Disconnect(p)
  PROVE  /\ up' \subseteq Consumers
         /\ place' \in [Copies -> Places]
         /\ content' \in [Copies -> Messages \cup {Nothing}]
         /\ sure' \subseteq Copies
BY RequeuedType, RelocateType DEF TypeOK, Disconnect

\* Settling the delivery of p, wherever that sends it.
LEMMA SettleType ==
  ASSUME TypeOK, NEW p \in Consumers, cur[p] \in Copies, NEW q \in Places,
         MoveCopy(cur[p], q), NEW s \in Steps, Drop(p, s),
         UNCHANGED <<published, fate, up, faults>>
  PROVE  TypeOK'
BY MoveCopyType, DropType DEF TypeOK, BrokerTypeOK

\* A thread at work has a delivery and the message it carried.
Working == {"running", "storing", "acking", "nacking"}

AtWork ==
  \A p \in Consumers : step[p] \in Working => cur[p] \in Copies /\ body[p] \in published

LEMMA TakeType ==
  ASSUME TypeOK, NEW p \in Consumers, NEW c \in Copies, Take(p, c)
  PROVE  TypeOK'
BY DEF Take, Goto, TypeOK, BrokerTypeOK, brokerVars, Steps

LEMMA ThreadStepType ==
  ASSUME TypeOK, AtWork, NEW p \in Consumers, ThreadStep(p)
  PROVE  TypeOK'
<1>0. BrokerTypeOK
  BY DEF TypeOK
<1>1. CASE Start(p)
  BY <1>1 DEF Start, Goto, TypeOK, BrokerTypeOK, brokerVars, Steps
<1>2. CASE \E c \in Copies : Take(p, c)
  BY <1>2, TakeType
<1>3. CASE CallbackReturns(p)
  BY <1>3, OnlyStepType DEF CallbackReturns, Steps, Fates
<1>4. CASE CallbackRaises(p)
  BY <1>4, OnlyStepType DEF CallbackRaises, Steps, Fates
<1>5. CASE StoreCopy(p)
  <2>1. body[p] \in Messages
    BY <1>0, <1>5 DEF StoreCopy, AtWork, Working, BrokerTypeOK
  <2>2. PICK c \in Copies : Store(c, body[p], "garbage", FALSE)
    BY <1>5 DEF StoreCopy
  <2>3. QED
    BY <1>0, <1>5, <2>1, <2>2, StoreType, GotoType
       DEF StoreCopy, TypeOK, BrokerTypeOK, Places, Steps
<1>6. CASE RefuseCopy(p)
  <2>1. fate' \in [Messages -> SUBSET Fates]
    BY <1>0, <1>6, WitnessType DEF RefuseCopy, Fates
  <2>2. faults' \in 0..MaxFaults
    BY <1>6, FaultType DEF RefuseCopy, TypeOK
  <2>3. QED
    BY <2>1, <2>2, <1>6, GotoType DEF RefuseCopy, TypeOK, BrokerTypeOK, storeVars, Steps
<1>7. CASE Ack(p)
  BY <1>7, SettleType DEF Ack, AtWork, Working, Places, Steps
<1>8. CASE Nack(p)
  <2>1. /\ (IF RequeueMsg THEN "main" ELSE "free") \in Places
        /\ (IF Policy = "raise" THEN "raised" ELSE "waiting") \in Steps
    BY DEF Places, Steps
  <2>2. QED
    BY <1>8, <2>1, SettleType DEF Nack, AtWork, Working
<1>9. CASE NoticeLoss(p)
  BY <1>9, DropType DEF NoticeLoss, TypeOK, BrokerTypeOK, brokerVars, Steps
<1>10. CASE CloseAfterRaise(p)
  BY <1>10, DropType, DisconnectType DEF CloseAfterRaise, TypeOK, BrokerTypeOK, Steps
<1>11. QED
  BY <1>1, <1>2, <1>3, <1>4, <1>5, <1>6, <1>7, <1>8, <1>9, <1>10 DEF ThreadStep

LEMMA OutsideType ==
  ASSUME TypeOK, Outside
  PROVE  TypeOK'
<1>1. BrokerTypeOK'
  BY PublishType, ReplayGarbageType, DeleteGarbageType DEF Outside, TypeOK
<1>2. QED
  BY <1>1 DEF Outside, TypeOK, threadVars

LEMMA TypeNext ==
  ASSUME TypeOK, AtWork, [Next]_vars
  PROVE  TypeOK'
<1>1. CASE Outside
  BY <1>1, OutsideType
<1>2. ASSUME NEW p \in Consumers, ThreadStep(p)
      PROVE  TypeOK'
  BY <1>2, ThreadStepType
<1>3. ASSUME NEW p \in Consumers, Crash(p)
      PROVE  TypeOK'
  BY <1>3, DropType, DisconnectType, FaultType DEF Crash, TypeOK, BrokerTypeOK, Steps
<1>4. ASSUME NEW p \in Consumers, ConnectionLost(p)
      PROVE  TypeOK'
  BY <1>4, DisconnectType, FaultType DEF ConnectionLost, TypeOK, BrokerTypeOK
<1>5. ASSUME NEW p \in Consumers, NEW c \in Copies, Deliver(p, c)
      PROVE  TypeOK'
  BY <1>5, MoveCopyType DEF Deliver, TypeOK, BrokerTypeOK, threadVars, Places
<1>6. CASE BrokerRestart
  BY <1>6, RestartStoreType, FaultType DEF BrokerRestart, TypeOK
<1>7. CASE UNCHANGED vars
  BY <1>7 DEF TypeOK, BrokerTypeOK, vars
<1>8. QED
  BY <1>1, <1>2, <1>3, <1>4, <1>5, <1>6, <1>7 DEF Next, Rest

-----------------------------------------------------------------------------
(***************************************************************************)
(* No message is lost.  NothingLost is not inductive: it does not say      *)
(* which copies are about to leave.  The strengthening counts a message as *)
(* Owed only while it has a copy that no thread is about to acknowledge,   *)
(* or to nack without requeue.                                             *)
(***************************************************************************)

Discarding == {"acking"} \cup (IF RequeueMsg THEN {} ELSE {"nacking"})

\* The copy stays with the broker whatever its consumer does next.
Owing(c) ==
  /\ place[c] # "free"
  /\ \A p \in Consumers : place[c] = p /\ cur[p] = c => step[p] \notin Discarding

Owed(m) == \E c \in Copies : content[c] = m /\ Owing(c)

Account == \A m \in published : Owed(m) \/ Justified(m)

\* What a thread works on is, while its connection is open, the delivery the
\* broker waits for.
Links ==
  \A p \in Consumers : cur[p] # Nothing =>
    /\ step[p] \in Working \cup {"raised"}
    /\ p \in up => place[cur[p]] = p /\ content[cur[p]] = body[p]

\* Only an open connection has unacknowledged deliveries.
Closed == \A c \in Copies : place[c] \in Consumers => place[c] \in up

\* A stored copy carries a published message; what a restart may lose, where
\* nothing else is transient, is a garbage copy.
Stored ==
  \A c \in Copies :
    /\ place[c] = "free" => content[c] = Nothing
    /\ place[c] # "free" =>
         /\ content[c] \in published
         /\ Durable /\ Persistent /\ c \notin sure =>
              Policy = "store" /\ "failed" \in fate[content[c]]

\* Only a message that failed is moved to the garbage queue.
Moving ==
  \A p \in Consumers : step[p] = "storing" => Policy = "store" /\ "failed" \in fate[body[p]]

IInv == TypeOK /\ AtWork /\ Links /\ Closed /\ Stored /\ Moving /\ Account

LEMMA InvInit == Init => IInv
<1>1. Init => TypeOK
  BY DEF Init, BrokerInit, TypeOK, BrokerTypeOK, Places, Steps
<1>2. QED
  BY <1>1 DEF Init, BrokerInit, IInv, AtWork, Working, Links, Closed, Stored, Moving, Account

\* What justifies letting a message go is never taken back.
LEMMA JustifiedStable ==
  ASSUME NEW m \in Messages, fate[m] \subseteq fate'[m], Justified(m)
  PROVE  Justified(m)'
BY DEF Justified

\* The account stays balanced when every copy that owed its message still does,
\* or the message may go.
LEMMA AccountStep ==
  ASSUME TypeOK, Account, published' = published,
         \A m \in Messages : fate[m] \subseteq fate'[m],
         \A c \in Copies, m \in published : Owing(c) /\ content[c] = m =>
           (Owing(c)' /\ content'[c] = m) \/ Justified(m)'
  PROVE  Account'
<1>1. SUFFICES ASSUME NEW m \in published, ~Justified(m)'
               PROVE  Owed(m)'
  BY DEF Account
<1>2. m \in Messages /\ Owed(m)
  BY <1>1, JustifiedStable DEF Account, TypeOK, BrokerTypeOK
<1>3. QED
  BY <1>1, <1>2 DEF Owed

-----------------------------------------------------------------------------
(* The steps of a thread. *)

LEMMA StartInv ==
  ASSUME IInv, NEW p \in Consumers, Start(p), TypeOK'
  PROVE  IInv'
<1> USE DEF Start, Goto, brokerVars
<1>0. TypeOK /\ AtWork /\ Links /\ Closed /\ Stored /\ Moving /\ Account
  BY DEF IInv
<1>1. \A q \in Consumers : q # p => step'[q] = step[q]
  BY <1>0 DEF TypeOK
<1>2. step'[p] = "waiting" /\ cur[p] = Nothing
  BY <1>0 DEF TypeOK, Links, Working
<1>3. AtWork' /\ Links' /\ Closed' /\ Stored' /\ Moving'
  BY <1>0, <1>1, <1>2 DEF AtWork, Links, Closed, Stored, Moving, Working
<1>4. Account'
  BY <1>0, <1>1, <1>2, AccountStep DEF Owing, Discarding
<1>5. QED
  BY <1>3, <1>4 DEF IInv

LEMMA TakeInv ==
  ASSUME IInv, NEW p \in Consumers, NEW c \in Copies, Take(p, c), TypeOK'
  PROVE  IInv'
<1> USE DEF Take, Goto, Pending, brokerVars
<1>0. TypeOK /\ BrokerTypeOK /\ AtWork /\ Links /\ Closed /\ Stored /\ Moving /\ Account
  BY DEF IInv, TypeOK
<1>1. \A q \in Consumers : q # p =>
        step'[q] = step[q] /\ cur'[q] = cur[q] /\ body'[q] = body[q]
  BY <1>0 DEF TypeOK
<1>2. /\ place[c] = p /\ p \in up /\ content[c] \in published
      /\ cur'[p] = c /\ body'[p] = content[c]
      /\ step'[p] \in {"acking", "raised", "running"}
      /\ step'[p] = "acking" => Kind[content[c]] = "malformed"
  BY <1>0 DEF TypeOK, Stored
<1>3. AtWork' /\ Links' /\ Closed' /\ Stored' /\ Moving'
  BY <1>0, <1>1, <1>2 DEF AtWork, Links, Closed, Stored, Moving, Working
<1>4. Account'
  BY <1>0, <1>1, <1>2, AccountStep DEF Owing, Discarding, Justified
<1>5. QED
  BY <1>3, <1>4 DEF IInv

\* A thread that goes on with its delivery preserves the invariant, provided its
\* message may go once the delivery is about to be discarded.
LEMMA OnlyStepInv ==
  ASSUME IInv, NEW p \in Consumers, NEW s \in Working \cup {"raised"}, OnlyStep(p, s),
         step[p] \in Working, TypeOK',
         \A m \in Messages : fate[m] \subseteq fate'[m],
         s \in Discarding => Justified(body[p])',
         s = "storing" => Policy = "store" /\ "failed" \in fate'[body[p]]
  PROVE  IInv'
<1> USE DEF OnlyStep, Goto, storeVars
<1>0. TypeOK /\ BrokerTypeOK /\ AtWork /\ Links /\ Closed /\ Stored /\ Moving /\ Account
  BY DEF IInv, TypeOK
<1>1. /\ \A q \in Consumers : q # p => step'[q] = step[q]
      /\ step'[p] = s
  BY <1>0 DEF TypeOK
<1>2. AtWork' /\ Links' /\ Closed' /\ Stored' /\ Moving'
  BY <1>0, <1>1 DEF AtWork, Links, Closed, Stored, Moving, Working, BrokerTypeOK
<1>3. \A c \in Copies : place[c] = p /\ cur[p] = c => content[c] = body[p]
  BY <1>0 DEF Links, Closed
<1>4. Account'
  BY <1>0, <1>1, <1>3, AccountStep DEF Owing
<1>5. QED
  BY <1>2, <1>4 DEF IInv

LEMMA CallbackReturnsInv ==
  ASSUME IInv, NEW p \in Consumers, CallbackReturns(p), TypeOK'
  PROVE  IInv'
<1>1. TypeOK /\ BrokerTypeOK /\ AtWork /\ step[p] = "running" /\ body[p] \in Messages
  BY DEF IInv, TypeOK, BrokerTypeOK, AtWork, Working, CallbackReturns
<1>2. /\ \A m \in Messages : fate[m] \subseteq fate'[m]
      /\ "handled" \in fate'[body[p]]
  BY <1>1, WitnessGrows DEF CallbackReturns
<1>3. Justified(body[p])'
  BY <1>2 DEF Justified, CallbackReturns, OnlyStep
<1>4. QED
  BY <1>1, <1>2, <1>3, OnlyStepInv DEF CallbackReturns, Working

LEMMA CallbackRaisesInv ==
  ASSUME IInv, NEW p \in Consumers, CallbackRaises(p), TypeOK'
  PROVE  IInv'
<1>1. TypeOK /\ BrokerTypeOK /\ AtWork /\ step[p] = "running" /\ body[p] \in Messages
  BY DEF IInv, TypeOK, BrokerTypeOK, AtWork, Working, CallbackRaises
<1>2. /\ \A m \in Messages : fate[m] \subseteq fate'[m]
      /\ "failed" \in fate'[body[p]]
  BY <1>1, WitnessGrows DEF CallbackRaises
<1>3. CASE Policy # "store" /\ OnlyStep(p, "nacking")
  <2>1. "nacking" \in Discarding => Justified(body[p])'
    BY <1>2, <1>3 DEF Justified, Discarding, OnlyStep
  <2>2. QED
    BY <1>1, <1>2, <1>3, <2>1, OnlyStepInv DEF Working
<1>4. CASE Policy = "store" /\ OnlyStep(p, "storing")
  BY <1>1, <1>2, <1>4, OnlyStepInv DEF Working, Discarding
<1>5. CASE OnlyStep(p, "raised")
  BY <1>1, <1>2, <1>5, OnlyStepInv DEF Working, Discarding
<1>6. QED
  BY <1>3, <1>4, <1>5 DEF CallbackRaises

\* The garbage copy takes over what the original owed.
LEMMA StoreCopyInv ==
  ASSUME IInv, NEW p \in Consumers, StoreCopy(p), TypeOK'
  PROVE  IInv'
<1>0. TypeOK /\ BrokerTypeOK /\ AtWork /\ Links /\ Closed /\ Stored /\ Moving /\ Account
  BY DEF IInv, TypeOK
<1>1. PICK d \in Copies : Store(d, body[p], "garbage", FALSE)
  BY DEF StoreCopy
<1>2. /\ step[p] = "storing" /\ p \in up /\ step'[p] = "acking"
      /\ \A q \in Consumers : q # p => step'[q] = step[q]
      /\ UNCHANGED <<cur, body, published, fate, up>>
      /\ body[p] \in published /\ cur[p] \in Copies
  BY <1>0 DEF StoreCopy, Goto, TypeOK, AtWork, Working
<1>3. /\ place[d] = "free" /\ sure' = sure
      /\ place'[d] = "garbage" /\ content'[d] = body[p]
      /\ \A c \in Copies : c # d => place'[c] = place[c] /\ content'[c] = content[c]
  BY <1>0, <1>1 DEF Store, BrokerTypeOK
<1>4. \A q \in Consumers : q \in up => cur[q] # d
  BY <1>0, <1>3 DEF Links, Closed
<1>5. AtWork' /\ Links' /\ Closed' /\ Moving'
  BY <1>0, <1>2, <1>3, <1>4 DEF AtWork, Links, Closed, Moving, Working, TypeOK
<1>6. Stored'
  BY <1>0, <1>2, <1>3 DEF Stored, Moving
<1>7. Account'
  <2>1. SUFFICES ASSUME NEW m \in published, Owed(m)
                 PROVE  Owed(m)'
    BY <1>0, <1>2, JustifiedStable DEF Account, TypeOK, BrokerTypeOK
  <2>2. CASE m = body[p]
    BY <1>3, <2>2 DEF Owed, Owing
  <2>3. CASE m # body[p]
    <3>1. PICK c \in Copies : content[c] = m /\ Owing(c)
      BY <2>1 DEF Owed
    <3>2. c # d /\ c # cur[p]
      BY <1>0, <1>2, <1>3, <2>3, <3>1 DEF Owing, Links
    <3>3. QED
      BY <1>2, <1>3, <3>1, <3>2 DEF Owed, Owing
  <2>4. QED
    BY <2>2, <2>3
<1>8. QED
  BY <1>5, <1>6, <1>7 DEF IInv

LEMMA RefuseCopyInv ==
  ASSUME IInv, NEW p \in Consumers, RefuseCopy(p), TypeOK'
  PROVE  IInv'
<1>0. TypeOK /\ BrokerTypeOK /\ AtWork /\ Links /\ Closed /\ Stored /\ Moving /\ Account
  BY DEF IInv, TypeOK
<1>1. /\ step[p] = "storing" /\ p \in up /\ step'[p] = "acking"
      /\ \A q \in Consumers : q # p => step'[q] = step[q]
      /\ UNCHANGED <<cur, body, published, up, place, content, sure>>
      /\ body[p] \in Messages /\ Witness(body[p], "refused")
  BY <1>0 DEF RefuseCopy, Goto, TypeOK, AtWork, Working, BrokerTypeOK, storeVars
<1>2. /\ \A m \in Messages : fate[m] \subseteq fate'[m]
      /\ "refused" \in fate'[body[p]]
  BY <1>0, <1>1, WitnessGrows
<1>3. AtWork' /\ Links' /\ Closed' /\ Stored' /\ Moving'
  BY <1>0, <1>1, <1>2 DEF AtWork, Links, Closed, Stored, Moving, Working, BrokerTypeOK
<1>4. Justified(body[p])'
  BY <1>1, <1>2 DEF Justified
<1>5. \A c \in Copies : place[c] = p /\ cur[p] = c => content[c] = body[p]
  BY <1>0, <1>1 DEF Links
<1>6. Account'
  BY <1>0, <1>1, <1>2, <1>4, <1>5, AccountStep DEF Owing
<1>7. QED
  BY <1>3, <1>6 DEF IInv

\* Settling takes away one copy, which nobody counted on, or requeues it.
LEMMA SettleInv ==
  ASSUME IInv, NEW p \in Consumers, step[p] \in {"acking", "nacking"}, p \in up,
         NEW q \in {"main", "free"}, q = "free" => step[p] \in Discarding,
         MoveCopy(cur[p], q), NEW s \in {"waiting", "raised"}, Drop(p, s),
         UNCHANGED <<published, fate, up, faults>>, TypeOK'
  PROVE  IInv'
<1>0. TypeOK /\ BrokerTypeOK /\ AtWork /\ Links /\ Closed /\ Stored /\ Moving /\ Account
  BY DEF IInv, TypeOK
<1>1. /\ cur[p] \in Copies /\ place[cur[p]] = p
      /\ cur'[p] = Nothing /\ step'[p] = s
      /\ \A r \in Consumers : r # p =>
           step'[r] = step[r] /\ cur'[r] = cur[r] /\ body'[r] = body[r]
  BY <1>0 DEF TypeOK, AtWork, Working, Links, Drop, Goto
<1>2. /\ place' = [place EXCEPT ![cur[p]] = q]
      /\ \A d \in Copies : place'[d] # "free" => content'[d] = content[d]
      /\ \A d \in Copies : place'[d] = "free" => content'[d] = Nothing
      /\ \A d \in Copies : place'[d] # "free" /\ d \in sure => d \in sure'
  BY <1>0, <1>1, MoveCopyEffect DEF Places
<1>3. \A d \in Copies : place'[d] = IF d = cur[p] THEN q ELSE place[d]
  BY <1>0, <1>2 DEF BrokerTypeOK
<1>4. \A r \in Consumers : r # p /\ r \in up => cur[r] # cur[p]
  BY <1>0, <1>1 DEF Links
<1>5. AtWork' /\ Links' /\ Closed' /\ Moving'
  BY <1>0, <1>1, <1>2, <1>3, <1>4 DEF AtWork, Links, Closed, Moving, Working, TypeOK
<1>6. Stored'
  BY <1>0, <1>1, <1>2, <1>3 DEF Stored, BrokerTypeOK
<1>7. Account'
  <2>1. \A c \in Copies : Owing(c) => Owing(c)' /\ content'[c] = content[c]
    BY <1>0, <1>1, <1>2, <1>3 DEF Owing
  <2>2. QED
    BY <1>0, <2>1, AccountStep
<1>8. QED
  BY <1>5, <1>6, <1>7 DEF IInv

\* The thread lets go of a delivery the broker has already taken back.
LEMMA NoticeLossInv ==
  ASSUME IInv, NEW p \in Consumers, NoticeLoss(p), TypeOK'
  PROVE  IInv'
<1>0. TypeOK /\ BrokerTypeOK /\ AtWork /\ Links /\ Closed /\ Stored /\ Moving /\ Account
  BY DEF IInv, TypeOK
<1>1. /\ cur'[p] = Nothing /\ step'[p] = "raised"
      /\ \A r \in Consumers : r # p =>
           step'[r] = step[r] /\ cur'[r] = cur[r] /\ body'[r] = body[r]
      /\ UNCHANGED <<published, place, content, sure, fate, up>>
  BY <1>0 DEF NoticeLoss, TypeOK, Drop, Goto, brokerVars
<1>2. AtWork' /\ Links' /\ Closed' /\ Stored' /\ Moving'
  BY <1>0, <1>1 DEF AtWork, Links, Closed, Stored, Moving, Working, TypeOK
<1>3. Account'
  BY <1>0, <1>1, AccountStep DEF Owing, Discarding
<1>4. QED
  BY <1>2, <1>3 DEF IInv

-----------------------------------------------------------------------------
(* Losses, deliveries, restarts, and what goes on outside. *)

\* A connection closes, under its thread or together with it: what it had not
\* acknowledged waits in the queue again, and nobody is about to discard it.
LEMMA DisconnectInv ==
  ASSUME IInv, NEW p \in Consumers, Disconnect(p), TypeOK',
         UNCHANGED <<published, fate>>,
         \/ UNCHANGED <<step, cur, body>>
         \/ Drop(p, "off")
  PROVE  IInv'
<1>0. TypeOK /\ BrokerTypeOK /\ AtWork /\ Links /\ Closed /\ Stored /\ Moving /\ Account
  BY DEF IInv, TypeOK
<1>1. /\ \A c \in Copies : place'[c] = IF place[c] = p THEN "main" ELSE place[c]
      /\ \A c \in Copies : place[c] # "free" =>
           content'[c] = content[c] /\ (c \in sure => c \in sure')
      /\ \A c \in Copies : place[c] = "free" => content'[c] = Nothing
  BY <1>0, RequeueEffect DEF Disconnect
<1>2. \A r \in Consumers :
        \/ step'[r] = step[r] /\ cur'[r] = cur[r] /\ body'[r] = body[r]
        \/ r = p /\ step'[r] = "off" /\ cur'[r] = Nothing
  BY <1>0 DEF TypeOK, Drop, Goto
<1>3. up' = up \ {p}
  BY DEF Disconnect
<1>4. AtWork' /\ Closed' /\ Moving'
  BY <1>0, <1>1, <1>2, <1>3 DEF AtWork, Closed, Moving, Working
<1>5. Links'
  <2>1. SUFFICES ASSUME NEW r \in Consumers, cur'[r] # Nothing
                 PROVE  /\ step'[r] \in Working \cup {"raised"}
                        /\ r \in up' => place'[cur'[r]] = r /\ content'[cur'[r]] = body'[r]
    BY DEF Links
  <2>2. /\ step'[r] = step[r] /\ cur'[r] = cur[r] /\ body'[r] = body[r]
        /\ cur[r] \in Copies
    BY <1>0, <1>2, <2>1 DEF TypeOK
  <2>3. QED
    BY <1>0, <1>1, <1>3, <2>1, <2>2 DEF Links
<1>6. Stored'
  BY <1>0, <1>1 DEF Stored
<1>7. Account'
  <2>1. \A c \in Copies : Owing(c) => Owing(c)' /\ content'[c] = content[c]
    BY <1>0, <1>1, <1>2 DEF Owing, Discarding, Closed
  <2>2. QED
    BY <1>0, <2>1, AccountStep
<1>8. QED
  BY <1>4, <1>5, <1>6, <1>7 DEF IInv

LEMMA DeliverInv ==
  ASSUME IInv, NEW p \in Consumers, NEW c \in Copies, Deliver(p, c), TypeOK'
  PROVE  IInv'
<1>0. TypeOK /\ BrokerTypeOK /\ AtWork /\ Links /\ Closed /\ Stored /\ Moving /\ Account
  BY DEF IInv, TypeOK
<1>1. /\ place' = [place EXCEPT ![c] = p]
      /\ \A d \in Copies : place'[d] # "free" => content'[d] = content[d]
      /\ \A d \in Copies : place'[d] = "free" => content'[d] = Nothing
      /\ \A d \in Copies : place'[d] # "free" /\ d \in sure => d \in sure'
  BY <1>0, MoveCopyEffect DEF Deliver, Places
<1>2. /\ place[c] = "main" /\ p \in up
      /\ \A d \in Copies : place'[d] = IF d = c THEN p ELSE place[d]
      /\ UNCHANGED <<published, fate, step, cur, body, up>>
  BY <1>0, <1>1 DEF Deliver, Deliverable, BrokerTypeOK, threadVars
<1>3. \A r \in Consumers : r \in up => cur[r] # c
  BY <1>0, <1>2 DEF Links
<1>4. AtWork' /\ Closed' /\ Moving' /\ Stored'
  BY <1>0, <1>1, <1>2 DEF AtWork, Closed, Moving, Stored, BrokerTypeOK
<1>5. Links'
  BY <1>0, <1>1, <1>2, <1>3 DEF Links, TypeOK
<1>6. Account'
  <2>1. \A d \in Copies : Owing(d) => Owing(d)' /\ content'[d] = content[d]
    BY <1>0, <1>1, <1>2, <1>3 DEF Owing
  <2>2. QED
    BY <1>0, <1>2, <2>1, AccountStep
<1>7. QED
  BY <1>4, <1>5, <1>6 DEF IInv

\* What a restart loses is either transient by the producers' choice, or the
\* garbage copy of a message that failed.
LEMMA BrokerRestartInv ==
  ASSUME IInv, BrokerRestart, TypeOK'
  PROVE  IInv'
<1>0. TypeOK /\ BrokerTypeOK /\ AtWork /\ Links /\ Closed /\ Stored /\ Moving /\ Account
  BY DEF IInv, TypeOK
<1>1. UNCHANGED <<published, step, cur, body>> /\ up' = {} /\ RestartStore
  BY DEF BrokerRestart, RestartStore
<1>2. /\ \A c \in Copies : Survives(c) =>
           /\ place'[c] \in {"main", "garbage"}
           /\ content'[c] = content[c] /\ c \in sure'
      /\ \A c \in Copies : ~Survives(c) => place'[c] = "free" /\ content'[c] = Nothing
      /\ \A m \in Messages : fate[m] \subseteq fate'[m]
      /\ \A c \in Copies : content[c] \in Messages /\ ~Survives(c) =>
           "evaporated" \in fate'[content[c]]
  BY <1>0, <1>1, RestartEffect
<1>3. \A c \in Copies : Survives(c) => place[c] # "free" /\ c \in sure
  BY DEF Survives
<1>4. AtWork' /\ Links' /\ Closed'
  BY <1>0, <1>1, <1>2 DEF AtWork, Links, Closed
<1>5. Stored'
  BY <1>0, <1>1, <1>2, <1>3 DEF Stored
<1>6. Moving'
  <2>1. \A p \in Consumers : step[p] = "storing" => body[p] \in Messages
    BY <1>0 DEF AtWork, Working, BrokerTypeOK
  <2>2. QED
    BY <1>0, <1>1, <1>2, <2>1 DEF Moving
<1>7. Account'
  <2>1. ASSUME NEW c \in Copies, NEW m \in published, Owing(c), content[c] = m
        PROVE  (Owing(c)' /\ content'[c] = m) \/ Justified(m)'
    <3>1. CASE Survives(c)
      BY <1>2, <2>1, <3>1 DEF Owing
    <3>2. CASE ~Survives(c)
      <4>1. m \in Messages /\ "evaporated" \in fate'[m]
        BY <1>0, <1>2, <2>1, <3>2 DEF BrokerTypeOK
      <4>2. CASE ~(Durable /\ Persistent)
        BY <4>1, <4>2 DEF Justified
      <4>3. CASE Durable /\ Persistent
        <5>1. place[c] # "free" /\ c \notin sure
          BY <2>1, <3>2, <4>3 DEF Owing, Survives
        <5>2. Policy = "store" /\ "failed" \in fate'[m]
          BY <1>0, <1>2, <2>1, <4>1, <4>3, <5>1 DEF Stored
        <5>3. QED
          BY <4>1, <5>2 DEF Justified
      <4>4. QED
        BY <4>2, <4>3
    <3>3. QED
      BY <3>1, <3>2
  <2>2. QED
    BY <1>0, <1>1, <1>2, <2>1, AccountStep
<1>8. QED
  BY <1>4, <1>5, <1>6, <1>7 DEF IInv

LEMMA PublishInv ==
  ASSUME IInv, NEW m \in Messages, Publish(m), UNCHANGED <<threadVars, up>>, TypeOK'
  PROVE  IInv'
<1>0. TypeOK /\ BrokerTypeOK /\ AtWork /\ Links /\ Closed /\ Stored /\ Moving /\ Account
  BY DEF IInv, TypeOK
<1>1. PICK d \in Copies : Store(d, m, "main", Persistent)
  BY DEF Publish
<1>2. /\ m \notin published /\ published' = published \cup {m}
      /\ UNCHANGED <<step, cur, body, up, fate>>
  BY DEF Publish, threadVars
<1>3. /\ place[d] = "free" /\ place'[d] = "main" /\ content'[d] = m
      /\ \A c \in Copies : c # d => place'[c] = place[c] /\ content'[c] = content[c]
      /\ sure \subseteq sure' /\ (Persistent => d \in sure')
  BY <1>0, <1>1 DEF Store, BrokerTypeOK
<1>4. \A r \in Consumers : r \in up => cur[r] # d
  BY <1>0, <1>3 DEF Links
<1>5. AtWork' /\ Closed' /\ Moving' /\ Stored'
  BY <1>0, <1>2, <1>3 DEF AtWork, Closed, Moving, Stored
<1>6. Links'
  BY <1>0, <1>2, <1>3, <1>4 DEF Links, TypeOK
<1>7. Account'
  <2>1. Owed(m)'
    BY <1>3 DEF Owed, Owing
  <2>2. ASSUME NEW n \in published, Owed(n)
        PROVE  Owed(n)'
    BY <1>2, <1>3, <2>2 DEF Owed, Owing
  <2>3. \A n \in published : Justified(n) => Justified(n)'
    BY <1>2 DEF Justified
  <2>4. QED
    BY <1>0, <1>2, <2>1, <2>2, <2>3 DEF Account
<1>8. QED
  BY <1>5, <1>6, <1>7 DEF IInv

\* The operator touches one copy, in the garbage queue.
LEMMA OperatorInv ==
  ASSUME IInv, NEW c \in Copies, ReplayGarbage(c) \/ DeleteGarbage(c),
         UNCHANGED <<threadVars, up>>, TypeOK'
  PROVE  IInv'
<1>0. TypeOK /\ BrokerTypeOK /\ AtWork /\ Links /\ Closed /\ Stored /\ Moving /\ Account
  BY DEF IInv, TypeOK
<1>1. /\ place[c] = "garbage" /\ content[c] \in Messages
      /\ UNCHANGED <<published, step, cur, body, up>>
  BY <1>0 DEF ReplayGarbage, DeleteGarbage, threadVars, Stored, BrokerTypeOK
<1>2. PICK q \in {"main", "free"} :
        MoveCopy(c, q) /\ (q = "free" => Witness(content[c], "deleted"))
  BY DEF ReplayGarbage, DeleteGarbage
<1>3. /\ place' = [place EXCEPT ![c] = q]
      /\ \A d \in Copies : place'[d] # "free" => content'[d] = content[d]
      /\ \A d \in Copies : place'[d] = "free" => content'[d] = Nothing
      /\ \A d \in Copies : place'[d] # "free" /\ d \in sure => d \in sure'
  BY <1>0, <1>2, MoveCopyEffect DEF Places
<1>4. \A d \in Copies : place'[d] = IF d = c THEN q ELSE place[d]
  BY <1>0, <1>3 DEF BrokerTypeOK
<1>5. /\ \A m \in Messages : fate[m] \subseteq fate'[m]
      /\ q = "free" => "deleted" \in fate'[content[c]]
  BY <1>0, <1>1, <1>2, WitnessGrows DEF ReplayGarbage, DeleteGarbage
<1>6. \A r \in Consumers : r \in up => cur[r] # c
  BY <1>0, <1>1 DEF Links
<1>7. AtWork' /\ Links' /\ Closed'
  BY <1>0, <1>1, <1>3, <1>4, <1>6 DEF AtWork, Links, Closed, TypeOK
<1>8. Stored'
  BY <1>0, <1>1, <1>3, <1>4, <1>5 DEF Stored, BrokerTypeOK
<1>9. Moving'
  <2>1. \A r \in Consumers : step[r] = "storing" => body[r] \in Messages
    BY <1>0 DEF AtWork, Working, BrokerTypeOK
  <2>2. QED
    BY <1>0, <1>1, <1>5, <2>1 DEF Moving
<1>10. Account'
  <2>1. ASSUME NEW d \in Copies, NEW m \in published, Owing(d), content[d] = m
        PROVE  (Owing(d)' /\ content'[d] = m) \/ Justified(m)'
    <3>1. CASE d = c /\ q = "free"
      BY <1>5, <2>1, <3>1 DEF Justified
    <3>2. CASE ~(d = c /\ q = "free")
      BY <1>1, <1>3, <1>4, <2>1, <3>2 DEF Owing
    <3>3. QED
      BY <3>1, <3>2
  <2>2. QED
    BY <1>0, <1>1, <1>5, <2>1, AccountStep
<1>11. QED
  BY <1>7, <1>8, <1>9, <1>10 DEF IInv

LEMMA ThreadStepInv ==
  ASSUME IInv, NEW p \in Consumers, ThreadStep(p), TypeOK'
  PROVE  IInv'
<1>1. CASE Ack(p)
  BY <1>1, SettleInv DEF Ack, Discarding
<1>2. CASE Nack(p)
  BY <1>2, SettleInv DEF Nack, Discarding
<1>3. CASE CloseAfterRaise(p)
  BY <1>3, DisconnectInv DEF CloseAfterRaise
<1>4. QED
  BY <1>1, <1>2, <1>3, StartInv, TakeInv, CallbackReturnsInv, CallbackRaisesInv,
     StoreCopyInv, RefuseCopyInv, NoticeLossInv DEF ThreadStep

LEMMA InvNext == IInv /\ [Next]_vars => IInv'
<1>1. SUFFICES ASSUME IInv, [Next]_vars
               PROVE  IInv'
  OBVIOUS
<1>2. TypeOK'
  BY <1>1, TypeNext DEF IInv
<1>3. CASE Outside
  BY <1>1, <1>2, <1>3, PublishInv, OperatorInv DEF Outside
<1>4. ASSUME NEW p \in Consumers, ThreadStep(p)
      PROVE  IInv'
  BY <1>1, <1>2, <1>4, ThreadStepInv
<1>5. ASSUME NEW p \in Consumers, Crash(p) \/ ConnectionLost(p)
      PROVE  IInv'
  BY <1>1, <1>2, <1>5, DisconnectInv DEF Crash, ConnectionLost
<1>6. ASSUME NEW p \in Consumers, NEW c \in Copies, Deliver(p, c)
      PROVE  IInv'
  BY <1>1, <1>2, <1>6, DeliverInv
<1>7. CASE BrokerRestart
  BY <1>1, <1>2, <1>7, BrokerRestartInv
<1>8. CASE UNCHANGED vars
  <2>1. UNCHANGED <<published, place, content, sure, fate, step, up, cur, body, faults>>
    BY <1>8 DEF vars
  <2>2. AtWork' /\ Links' /\ Closed' /\ Stored' /\ Moving'
    BY <1>1, <2>1 DEF IInv, AtWork, Links, Closed, Stored, Moving
  <2>3. Account'
    BY <1>1, <2>1 DEF IInv, Account, Owed, Owing, Justified
  <2>4. QED
    BY <1>2, <2>2, <2>3 DEF IInv
<1>9. QED
  BY <1>1, <1>3, <1>4, <1>5, <1>6, <1>7, <1>8 DEF Next, Rest

-----------------------------------------------------------------------------
\* The inductive invariant holds in every reachable state.
THEOREM Invariance == Spec => []IInv
BY InvInit, InvNext, PTL DEF Spec

\* Every variable keeps its type in every reachable state.
THEOREM TypeCorrect == Spec => []TypeOK
<1>1. IInv => TypeOK
  BY DEF IInv
<1>2. QED
  BY <1>1, Invariance, PTL

\* No crash, loss, restart or exception makes a message disappear from the broker
\* without a reason: publish goes out before ack, and what the thread had not
\* settled is requeued when the channel closes.
THEOREM NoMessageLost == Spec => []NothingLost
<1>1. IInv => NothingLost
  BY DEF IInv, Account, Owed, Owing, NothingLost, Kept
<1>2. QED
  BY <1>1, Invariance, PTL

\* The delivery a thread is about to settle on an open connection is still the
\* one it took, and no other thread can settle it.
THEOREM OwnDeliverySettled == Spec => []SettlesItsOwn
<1>1. IInv => SettlesItsOwn
  BY DEF IInv, TypeOK, AtWork, Links, SettlesItsOwn, Working
<1>2. QED
  BY <1>1, Invariance, PTL

-----------------------------------------------------------------------------
(***************************************************************************)
(* One copy.  While nothing has gone wrong every consumer that runs is     *)
(* connected, so the deliveries its thread works on are the broker's own,  *)
(* and a second copy appears only from the publish of the garbage copy to  *)
(* the ack of the original.                                                *)
(***************************************************************************)

Online == faults = 0 => \A p \in Consumers : step[p] # "off" => p \in up

\* No step of a thread closes a connection, but the one that ends the thread.
LEMMA OnlineNext ==
  ASSUME IInv, Online, [Next]_vars
  PROVE  Online'
<1>0. TypeOK /\ Links
  BY DEF IInv
<1>1. SUFFICES ASSUME faults' = 0
               PROVE  \A p \in Consumers : step'[p] # "off" => p \in up'
  BY DEF Online
<1>2. faults = 0 \/ Fault
  BY <1>0, <1>1 DEF Next, Outside, ThreadStep, Start, Take, CallbackReturns, CallbackRaises,
     StoreCopy, RefuseCopy, Ack, Nack, NoticeLoss, CloseAfterRaise, Crash, ConnectionLost,
     Deliver, BrokerRestart, Rest, OnlyStep, vars
<1>3. ~Fault /\ faults = 0
  BY <1>0, <1>1, <1>2 DEF Fault, TypeOK
<1>4. CASE Outside
  BY <1>3, <1>4 DEF Outside, Online, threadVars
<1>5. ASSUME NEW p \in Consumers, ThreadStep(p)
      PROVE  \A q \in Consumers : step'[q] # "off" => q \in up'
  BY <1>0, <1>3, <1>5 DEF ThreadStep, Start, Take, CallbackReturns, CallbackRaises,
     StoreCopy, RefuseCopy, Ack, Nack, NoticeLoss, CloseAfterRaise, Disconnect,
     OnlyStep, Goto, Drop, Online, TypeOK
<1>6. ASSUME NEW p \in Consumers, NEW c \in Copies, Deliver(p, c)
      PROVE  \A q \in Consumers : step'[q] # "off" => q \in up'
  BY <1>3, <1>6 DEF Deliver, Online, threadVars
<1>7. CASE UNCHANGED vars
  BY <1>3, <1>7 DEF vars, Online
<1>8. QED
  BY <1>3, <1>4, <1>5, <1>6, <1>7 DEF Next, Rest, Crash, ConnectionLost, BrokerRestart

\* A step that stores nothing new, and that ends an acknowledgement only by taking
\* its copy away.
Quiet ==
  /\ \A c \in Copies : content'[c] = content[c] \/ content'[c] = Nothing
  /\ \A p \in Consumers : cur[p] \in Copies /\ step[p] = "acking" =>
       (cur'[p] = cur[p] /\ step'[p] = "acking") \/ content'[cur[p]] = Nothing

LEMMA ThreadStepQuiet ==
  ASSUME IInv, Online, faults = 0, NEW p \in Consumers, ThreadStep(p)
  PROVE  Quiet \/ StoreCopy(p)
<1>0. TypeOK /\ BrokerTypeOK /\ AtWork
  BY DEF IInv, TypeOK
<1>1. CASE RefuseCopy(p)
  BY <1>0, <1>1 DEF RefuseCopy, Goto, TypeOK, storeVars, Quiet
<1>2. CASE Ack(p) \/ Nack(p)
  <2>1. /\ cur[p] \in Copies
        /\ \A q \in Consumers : q # p => cur'[q] = cur[q] /\ step'[q] = step[q]
        /\ \E q \in {"main", "free"} :
             MoveCopy(cur[p], q) /\ (step[p] = "acking" => q = "free")
    BY <1>0, <1>2 DEF Ack, Nack, Drop, Goto, AtWork, Working, TypeOK
  <2>2. PICK q \in {"main", "free"} :
          MoveCopy(cur[p], q) /\ (step[p] = "acking" => q = "free")
    BY <2>1
  <2>3. /\ \A d \in Copies : content'[d] = content[d] \/ content'[d] = Nothing
        /\ q = "free" => content'[cur[p]] = Nothing
    BY <1>0, <2>1, <2>2, MoveCopyEffect DEF Places, BrokerTypeOK
  <2>4. QED
    BY <2>1, <2>2, <2>3 DEF Quiet
<1>3. ~NoticeLoss(p)
  BY DEF NoticeLoss, Online
<1>4. CASE CloseAfterRaise(p)
  <2>1. \A c \in Copies : content'[c] = content[c] \/ content'[c] = Nothing
    BY <1>0, <1>4, RequeueEffect DEF CloseAfterRaise, Disconnect
  <2>2. QED
    BY <1>0, <1>4, <2>1 DEF CloseAfterRaise, Drop, Goto, TypeOK, Quiet
<1>5. CASE Start(p)
  BY <1>0, <1>5 DEF Start, Goto, TypeOK, brokerVars, Quiet
<1>6. ASSUME NEW c \in Copies, Take(p, c)
      PROVE  Quiet
  BY <1>0, <1>6 DEF Take, Goto, TypeOK, brokerVars, Quiet
<1>7. CASE CallbackReturns(p) \/ CallbackRaises(p)
  BY <1>0, <1>7 DEF CallbackReturns, CallbackRaises, OnlyStep, Goto, TypeOK, storeVars, Quiet
<1>8. QED
  BY <1>1, <1>2, <1>3, <1>4, <1>5, <1>6, <1>7 DEF ThreadStep

\* While nothing goes wrong, copies come only from producers and from the publish
\* of a garbage copy.
LEMMA QuietNext ==
  ASSUME IInv, Online, [Next]_vars, faults' = 0
  PROVE  /\ faults = 0
         /\ \/ Quiet
            \/ \E m \in Messages : Publish(m) /\ UNCHANGED threadVars
            \/ \E p \in Consumers : StoreCopy(p)
<1>0. TypeOK /\ BrokerTypeOK
  BY DEF IInv, TypeOK
<1>1. faults = 0 /\ ~Fault
  <2>1. faults = 0 \/ Fault
    BY DEF Next, Outside, ThreadStep, Start, Take, CallbackReturns, CallbackRaises,
       StoreCopy, RefuseCopy, Ack, Nack, NoticeLoss, CloseAfterRaise, Crash, ConnectionLost,
       Deliver, BrokerRestart, Rest, OnlyStep, vars
  <2>2. QED
    BY <1>0, <2>1 DEF Fault, TypeOK
<1>2. ASSUME NEW c \in Copies, ReplayGarbage(c) \/ DeleteGarbage(c), UNCHANGED threadVars
      PROVE  Quiet
  <2>1. PICK q \in {"main", "free"} : MoveCopy(c, q)
    BY <1>2 DEF ReplayGarbage, DeleteGarbage
  <2>2. QED
    BY <1>0, <1>2, <2>1, MoveCopyEffect DEF Places, threadVars, Quiet
<1>3. ASSUME NEW p \in Consumers, NEW c \in Copies, Deliver(p, c)
      PROVE  Quiet
  BY <1>0, <1>3, MoveCopyEffect DEF Deliver, Places, threadVars, Quiet
<1>4. CASE UNCHANGED vars
  BY <1>4 DEF vars, Quiet
<1>5. QED
  BY <1>1, <1>2, <1>3, <1>4, ThreadStepQuiet
     DEF Next, Outside, Rest, Crash, ConnectionLost, BrokerRestart

\* The thread that stores the garbage copy holds the original until its ack; if
\* a third copy is about, another thread holds that one to acknowledge it.
LEMMA StoreCopyOne ==
  ASSUME IInv, Online, OneCopy, NEW p \in Consumers, StoreCopy(p)
  PROVE  OneCopy'
<1>0. TypeOK /\ BrokerTypeOK /\ AtWork /\ Links
  BY DEF IInv, TypeOK
<1>1. PICK e \in Copies : Store(e, body[p], "garbage", FALSE)
  BY DEF StoreCopy
<1>2. /\ step[p] = "storing" /\ p \in up /\ step'[p] = "acking" /\ cur' = cur
      /\ \A q \in Consumers : q # p => step'[q] = step[q]
      /\ cur[p] \in Copies /\ content[cur[p]] = body[p] /\ body[p] # Nothing
      /\ faults' = faults
  BY <1>0 DEF StoreCopy, Goto, TypeOK, BrokerTypeOK, AtWork, Working, Links
<1>3. /\ content'[e] = body[p]
      /\ \A c \in Copies : c # e => content'[c] = content[c]
  BY <1>0, <1>1 DEF Store, BrokerTypeOK
<1>4. SUFFICES ASSUME faults = 0, NEW c \in Copies, NEW d \in Copies,
                      c # d, c # e, content'[c] # Nothing, content'[c] = content'[d]
               PROVE  \E q \in Consumers : cur[q] \in {c, d} /\ step'[q] = "acking"
  BY <1>2 DEF OneCopy
<1>5. CASE d # e
  <2>1. PICK q \in Consumers : cur[q] \in {c, d} /\ step[q] = "acking"
    BY <1>3, <1>4, <1>5 DEF OneCopy
  <2>2. QED
    BY <1>2, <2>1
<1>6. CASE d = e
  <2>1. content[c] = content[cur[p]]
    BY <1>2, <1>3, <1>4, <1>6
  <2>2. CASE c = cur[p]
    BY <1>2, <2>2
  <2>3. CASE c # cur[p]
    <3>1. PICK q \in Consumers : cur[q] \in {c, cur[p]} /\ step[q] = "acking"
      BY <1>2, <1>3, <1>4, <2>1, <2>3 DEF OneCopy
    <3>2. cur[q] # cur[p]
      BY <1>0, <1>2, <1>4, <3>1 DEF Links, Online
    <3>3. QED
      BY <1>2, <3>1, <3>2
  <2>4. QED
    BY <2>2, <2>3
<1>7. QED
  BY <1>5, <1>6

LEMMA OneCopyNext ==
  ASSUME IInv, Online, OneCopy, [Next]_vars
  PROVE  OneCopy'
<1>0. TypeOK /\ BrokerTypeOK /\ Stored
  BY DEF IInv, TypeOK
<1>1. ASSUME NEW m \in Messages, Publish(m), UNCHANGED threadVars, faults = 0
      PROVE  OneCopy'
  <2>1. PICK e \in Copies : Store(e, m, "main", Persistent)
    BY <1>1 DEF Publish
  <2>2. /\ content'[e] = m /\ \A c \in Copies : content[c] # m
        /\ \A c \in Copies : c # e => content'[c] = content[c]
    BY <1>0, <1>1, <2>1 DEF Publish, Store, Stored, BrokerTypeOK
  <2>3. QED
    BY <1>1, <2>2 DEF OneCopy, threadVars
<1>2. ASSUME Quiet, faults = 0
      PROVE  OneCopy'
  <2>1. SUFFICES ASSUME NEW c \in Copies, NEW d \in Copies,
                        c # d, content'[c] # Nothing, content'[c] = content'[d]
                 PROVE  \E p \in Consumers : cur'[p] \in {c, d} /\ step'[p] = "acking"
    BY DEF OneCopy
  <2>2. PICK p \in Consumers : cur[p] \in {c, d} /\ step[p] = "acking"
    BY <1>2, <2>1 DEF OneCopy, Quiet
  <2>3. QED
    BY <1>2, <2>1, <2>2 DEF Quiet
<1>3. CASE faults' # 0
  BY <1>3 DEF OneCopy
<1>4. QED
  BY <1>1, <1>2, <1>3, QuietNext, StoreCopyOne

\* Without faults a message is in two places only between the publish of its
\* garbage copy and the ack of the original.
THEOREM SecondCopyTransient == Spec => []OneCopy
<1>1. Init => Online /\ OneCopy
  BY DEF Init, BrokerInit, Online, OneCopy
<1>2. IInv /\ Online /\ OneCopy /\ [Next]_vars => Online' /\ OneCopy'
  BY OnlineNext, OneCopyNext
<1>3. QED
  BY <1>1, <1>2, Invariance, PTL DEF Spec

-----------------------------------------------------------------------------
(***************************************************************************)
(* One callback.  While nothing has gone wrong, a message that has been    *)
(* handled is nowhere any more, but for the one copy its thread is about   *)
(* to acknowledge: what comes back to the queue, and what an operator      *)
(* replays, has not been handled.                                          *)
(***************************************************************************)

HandledDone ==
  faults = 0 =>
    \A m \in Messages : "handled" \in fate[m] =>
      /\ m \in published
      /\ \A c \in Copies : content[c] = m =>
           \E p \in Consumers : cur[p] = c /\ step[p] = "acking"

\* The message a thread works on otherwise has not been handled: no other thread
\* can be acknowledging the same copy.
LEMMA WorkedNotHandled ==
  ASSUME IInv, Online, HandledDone, faults = 0,
         NEW p \in Consumers, step[p] \in Working \ {"acking"}
  PROVE  body[p] \in Messages /\ "handled" \notin fate[body[p]]
<1>0. TypeOK /\ BrokerTypeOK /\ AtWork /\ Links
  BY DEF IInv, TypeOK
<1>1. /\ p \in up /\ cur[p] \in Copies /\ body[p] \in Messages
      /\ place[cur[p]] = p /\ content[cur[p]] = body[p]
  BY <1>0 DEF AtWork, Links, Online, Working, BrokerTypeOK
<1>2. ASSUME NEW q \in Consumers, cur[q] = cur[p], step[q] = "acking"
      PROVE  FALSE
  BY <1>0, <1>1, <1>2 DEF Links, Online
<1>3. QED
  BY <1>1, <1>2 DEF HandledDone

\* A quiet step that records no message as handled.
LEMMA HandledQuiet ==
  ASSUME HandledDone, faults = 0, Quiet, published \subseteq published',
         \A m \in Messages : "handled" \in fate'[m] => "handled" \in fate[m]
  PROVE  HandledDone'
<1>1. SUFFICES ASSUME NEW m \in Messages, "handled" \in fate'[m]
               PROVE  /\ m \in published'
                      /\ \A c \in Copies : content'[c] = m =>
                           \E p \in Consumers : cur'[p] = c /\ step'[p] = "acking"
  BY DEF HandledDone
<1>2. m \in published /\ m # Nothing
  BY <1>1 DEF HandledDone
<1>3. ASSUME NEW c \in Copies, content'[c] = m
      PROVE  \E p \in Consumers : cur'[p] = c /\ step'[p] = "acking"
  <2>1. PICK p \in Consumers : cur[p] = c /\ step[p] = "acking"
    BY <1>1, <1>2, <1>3 DEF HandledDone, Quiet
  <2>2. QED
    BY <1>2, <1>3, <2>1 DEF Quiet
<1>4. QED
  BY <1>2, <1>3

\* When a callback returns, any other copy of its message is being acknowledged.
LEMMA CallbackReturnsHandled ==
  ASSUME IInv, Online, OneCopy, HandledDone, faults = 0,
         NEW p \in Consumers, CallbackReturns(p)
  PROVE  HandledDone'
<1>0. TypeOK /\ BrokerTypeOK /\ AtWork /\ Links
  BY DEF IInv, TypeOK
<1>1. /\ step[p] = "running" /\ step'[p] = "acking" /\ body[p] \in published
      /\ \A q \in Consumers : q # p => step'[q] = step[q]
      /\ cur[p] \in Copies /\ content[cur[p]] = body[p]
      /\ UNCHANGED <<cur, content, published, faults>>
  BY <1>0 DEF CallbackReturns, OnlyStep, Goto, storeVars, TypeOK, AtWork, Links, Online, Working
<1>2. body[p] \in Messages
  BY <1>0, <1>1 DEF BrokerTypeOK
<1>3. \A m \in Messages : "handled" \in fate'[m] => m = body[p] \/ "handled" \in fate[m]
  BY <1>0, <1>2 DEF CallbackReturns, Witness, BrokerTypeOK
<1>4. ASSUME NEW c \in Copies, content[c] = body[p]
      PROVE  \E q \in Consumers : cur[q] = c /\ step'[q] = "acking"
  <2>1. CASE c = cur[p]
    BY <1>1, <2>1
  <2>2. CASE c # cur[p]
    <3>1. PICK q \in Consumers : cur[q] \in {c, cur[p]} /\ step[q] = "acking"
      BY <1>1, <1>2, <1>4, <2>2 DEF OneCopy
    <3>2. cur[q] # cur[p]
      BY <1>0, <1>1, <3>1 DEF Links, Online
    <3>3. QED
      BY <1>1, <3>1, <3>2
  <2>3. QED
    BY <2>1, <2>2
<1>5. ASSUME NEW m \in Messages, "handled" \in fate[m], NEW c \in Copies, content[c] = m
      PROVE  \E q \in Consumers : cur[q] = c /\ step'[q] = "acking"
  <2>1. PICK q \in Consumers : cur[q] = c /\ step[q] = "acking"
    BY <1>5 DEF HandledDone
  <2>2. QED
    BY <1>1, <2>1
<1>6. QED
  BY <1>1, <1>3, <1>4, <1>5 DEF HandledDone

\* A garbage copy is published for a message that has not been handled.
LEMMA StoreCopyHandled ==
  ASSUME IInv, Online, HandledDone, faults = 0, NEW p \in Consumers, StoreCopy(p)
  PROVE  HandledDone'
<1>0. TypeOK /\ BrokerTypeOK
  BY DEF IInv, TypeOK
<1>1. PICK e \in Copies : Store(e, body[p], "garbage", FALSE)
  BY DEF StoreCopy
<1>2. body[p] \in Messages /\ "handled" \notin fate[body[p]]
  BY WorkedNotHandled DEF StoreCopy, Working
<1>3. content'[e] = body[p] /\ \A c \in Copies : c # e => content'[c] = content[c]
  BY <1>0, <1>1 DEF Store, BrokerTypeOK
<1>4. /\ UNCHANGED <<cur, fate, published, faults>> /\ step[p] = "storing"
      /\ \A q \in Consumers : q # p => step'[q] = step[q]
  BY <1>0 DEF StoreCopy, Goto, TypeOK
<1>5. QED
  BY <1>2, <1>3, <1>4 DEF HandledDone

LEMMA PublishHandled ==
  ASSUME IInv, HandledDone, faults = 0,
         NEW m \in Messages, Publish(m), UNCHANGED threadVars
  PROVE  HandledDone'
<1>0. BrokerTypeOK
  BY DEF IInv, TypeOK
<1>1. PICK e \in Copies : Store(e, m, "main", Persistent)
  BY DEF Publish
<1>2. content'[e] = m /\ \A c \in Copies : c # e => content'[c] = content[c]
  BY <1>0, <1>1 DEF Store, BrokerTypeOK
<1>3. QED
  BY <1>2 DEF Publish, threadVars, HandledDone

\* Only the return of a callback records its message as handled.
LEMMA HandledNext ==
  ASSUME IInv, Online, OneCopy, HandledDone, [Next]_vars
  PROVE  HandledDone'
<1>0. TypeOK /\ BrokerTypeOK /\ AtWork /\ Stored
  BY DEF IInv, TypeOK
<1>1. SUFFICES ASSUME faults' = 0
               PROVE  HandledDone'
  BY DEF HandledDone
<1>2. faults = 0 /\ ~Fault
  BY <1>0, <1>1, QuietNext DEF Fault, TypeOK
<1>3. CASE \E p \in Consumers : CallbackReturns(p)
  BY <1>2, <1>3, CallbackReturnsHandled
<1>4. CASE \E m \in Messages : Publish(m) /\ UNCHANGED threadVars
  BY <1>2, <1>4, PublishHandled
<1>5. CASE \E p \in Consumers : StoreCopy(p)
  BY <1>2, <1>5, StoreCopyHandled
<1>6. CASE /\ ~\E m \in Messages : Publish(m) /\ UNCHANGED threadVars
           /\ ~\E p \in Consumers : CallbackReturns(p)
  <2>1. ASSUME NEW m \in Messages, NEW e, e # "handled", Witness(m, e)
        PROVE  \A n \in Messages : "handled" \in fate'[n] => "handled" \in fate[n]
    BY <1>0, <2>1 DEF Witness, BrokerTypeOK
  <2>2. ASSUME NEW p \in Consumers, CallbackRaises(p) \/ RefuseCopy(p)
        PROVE  \A n \in Messages : "handled" \in fate'[n] => "handled" \in fate[n]
    <3>1. body[p] \in Messages
      BY <1>0, <2>2 DEF CallbackRaises, RefuseCopy, AtWork, Working, BrokerTypeOK
    <3>2. QED
      BY <2>1, <2>2, <3>1 DEF CallbackRaises, RefuseCopy
  <2>3. ASSUME NEW c \in Copies, DeleteGarbage(c)
        PROVE  \A n \in Messages : "handled" \in fate'[n] => "handled" \in fate[n]
    <3>1. content[c] \in Messages
      BY <1>0, <2>3 DEF DeleteGarbage, Stored, BrokerTypeOK
    <3>2. QED
      BY <2>1, <2>3, <3>1 DEF DeleteGarbage
  <2>4. \A n \in Messages : "handled" \in fate'[n] => "handled" \in fate[n]
    BY <1>2, <1>6, <2>2, <2>3
       DEF Next, Outside, ThreadStep, Start, Take, StoreCopy, Ack, Nack, NoticeLoss,
       CloseAfterRaise, Crash, ConnectionLost, Deliver, BrokerRestart, Rest, ReplayGarbage,
       brokerVars, vars
  <2>5. published' = published
    BY <1>2, <1>6
       DEF Next, Outside, ThreadStep, Start, Take, CallbackRaises, OnlyStep, StoreCopy,
       RefuseCopy, Ack, Nack, NoticeLoss, CloseAfterRaise, Crash, ConnectionLost, Deliver,
       BrokerRestart, Rest, ReplayGarbage, DeleteGarbage, brokerVars, vars
  <2>6. QED
    BY <1>1, <1>2, <1>5, <1>6, <2>4, <2>5, QuietNext, HandledQuiet
<1>7. QED
  BY <1>3, <1>4, <1>6

\* Without faults no callback is called again for a message one has returned for,
\* although an exception for one delivery has the others delivered again.
THEOREM CallbacksOnce == Spec => []HandledOnce
<1>1. Init => Online /\ OneCopy /\ HandledDone
  BY DEF Init, BrokerInit, Online, OneCopy, HandledDone
<1>2. IInv /\ Online /\ OneCopy /\ HandledDone /\ [Next]_vars =>
        Online' /\ OneCopy' /\ HandledDone'
  BY OnlineNext, OneCopyNext, HandledNext
<1>3. IInv /\ Online /\ HandledDone => HandledOnce
  BY WorkedNotHandled DEF HandledOnce, Working
<1>4. QED
  BY <1>1, <1>2, <1>3, Invariance, PTL DEF Spec

-----------------------------------------------------------------------------
(***************************************************************************)
(* Refinement.  A step either publishes one message or leaves the set of   *)
(* published messages alone, and no step forgets what has happened to a    *)
(* message; the rest is the invariant: what is kept was published, and     *)
(* what was published is kept until it may go.                             *)
(***************************************************************************)

LEMMA History ==
  ASSUME IInv, [Next]_vars
  PROVE  \/ \E m \in Messages : Publish(m)
         \/ published' = published /\ \A m \in Messages : fate[m] \subseteq fate'[m]
<1>0. TypeOK /\ BrokerTypeOK /\ AtWork /\ Stored
  BY DEF IInv, TypeOK
<1>1. ASSUME NEW m \in Messages, NEW e, Witness(m, e), published' = published
      PROVE  published' = published /\ \A n \in Messages : fate[n] \subseteq fate'[n]
  BY <1>0, <1>1, WitnessGrows
<1>2. CASE Outside /\ ~\E m \in Messages : Publish(m)
  <2>1. PICK c \in Copies : ReplayGarbage(c) \/ DeleteGarbage(c)
    BY <1>2 DEF Outside
  <2>2. content[c] \in Messages
    BY <1>0, <2>1 DEF ReplayGarbage, DeleteGarbage, Stored, BrokerTypeOK
  <2>3. QED
    BY <1>1, <2>1, <2>2 DEF ReplayGarbage, DeleteGarbage
<1>3. ASSUME NEW p \in Consumers, ThreadStep(p)
      PROVE  published' = published /\ \A m \in Messages : fate[m] \subseteq fate'[m]
  <2>1. step[p] \in Working => body[p] \in Messages
    BY <1>0 DEF AtWork, BrokerTypeOK
  <2>2. CASE CallbackReturns(p) \/ CallbackRaises(p) \/ RefuseCopy(p)
    BY <1>1, <2>1, <2>2
       DEF CallbackReturns, CallbackRaises, RefuseCopy, OnlyStep, Working
  <2>3. QED
    BY <1>3, <2>2
       DEF ThreadStep, Start, Take, StoreCopy, Ack, Nack, NoticeLoss, CloseAfterRaise, brokerVars
<1>4. CASE BrokerRestart
  BY <1>0, <1>4, RestartEffect DEF BrokerRestart, RestartStore
<1>5. QED
  BY <1>2, <1>3, <1>4 DEF Next, Crash, ConnectionLost, Deliver, Rest, vars

\* The blocking consumers implement at-least-once delivery: whatever they and
\* their environment do is a step of AtLeastOnce, or no step of it at all.
THEOREM AtLeastOnceImplemented == Spec => AtLeastOnceDelivery
<1>1. Init => Contract!Init
  BY DEF Init, BrokerInit, Contract!Init, Kept
<1>2. IInv /\ IInv' /\ [Next]_vars => [Contract!Next]_(Contract!vars)
  <2>1. SUFFICES ASSUME IInv, IInv', [Next]_vars
                 PROVE  Contract!Next
    OBVIOUS
  <2>2. /\ \A m \in Messages : Kept(m) => m \in published
        /\ \A m \in Messages : Kept(m)' => m \in published'
        /\ \A m \in published' : Kept(m)' \/ Justified(m)'
        /\ published \subseteq Messages
    BY <2>1 DEF IInv, TypeOK, BrokerTypeOK, Stored, Kept, Account, Owed, Owing
  <2>3. ASSUME NEW m \in Messages, Publish(m)
        PROVE  Contract!Accept(m)
    <3>1. PICK d \in Copies : Store(d, m, "main", Persistent)
      BY <2>3 DEF Publish
    <3>2. /\ place[d] = "free" /\ place'[d] = "main" /\ content'[d] = m
          /\ \A c \in Copies : c # d => place'[c] = place[c] /\ content'[c] = content[c]
      BY <2>1, <3>1 DEF Store, IInv, TypeOK, BrokerTypeOK
    <3>3. m \notin published /\ published' = published \cup {m} /\ fate' = fate
      BY <2>3 DEF Publish
    <3>4. \A n \in Messages : Kept(n)' <=> n = m \/ Kept(n)
      BY <3>2 DEF Kept
    <3>5. \A n \in Messages : Justified(n)' <=> Justified(n)
      BY <3>3 DEF Justified
    <3>6. QED
      BY <2>2, <3>3, <3>4, <3>5 DEF Contract!Accept
  <2>4. CASE published' = published /\ \A m \in Messages : fate[m] \subseteq fate'[m]
    <3>1. \A m \in Messages : Justified(m) => Justified(m)'
      BY <2>4, JustifiedStable
    <3>2. Contract!Progress
      BY <2>2, <2>4, <3>1 DEF Contract!Progress
    <3>3. QED
      BY <3>2 DEF Contract!Next
  <2>5. QED
    BY <2>1, <2>3, <2>4, History DEF Contract!Next
<1>3. QED
  BY <1>1, <1>2, Invariance, PTL DEF Spec, AtLeastOnceDelivery, Contract!Spec
=============================================================================
