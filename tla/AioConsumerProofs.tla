-------------------------- MODULE AioConsumerProofs --------------------------
(***************************************************************************)
(* Theorems about AioConsumer for every value of its constants: any number *)
(* of messages, stored copies, consumers and tasks, any prefetch_count and *)
(* any number of faults.                                                   *)
(***************************************************************************)
EXTENDS AioConsumer, BrokerProofs, FiniteSetTheorems

USE BrokerAssumption, AioAssumption

-----------------------------------------------------------------------------
(* Type correctness. *)

\* Ending tasks keeps the tasks well typed.
LEMMA FinishType ==
  ASSUME TypeOK, NEW S, Finish(S)
  PROVE  /\ pc' \in [Tasks -> Steps]
         /\ body' \in [Tasks -> Messages \cup {Nothing}]
         /\ home' \in [Tasks -> Consumers \cup {Nothing}]
         /\ copy' \in [Tasks -> Copies \cup {Nothing}]
BY DEF TypeOK, Finish, Steps

LEMMA LoseLinksType ==
  ASSUME TypeOK, NEW P, LoseLinks(P)
  PROVE  /\ pc' \in [Tasks -> Steps]
         /\ body' \in [Tasks -> Messages \cup {Nothing}]
         /\ home' \in [Tasks -> Consumers \cup {Nothing}]
         /\ copy' \in [Tasks -> Copies \cup {Nothing}]
BY DEF TypeOK, LoseLinks, Steps

LEMMA FaultType ==
  ASSUME TypeOK, Fault
  PROVE  faults' \in 0..MaxFaults
BY DEF TypeOK, Fault

LEMMA OnlyStepType ==
  ASSUME TypeOK, NEW t, NEW s \in Steps, OnlyStep(t, s),
         fate' \in [Messages -> SUBSET Fates]
  PROVE  TypeOK'
BY DEF TypeOK, BrokerTypeOK, OnlyStep, Goto, storeVars

LEMMA OutsideType ==
  ASSUME TypeOK, Outside
  PROVE  TypeOK'
<1>1. BrokerTypeOK'
  BY PublishType, ReplayGarbageType, DeleteGarbageType DEF Outside, TypeOK
<1>2. QED
  BY <1>1 DEF Outside, TypeOK, taskVars

LEMMA TaskStepType ==
  ASSUME TypeOK, NEW t \in Tasks, TaskStep(t)
  PROVE  TypeOK'
<1>0. fate \in [Messages -> SUBSET Fates] /\ BrokerTypeOK
  BY DEF TypeOK, BrokerTypeOK
<1>1. CASE Spawn(t)
  BY <1>0, <1>1, OnlyStepType DEF Spawn, Steps
<1>2. CASE Begin(t)
  <2>1. PICK s \in {"acking", "rejecting", "running"} : OnlyStep(t, s)
    BY <1>2 DEF Begin
  <2>2. QED
    BY <1>0, <1>2, <2>1, OnlyStepType DEF Begin, Steps
<1>3. CASE CallbackReturns(t)
  BY <1>0, <1>3, OnlyStepType, WitnessType DEF CallbackReturns, Steps, Fates
<1>4. CASE CallbackRaises(t)
  <2>1. AfterFailure(t) \in Steps
    BY DEF AfterFailure, Steps
  <2>2. QED
    BY <1>0, <1>4, <2>1, OnlyStepType, WitnessType DEF CallbackRaises, Fates
<1>5. CASE Woken(t)
  BY <1>0, <1>5, OnlyStepType DEF Woken, Steps
<1>6. CASE StoreCopy(t)
  <2>1. PICK c \in Copies : Store(c, body[t], "garbage", TRUE)
    BY <1>6 DEF StoreCopy
  <2>2. BrokerTypeOK'
    BY <1>0, <1>6, <2>1 DEF BrokerTypeOK, TypeOK, StoreCopy, Store, Places
  <2>3. QED
    BY <2>2, <1>6 DEF TypeOK, StoreCopy, Goto, Steps
<1>7. CASE RefuseCopy(t)
  <2>1. fate' \in [Messages -> SUBSET Fates]
    BY <1>0, <1>7, WitnessType DEF RefuseCopy, Fates
  <2>2. faults' \in 0..MaxFaults
    BY <1>7, FaultType DEF RefuseCopy, TypeOK
  <2>3. QED
    BY <2>1, <2>2, <1>7 DEF TypeOK, BrokerTypeOK, RefuseCopy, Goto, Steps, storeVars
<1>8. CASE Confirmed(t)
  BY <1>0, <1>8, OnlyStepType DEF Confirmed, Steps
<1>9. CASE Settle(t)
  <2>1. copy[t] # Nothing => copy[t] \in Copies
    BY DEF TypeOK
  <2>2. Verdict(pc[t]) \in Places
    BY DEF Verdict, Places
  <2>3. /\ place' \in [Copies -> Places]
        /\ content' \in [Copies -> Messages \cup {Nothing}]
        /\ sure' \subseteq Copies
    BY <1>0, <1>9, <2>1, <2>2, MoveCopyType DEF Settle, storeVars, BrokerTypeOK
  <2>4. QED
    BY <1>9, <2>3, FinishType DEF Settle, TypeOK, BrokerTypeOK
<1>10. QED
  BY <1>1, <1>2, <1>3, <1>4, <1>5, <1>6, <1>7, <1>8, <1>9 DEF TaskStep

LEMMA CloseIteratorType ==
  ASSUME BrokerTypeOK, NEW p, CloseIterator(p)
  PROVE  /\ place' \in [Copies -> Places]
         /\ content' \in [Copies -> Messages \cup {Nothing}]
         /\ sure' \subseteq Copies
<1> DEFINE to == [c \in Copies |->
                    IF \E t \in Buffered(p) : copy[t] = c THEN "main" ELSE place[c]]
<1>1. to \in [Copies -> Places]
  BY DEF BrokerTypeOK, Places
<1>2. Relocate(to)
  BY DEF CloseIterator
<1>3. QED
  BY <1>1, <1>2, RelocateType

LEMMA EndProcessType ==
  ASSUME TypeOK, NEW p \in Consumers, EndProcess(p), faults' \in 0..MaxFaults
  PROVE  TypeOK'
<1>1. BrokerTypeOK
  BY DEF TypeOK
<1>2. /\ place' \in [Copies -> Places]
      /\ content' \in [Copies -> Messages \cup {Nothing}]
      /\ sure' \subseteq Copies
  BY <1>1, RequeuedType, RelocateType DEF EndProcess
<1>3. QED
  BY <1>1, <1>2, FinishType DEF EndProcess, TypeOK, BrokerTypeOK, Phases

LEMMA ConsumerStepType ==
  ASSUME TypeOK, NEW p \in Consumers, ConsumerStep(p)
  PROVE  TypeOK'
<1>0. BrokerTypeOK
  BY DEF TypeOK
<1>1. CASE Start(p)
  BY <1>1 DEF Start, TypeOK, BrokerTypeOK, brokerVars, taskVars, Phases
<1>2. CASE StopListening(p)
  BY <1>0, <1>2, CloseIteratorType, FinishType, FaultType
     DEF StopListening, TypeOK, BrokerTypeOK, Phases
<1>3. CASE Close(p)
  BY <1>0, <1>3, RequeuedType, RelocateType, LoseLinksType
     DEF Close, TypeOK, BrokerTypeOK, Phases
<1>4. CASE Interrupt(p)
  <2>1. \A t \in Tasks : Cancelled(t) \in Steps
    BY DEF Cancelled, AfterFailure, Steps
  <2>2. /\ pc' \in [Tasks -> Steps]
        /\ body' \in [Tasks -> Messages \cup {Nothing}]
        /\ home' \in [Tasks -> Consumers \cup {Nothing}]
        /\ copy' \in [Tasks -> Copies \cup {Nothing}]
    BY <1>4, <2>1 DEF Interrupt, TypeOK
  <2>3. fate' \in [Messages -> SUBSET Fates]
    BY <1>0, <1>4 DEF Interrupt, BrokerTypeOK, Fates
  <2>4. phase' \in [Consumers -> Phases]
    BY <1>4 DEF Interrupt, TypeOK, Phases
  <2>5. QED
    BY <1>0, <1>4, <2>2, <2>3, <2>4, CloseIteratorType, FaultType
       DEF Interrupt, TypeOK, BrokerTypeOK
<1>5. CASE Exit(p)
  BY <1>5, EndProcessType DEF Exit, TypeOK
<1>6. CASE Crash(p)
  BY <1>6, EndProcessType, FaultType DEF Crash
<1>7. CASE ConnectionLost(p)
  BY <1>0, <1>7, RequeuedType, RelocateType, LoseLinksType, FaultType
     DEF ConnectionLost, TypeOK, BrokerTypeOK
<1>8. CASE Reconnect(p)
  BY <1>8 DEF Reconnect, TypeOK, BrokerTypeOK, brokerVars, taskVars
<1>9. ASSUME NEW t \in Tasks, NEW c \in Copies, Deliver(p, t, c)
      PROVE  TypeOK'
  <2>1. /\ place' \in [Copies -> Places]
        /\ content' \in [Copies -> Messages \cup {Nothing}]
        /\ sure' \subseteq Copies
    BY <1>0, <1>9, MoveCopyType DEF Deliver, Places
  <2>2. QED
    BY <2>1, <1>9 DEF Deliver, Goto, Steps, TypeOK, BrokerTypeOK
<1>10. QED
  BY <1>1, <1>2, <1>3, <1>4, <1>5, <1>6, <1>7, <1>8, <1>9 DEF ConsumerStep

LEMMA BrokerRestartType ==
  ASSUME TypeOK, BrokerRestart
  PROVE  TypeOK'
BY RestartStoreType, LoseLinksType, FaultType DEF BrokerRestart, TypeOK

LEMMA TypeInit == Init => TypeOK
BY DEF Init, BrokerInit, TypeOK, BrokerTypeOK, Places, Phases, Steps

LEMMA TypeNext == TypeOK /\ [Next]_vars => TypeOK'
<1>1. SUFFICES ASSUME TypeOK, [Next]_vars
               PROVE  TypeOK'
  OBVIOUS
<1>2. CASE Outside
  BY <1>1, <1>2, OutsideType
<1>3. ASSUME NEW t \in Tasks, TaskStep(t)
      PROVE  TypeOK'
  BY <1>1, <1>3, TaskStepType
<1>4. ASSUME NEW p \in Consumers, ConsumerStep(p)
      PROVE  TypeOK'
  BY <1>1, <1>4, ConsumerStepType
<1>5. CASE BrokerRestart
  BY <1>1, <1>5, BrokerRestartType
<1>6. CASE UNCHANGED vars
  BY <1>1, <1>6 DEF TypeOK, BrokerTypeOK, vars
<1>7. QED
  BY <1>1, <1>2, <1>3, <1>4, <1>5, <1>6 DEF Next, Rest

\* Every variable keeps its type in every reachable state.
THEOREM TypeCorrect == Spec => []TypeOK
<1>1. Init => TypeOK
  BY TypeInit
<1>2. TypeOK /\ [Next]_vars => TypeOK'
  BY TypeNext
<1>3. QED
  BY <1>1, <1>2, PTL DEF Spec

-----------------------------------------------------------------------------
(***************************************************************************)
(* No message is lost.  NothingLost is not inductive: it does not say      *)
(* which of the copies of a message are about to be discarded.  The        *)
(* strengthening counts as Owed only the copies that no pending ack, nack  *)
(* or reject will take away: those in a queue, and those whose task has    *)
(* not marked its delivery as processed.                                   *)
(***************************************************************************)

Owing == {"buffered", "spawned", "running", "sleeping", "moving", "abandoned"}
           \cup (IF RequeueMsg THEN {"nacking"} ELSE {})

Owed(m) ==
  \E c \in Copies :
    /\ content[c] = m
    /\ \/ place[c] \in {"main", "garbage"}
       \/ \E t \in Tasks : copy[t] = c /\ pc[t] \in Owing

\* A task that can still settle a copy is at work, its channel is open, and the
\* broker waits for that very copy.
Links ==
  \A t \in Tasks : copy[t] # Nothing =>
    /\ pc[t] # "idle"
    /\ home[t] \in up
    /\ place[copy[t]] = home[t]
    /\ content[copy[t]] = body[t]

\* No two tasks can settle the same copy, and every unacked copy has its task.
SingleHolder == \A s, t \in Tasks : copy[s] = copy[t] /\ copy[s] # Nothing => s = t
Held == \A c \in Copies : place[c] \in Consumers => \E t \in Tasks : copy[t] = c

\* A task at work has a message and a consumer.
AtWork == \A t \in Tasks : pc[t] # "idle" => body[t] \in Messages /\ home[t] \in Consumers

\* Only BaseConsumer sleeps and nacks, and only after its callback raised.
Refusing ==
  \A t \in Tasks : pc[t] \in {"sleeping", "nacking"} =>
    ~Garbage /\ "failed" \in fate[body[t]]

\* A stored copy carries a message, persistently where nothing is transient.
Stored ==
  \A c \in Copies : place[c] # "free" =>
    content[c] \in Messages /\ (Durable /\ Persistent => c \in sure)

Account == \A m \in published : Owed(m) \/ Justified(m)

IInv == /\ TypeOK /\ Links /\ SingleHolder /\ Held /\ AtWork
        /\ Refusing /\ Stored /\ Account

LEMMA InvInit == Init => IInv
BY TypeInit DEF Init, BrokerInit, IInv, Links, SingleHolder, Held, AtWork, Refusing,
                Stored, Account

\* What justifies letting a message go is never taken back.
LEMMA JustifiedStable ==
  ASSUME NEW m \in Messages, fate[m] \subseteq fate'[m], Justified(m)
  PROVE  Justified(m)'
BY DEF Justified

\* A task that moves on without touching its delivery preserves the invariant,
\* provided it has not dropped out of Owing before its message may go.
LEMMA OnlyStepInv ==
  ASSUME IInv, NEW t \in Tasks, NEW s \in Steps \ {"idle"}, OnlyStep(t, s),
         pc[t] # "idle", TypeOK',
         \A m \in Messages : fate[m] \subseteq fate'[m],
         s \in {"sleeping", "nacking"} => ~Garbage /\ "failed" \in fate'[body[t]],
         s \in Owing \/ Justified(body[t])' \/ pc[t] \notin Owing \/ copy[t] = Nothing
  PROVE  IInv'
<1> USE DEF OnlyStep, Goto, storeVars
<1>0. /\ TypeOK /\ Links /\ SingleHolder /\ Held /\ AtWork /\ Refusing /\ Stored /\ Account
      /\ body[t] \in Messages
  BY DEF IInv, AtWork
<1>1. pc' = [pc EXCEPT ![t] = s] /\ pc \in [Tasks -> Steps]
  BY <1>0 DEF TypeOK
<1>2. Links' /\ SingleHolder' /\ Held' /\ AtWork' /\ Stored'
  BY <1>0, <1>1 DEF Links, SingleHolder, Held, AtWork, Stored
<1>3. Refusing'
  BY <1>0, <1>1 DEF Refusing, AtWork, Steps
<1>4. Account'
  <2>1. SUFFICES ASSUME NEW m \in published', ~Justified(m)'
                 PROVE  Owed(m)'
    BY DEF Account
  <2>2. m \in Messages /\ Owed(m)
    BY <1>0, <2>1, JustifiedStable DEF Account, TypeOK, BrokerTypeOK
  <2>3. PICK c \in Copies :
          /\ content[c] = m
          /\ \/ place[c] \in {"main", "garbage"}
             \/ \E u \in Tasks : copy[u] = c /\ pc[u] \in Owing
    BY <2>2 DEF Owed
  <2>4. ASSUME NEW u \in Tasks, copy[u] = c, pc[u] \in Owing
        PROVE  pc'[u] \in Owing
    <3>1. CASE u # t
      BY <3>1, <1>1, <2>4
    <3>2. CASE u = t
      <4>1. body[t] = m /\ copy[t] # Nothing
        BY <3>2, <2>3, <2>4, <1>0 DEF Links
      <4>2. QED
        BY <4>1, <3>2, <1>1, <2>1, <2>4
    <3>3. QED
      BY <3>1, <3>2
  <2>5. QED
    BY <2>3, <2>4 DEF Owed
<1>5. QED
  BY <1>2, <1>3, <1>4 DEF IInv

\* Storing the garbage copy keeps the account of its message balanced, although
\* the original now only waits for its ack.
LEMMA StoreCopyInv ==
  ASSUME IInv, NEW t \in Tasks, StoreCopy(t), TypeOK'
  PROVE  IInv'
<1>0. /\ TypeOK /\ BrokerTypeOK /\ Links /\ SingleHolder /\ Held /\ AtWork /\ Refusing
      /\ Stored /\ Account
  BY DEF IInv, TypeOK
<1>1. PICK d \in Copies : Store(d, body[t], "garbage", TRUE)
  BY DEF StoreCopy
<1>2. /\ pc' = [pc EXCEPT ![t] = "confirming"] /\ pc[t] = "moving"
      /\ pc \in [Tasks -> Steps]
      /\ UNCHANGED <<body, home, copy, published, fate, up>>
  BY <1>0 DEF StoreCopy, Goto, TypeOK
<1>3. /\ place[d] = "free"
      /\ place' = [place EXCEPT ![d] = "garbage"] /\ place \in [Copies -> Places]
      /\ content' = [content EXCEPT ![d] = body[t]]
      /\ content \in [Copies -> Messages \cup {Nothing}]
      /\ sure' = sure \cup {d}
  BY <1>0, <1>1 DEF Store, BrokerTypeOK
<1>4. \A u \in Tasks : copy[u] # Nothing => copy[u] \in Copies /\ copy[u] # d
  BY <1>0, <1>3 DEF Links, AtWork, TypeOK
<1>5. Links' /\ SingleHolder' /\ AtWork' /\ Refusing' /\ Stored'
  BY <1>0, <1>2, <1>3, <1>4 DEF Links, SingleHolder, AtWork, Refusing, Stored
<1>6. Held'
  BY <1>0, <1>2, <1>3 DEF Held
<1>7. Account'
  <2>1. SUFFICES ASSUME NEW m \in published', ~Justified(m)'
                 PROVE  Owed(m)'
    BY DEF Account
  <2>2. m \in Messages /\ Owed(m)
    BY <1>0, <1>2, <2>1, JustifiedStable DEF Account, TypeOK, BrokerTypeOK
  <2>3. CASE m = body[t]
    BY <1>3, <2>3 DEF Owed
  <2>4. CASE m # body[t]
    <3>1. PICK c \in Copies :
            /\ content[c] = m
            /\ \/ place[c] \in {"main", "garbage"}
               \/ \E u \in Tasks : copy[u] = c /\ pc[u] \in Owing
      BY <2>2 DEF Owed
    <3>2. c # d
      BY <1>3, <1>4, <3>1
    <3>3. ASSUME NEW u \in Tasks, copy[u] = c, pc[u] \in Owing
          PROVE  u # t
      BY <1>0, <2>4, <3>1, <3>3 DEF Links
    <3>4. QED
      BY <1>2, <1>3, <3>1, <3>2, <3>3 DEF Owed
  <2>5. QED
    BY <2>3, <2>4
<1>8. QED
  BY <1>5, <1>6, <1>7 DEF IInv

LEMMA RefuseCopyInv ==
  ASSUME IInv, NEW t \in Tasks, RefuseCopy(t), TypeOK'
  PROVE  IInv'
<1>0. /\ TypeOK /\ BrokerTypeOK /\ Links /\ SingleHolder /\ Held /\ AtWork /\ Refusing
      /\ Stored /\ Account
  BY DEF IInv, TypeOK
<1>1. /\ pc' = [pc EXCEPT ![t] = "rejecting"] /\ pc[t] = "moving"
      /\ pc \in [Tasks -> Steps]
      /\ UNCHANGED <<body, home, copy, published, up, place, content, sure>>
      /\ Witness(body[t], "refused")
  BY <1>0 DEF RefuseCopy, Goto, TypeOK, storeVars
<1>2. /\ body[t] \in Messages
      /\ \A m \in Messages : fate[m] \subseteq fate'[m]
      /\ "refused" \in fate'[body[t]]
  BY <1>0, <1>1, WitnessGrows DEF AtWork
<1>3. Links' /\ SingleHolder' /\ Held' /\ AtWork' /\ Stored'
  BY <1>0, <1>1 DEF Links, SingleHolder, Held, AtWork, Stored
<1>4. Refusing'
  BY <1>0, <1>1, <1>2 DEF Refusing, AtWork
<1>5. Account'
  <2>1. SUFFICES ASSUME NEW m \in published', ~Justified(m)'
                 PROVE  Owed(m)'
    BY DEF Account
  <2>2. m \in Messages /\ Owed(m) /\ m # body[t]
    BY <1>0, <1>1, <1>2, <2>1, JustifiedStable DEF Account, TypeOK, BrokerTypeOK, Justified
  <2>3. PICK c \in Copies :
          /\ content[c] = m
          /\ \/ place[c] \in {"main", "garbage"}
             \/ \E u \in Tasks : copy[u] = c /\ pc[u] \in Owing
    BY <2>2 DEF Owed
  <2>4. ASSUME NEW u \in Tasks, copy[u] = c, pc[u] \in Owing
        PROVE  u # t
    BY <1>0, <2>2, <2>3, <2>4 DEF Links
  <2>5. QED
    BY <1>1, <2>3, <2>4 DEF Owed
<1>6. QED
  BY <1>3, <1>4, <1>5 DEF IInv

\* A pending ack, nack or reject takes away only the copy of its own delivery,
\* which no Owed message counts on.
LEMMA SettleInv ==
  ASSUME IInv, NEW t \in Tasks, Settle(t), TypeOK'
  PROVE  IInv'
<1>0. /\ TypeOK /\ BrokerTypeOK /\ Links /\ SingleHolder /\ Held /\ AtWork /\ Refusing
      /\ Stored /\ Account
  BY DEF IInv, TypeOK
<1>1. /\ Finish({t}) /\ pc[t] \in Settling
      /\ UNCHANGED <<published, fate, up>>
  BY DEF Settle
<1>2. /\ \A u \in Tasks : u # t => /\ pc'[u] = pc[u] /\ body'[u] = body[u]
                                   /\ home'[u] = home[u] /\ copy'[u] = copy[u]
      /\ pc'[t] = "idle" /\ copy'[t] = Nothing
  BY <1>1 DEF Finish
<1>3. /\ \A c \in Copies : c # copy[t] => place'[c] = place[c]
      /\ copy[t] # Nothing => place'[copy[t]] = Verdict(pc[t])
      /\ \A c \in Copies : place'[c] # "free" =>
           content'[c] = content[c] /\ (c \in sure => c \in sure')
  <2>1. CASE copy[t] = Nothing
    BY <2>1 DEF Settle, storeVars
  <2>2. CASE copy[t] # Nothing
    <3>1. copy[t] \in Copies /\ MoveCopy(copy[t], Verdict(pc[t]))
      BY <1>0, <2>2 DEF Settle, TypeOK
    <3>2. QED
      BY <1>0, <3>1 DEF MoveCopy, Relocate, BrokerTypeOK
  <2>3. QED
    BY <2>1, <2>2
<1>4. \A u \in Tasks : u # t /\ copy[u] # Nothing =>
        copy[u] \in Copies /\ copy[u] # copy[t] /\ place[copy[u]] # "free"
  BY <1>0 DEF SingleHolder, Links, AtWork, TypeOK
<1>5. Links'
  BY <1>0, <1>1, <1>2, <1>3, <1>4 DEF Links, AtWork
<1>6. SingleHolder' /\ AtWork' /\ Refusing'
  BY <1>0, <1>1, <1>2 DEF SingleHolder, AtWork, Refusing
<1>7. Held'
  <2>1. Verdict(pc[t]) \notin Consumers
    BY DEF Verdict
  <2>2. QED
    BY <1>0, <1>2, <1>3, <2>1 DEF Held
<1>8. Stored'
  <2>1. \A c \in Copies : place'[c] # "free" => place[c] # "free"
    BY <1>0, <1>3, <1>4 DEF Links, AtWork, TypeOK
  <2>2. QED
    BY <1>0, <1>3, <2>1 DEF Stored
<1>9. Account'
  <2>1. SUFFICES ASSUME NEW m \in published', ~Justified(m)'
                 PROVE  Owed(m)'
    BY DEF Account
  <2>2. m \in Messages /\ Owed(m)
    BY <1>0, <1>1, <2>1, JustifiedStable DEF Account, TypeOK, BrokerTypeOK
  <2>3. PICK c \in Copies :
          /\ content[c] = m
          /\ \/ place[c] \in {"main", "garbage"}
             \/ \E u \in Tasks : copy[u] = c /\ pc[u] \in Owing
    BY <2>2 DEF Owed
  <2>4. CASE c = copy[t]
    <3>1. copy[t] # Nothing /\ place[c] \notin {"main", "garbage"}
      BY <1>0, <2>4 DEF Links, AtWork
    <3>2. pc[t] \in Owing
      BY <1>0, <2>3, <2>4, <3>1 DEF SingleHolder
    <3>3. Verdict(pc[t]) = "main"
      BY <1>1, <3>2 DEF Owing, Verdict, Settling
    <3>4. QED
      BY <1>3, <2>3, <2>4, <3>1, <3>3 DEF Owed
  <2>5. CASE c # copy[t]
    <3>1. place'[c] = place[c]
      BY <1>3, <2>5
    <3>2. place[c] # "free"
      BY <1>0, <2>3 DEF Links, AtWork
    <3>3. content'[c] = m
      BY <1>3, <2>3, <3>1, <3>2
    <3>4. QED
      BY <1>2, <2>3, <2>5, <3>1, <3>3 DEF Owed
  <2>6. QED
    BY <2>4, <2>5
<1>10. QED
  BY <1>5, <1>6, <1>7, <1>8, <1>9 DEF IInv

LEMMA TaskStepInv ==
  ASSUME IInv, NEW t \in Tasks, TaskStep(t), TypeOK'
  PROVE  IInv'
<1>0. /\ TypeOK /\ BrokerTypeOK /\ Links /\ SingleHolder /\ Held /\ AtWork /\ Refusing
      /\ Stored /\ Account
  BY DEF IInv, TypeOK
<1>a. ASSUME pc[t] # "idle"
      PROVE  body[t] \in Messages
  BY <1>0, <1>a DEF AtWork
<1>b. ASSUME UNCHANGED fate
      PROVE  \A m \in Messages : fate[m] \subseteq fate'[m]
  BY <1>b
<1>1. CASE Spawn(t)
  BY <1>1, <1>b, OnlyStepInv DEF Spawn, Owing, Steps
<1>2. CASE Begin(t)
  <2>1. CASE Kind[body[t]] = "malformed" /\ OnlyStep(t, "acking")
    BY <1>2, <1>b, <2>1, OnlyStepInv DEF Begin, Steps, Justified, OnlyStep
  <2>2. CASE Kind[body[t]] = "undecodable" /\ OnlyStep(t, "rejecting")
    BY <1>2, <1>b, <2>2, OnlyStepInv DEF Begin, Steps, Justified, OnlyStep
  <2>3. CASE OnlyStep(t, "running")
    BY <1>2, <1>b, <2>3, OnlyStepInv DEF Begin, Steps, Owing
  <2>4. QED
    BY <1>2, <2>1, <2>2, <2>3 DEF Begin
<1>3. CASE CallbackReturns(t)
  <2>1. body[t] \in Messages
    BY <1>3, <1>a DEF CallbackReturns
  <2>2. (\A m \in Messages : fate[m] \subseteq fate'[m]) /\ "handled" \in fate'[body[t]]
    BY <1>0, <1>3, <2>1, WitnessGrows DEF CallbackReturns
  <2>3. Justified(body[t])'
    BY <1>3, <2>2 DEF Justified, CallbackReturns, OnlyStep
  <2>4. QED
    BY <1>3, <2>2, <2>3, OnlyStepInv DEF CallbackReturns, Steps
<1>4. CASE CallbackRaises(t)
  <2>1. body[t] \in Messages
    BY <1>4, <1>a DEF CallbackRaises
  <2>2. (\A m \in Messages : fate[m] \subseteq fate'[m]) /\ "failed" \in fate'[body[t]]
    BY <1>0, <1>4, <2>1, WitnessGrows DEF CallbackRaises
  <2>3. CASE AfterFailure(t) = "sleeping" /\ ~Garbage
    BY <1>4, <2>2, <2>3, OnlyStepInv DEF CallbackRaises, Steps, Owing
  <2>4. CASE AfterFailure(t) = "moving"
    BY <1>4, <2>2, <2>4, OnlyStepInv DEF CallbackRaises, Steps, Owing
  <2>5. CASE AfterFailure(t) = "rejecting" /\ Garbage
    <3>1. Kind[body[t]] # "object" \/ home[t] \notin up
      BY <2>5 DEF AfterFailure
    <3>2. Justified(body[t])' \/ copy[t] = Nothing
      BY <1>0, <1>4, <2>2, <2>5, <3>1 DEF Justified, CallbackRaises, OnlyStep, Links
    <3>3. QED
      BY <1>4, <2>2, <2>5, <3>2, OnlyStepInv DEF CallbackRaises, Steps
  <2>6. QED
    BY <2>3, <2>4, <2>5 DEF AfterFailure
<1>5. CASE Woken(t)
  <2>1. ~Garbage /\ "failed" \in fate[body[t]]
    BY <1>0, <1>5 DEF Woken, Refusing
  <2>2. fate' = fate /\ body' = body
    BY <1>5 DEF Woken, OnlyStep
  <2>3. "nacking" \in Owing \/ Justified(body[t])'
    BY <1>5, <2>1, <2>2 DEF Owing, Justified
  <2>4. QED
    BY <1>5, <1>b, <2>1, <2>2, <2>3, OnlyStepInv DEF Woken, Steps
<1>6. CASE StoreCopy(t)
  BY <1>6, StoreCopyInv
<1>7. CASE RefuseCopy(t)
  BY <1>7, RefuseCopyInv
<1>8. CASE Confirmed(t)
  BY <1>8, <1>b, OnlyStepInv DEF Confirmed, Steps, Owing
<1>9. CASE Settle(t)
  BY <1>9, SettleInv
<1>10. QED
  BY <1>1, <1>2, <1>3, <1>4, <1>5, <1>6, <1>7, <1>8, <1>9 DEF TaskStep

LEMMA OutsideInv ==
  ASSUME IInv, Outside, TypeOK'
  PROVE  IInv'
<1>0. /\ TypeOK /\ BrokerTypeOK /\ Links /\ SingleHolder /\ Held /\ AtWork /\ Refusing
      /\ Stored /\ Account
      /\ UNCHANGED <<up, pc, body, home, copy>>
  BY DEF IInv, TypeOK, Outside, taskVars
<1>h. \A u \in Tasks : copy[u] # Nothing =>
        copy[u] \in Copies /\ place[copy[u]] \notin {"free", "main", "garbage"}
  BY <1>0 DEF Links, AtWork, TypeOK
<1>1. ASSUME NEW m \in Messages, Publish(m)
      PROVE  IInv'
  <2>1. PICK d \in Copies : Store(d, m, "main", Persistent)
    BY <1>1 DEF Publish
  <2>2. /\ place[d] = "free"
        /\ place' = [place EXCEPT ![d] = "main"] /\ place \in [Copies -> Places]
        /\ content' = [content EXCEPT ![d] = m]
        /\ content \in [Copies -> Messages \cup {Nothing}]
        /\ sure' = IF Persistent THEN sure \cup {d} ELSE sure
        /\ published' = published \cup {m} /\ fate' = fate
    BY <1>0, <1>1, <2>1 DEF Store, Publish, BrokerTypeOK
  <2>3. Links' /\ SingleHolder' /\ AtWork' /\ Refusing' /\ Stored'
    BY <1>0, <1>h, <2>2 DEF Links, SingleHolder, AtWork, Refusing, Stored
  <2>4. Held'
    BY <1>0, <2>2 DEF Held
  <2>5. Account'
    <3>1. Owed(m)'
      BY <2>2 DEF Owed
    <3>2. ASSUME NEW n \in published, Owed(n)
          PROVE  Owed(n)'
      BY <1>0, <1>h, <2>2, <3>2 DEF Owed
    <3>3. ASSUME NEW n \in published, Justified(n)
          PROVE  Justified(n)'
      BY <2>2, <3>3 DEF Justified
    <3>4. QED
      BY <1>0, <2>2, <3>1, <3>2, <3>3 DEF Account
  <2>6. QED
    BY <2>3, <2>4, <2>5 DEF IInv
<1>2. ASSUME NEW d \in Copies, ReplayGarbage(d)
      PROVE  IInv'
  <2>1. /\ place[d] = "garbage"
        /\ place' = [place EXCEPT ![d] = "main"] /\ place \in [Copies -> Places]
        /\ \A c \in Copies : place'[c] # "free" =>
             content'[c] = content[c] /\ (c \in sure => c \in sure')
        /\ published' = published /\ fate' = fate
    BY <1>0, <1>2 DEF ReplayGarbage, MoveCopy, Relocate, BrokerTypeOK
  <2>2. Links' /\ SingleHolder' /\ AtWork' /\ Refusing' /\ Stored' /\ Held'
    BY <1>0, <1>h, <2>1 DEF Links, SingleHolder, AtWork, Refusing, Stored, Held
  <2>3. Account'
    <3>1. ASSUME NEW n \in published, Owed(n)
          PROVE  Owed(n)'
      BY <1>0, <1>h, <2>1, <3>1 DEF Owed
    <3>2. ASSUME NEW n \in published, Justified(n)
          PROVE  Justified(n)'
      BY <2>1, <3>2 DEF Justified
    <3>3. QED
      BY <1>0, <2>1, <3>1, <3>2 DEF Account
  <2>4. QED
    BY <2>2, <2>3 DEF IInv
<1>3. ASSUME NEW d \in Copies, DeleteGarbage(d)
      PROVE  IInv'
  <2>1. /\ place[d] = "garbage"
        /\ place' = [place EXCEPT ![d] = "free"] /\ place \in [Copies -> Places]
        /\ \A c \in Copies : place'[c] # "free" =>
             content'[c] = content[c] /\ (c \in sure => c \in sure')
        /\ published' = published /\ Witness(content[d], "deleted")
    BY <1>0, <1>3 DEF DeleteGarbage, MoveCopy, Relocate, BrokerTypeOK
  <2>2. /\ \A n \in Messages : fate[n] \subseteq fate'[n]
        /\ content[d] \in Messages => "deleted" \in fate'[content[d]]
    BY <1>0, <2>1 DEF Witness, BrokerTypeOK
  <2>3. Links' /\ SingleHolder' /\ AtWork' /\ Stored' /\ Held'
    BY <1>0, <1>h, <2>1 DEF Links, SingleHolder, AtWork, Stored, Held
  <2>4. Refusing'
    BY <1>0, <2>2 DEF Refusing, AtWork
  <2>5. Account'
    <3>1. SUFFICES ASSUME NEW m \in published', ~Justified(m)'
                   PROVE  Owed(m)'
      BY DEF Account
    <3>2. m \in Messages /\ Owed(m) /\ content[d] # m
      BY <1>0, <2>1, <2>2, <3>1, JustifiedStable
         DEF Account, TypeOK, BrokerTypeOK, Justified
    <3>3. QED
      BY <1>0, <1>h, <2>1, <3>2 DEF Owed
  <2>6. QED
    BY <2>3, <2>4, <2>5 DEF IInv
<1>4. QED
  BY <1>1, <1>2, <1>3 DEF Outside

\* The channel of p closes or breaks: its unacked copies are requeued, so every
\* message it held is Owed again whatever its tasks go on to do.
LEMMA ChannelGoneInv ==
  ASSUME IInv, NEW p \in Consumers, LoseLinks({p}), Relocate(Requeued(p)),
         up' = up \ {p}, UNCHANGED <<published, fate>>, TypeOK'
  PROVE  IInv'
<1>0. /\ TypeOK /\ BrokerTypeOK /\ Links /\ SingleHolder /\ Held /\ AtWork /\ Refusing
      /\ Stored /\ Account
  BY DEF IInv, TypeOK
<1>1. /\ \A c \in Copies : place'[c] = IF place[c] = p THEN "main" ELSE place[c]
      /\ \A c \in Copies : place'[c] # "free" =>
           content'[c] = content[c] /\ (c \in sure => c \in sure')
  BY <1>0 DEF Relocate, Requeued, BrokerTypeOK
<1>2. /\ UNCHANGED <<body, home>>
      /\ \A t \in Tasks :
           /\ copy'[t] = IF home[t] = p THEN Nothing ELSE copy[t]
           /\ home[t] # p => pc'[t] = pc[t]
           /\ pc'[t] = pc[t] \/ (pc[t] # "idle" /\ pc'[t] = "rejecting")
  BY <1>0 DEF LoseLinks, TypeOK
<1>3. Links' /\ SingleHolder' /\ AtWork'
  BY <1>0, <1>1, <1>2 DEF Links, SingleHolder, AtWork, TypeOK
<1>4. Refusing' /\ Stored' /\ Held'
  BY <1>0, <1>1, <1>2 DEF Refusing, Stored, Held, Links
<1>5. Account'
  <2>1. SUFFICES ASSUME NEW m \in published', ~Justified(m)'
                 PROVE  Owed(m)'
    BY DEF Account
  <2>2. m \in Messages /\ Owed(m)
    BY <1>0, <2>1, JustifiedStable DEF Account, TypeOK, BrokerTypeOK
  <2>3. PICK c \in Copies :
          /\ content[c] = m
          /\ \/ place[c] \in {"main", "garbage"}
             \/ \E u \in Tasks : copy[u] = c /\ pc[u] \in Owing
    BY <2>2 DEF Owed
  <2>4. CASE place[c] \in {"main", "garbage", p}
    BY <1>1, <2>3, <2>4 DEF Owed
  <2>5. CASE place[c] \notin {"main", "garbage", p}
    <3>1. PICK u \in Tasks : copy[u] = c /\ pc[u] \in Owing
      BY <2>3, <2>5
    <3>2. home[u] # p /\ place[c] # "free"
      BY <1>0, <2>5, <3>1 DEF Links, AtWork
    <3>3. QED
      BY <1>1, <1>2, <2>3, <2>5, <3>1, <3>2 DEF Owed
  <2>6. QED
    BY <2>4, <2>5
<1>6. QED
  BY <1>3, <1>4, <1>5 DEF IInv

\* The same when the tasks of p end with it.
LEMMA EndProcessInv ==
  ASSUME IInv, NEW p \in Consumers, EndProcess(p), TypeOK'
  PROVE  IInv'
<1>0. /\ TypeOK /\ BrokerTypeOK /\ Links /\ SingleHolder /\ Held /\ AtWork /\ Refusing
      /\ Stored /\ Account
      /\ up' = up \ {p} /\ UNCHANGED <<published, fate>>
  BY DEF IInv, TypeOK, EndProcess
<1>1. /\ \A c \in Copies : place'[c] = IF place[c] = p THEN "main" ELSE place[c]
      /\ \A c \in Copies : place'[c] # "free" =>
           content'[c] = content[c] /\ (c \in sure => c \in sure')
  BY <1>0 DEF EndProcess, Relocate, Requeued, BrokerTypeOK
<1>2. \A t \in Tasks :
        IF home[t] = p THEN pc'[t] = "idle" /\ copy'[t] = Nothing
        ELSE pc'[t] = pc[t] /\ copy'[t] = copy[t] /\ body'[t] = body[t] /\ home'[t] = home[t]
  BY <1>0 DEF EndProcess, Finish, TasksOf
<1>3. Links' /\ SingleHolder' /\ AtWork'
  BY <1>0, <1>1, <1>2 DEF Links, SingleHolder, AtWork, TypeOK
<1>4. Refusing' /\ Stored' /\ Held'
  BY <1>0, <1>1, <1>2 DEF Refusing, Stored, Held, Links
<1>5. Account'
  <2>1. SUFFICES ASSUME NEW m \in published', ~Justified(m)'
                 PROVE  Owed(m)'
    BY DEF Account
  <2>2. m \in Messages /\ Owed(m)
    BY <1>0, <2>1, JustifiedStable DEF Account, TypeOK, BrokerTypeOK
  <2>3. PICK c \in Copies :
          /\ content[c] = m
          /\ \/ place[c] \in {"main", "garbage"}
             \/ \E u \in Tasks : copy[u] = c /\ pc[u] \in Owing
    BY <2>2 DEF Owed
  <2>4. CASE place[c] \in {"main", "garbage", p}
    BY <1>1, <2>3, <2>4 DEF Owed
  <2>5. CASE place[c] \notin {"main", "garbage", p}
    <3>1. PICK u \in Tasks : copy[u] = c /\ pc[u] \in Owing
      BY <2>3, <2>5
    <3>2. home[u] # p /\ place[c] # "free"
      BY <1>0, <2>5, <3>1 DEF Links, AtWork
    <3>3. QED
      BY <1>1, <1>2, <2>3, <2>5, <3>1, <3>2 DEF Owed
  <2>6. QED
    BY <2>4, <2>5
<1>6. QED
  BY <1>3, <1>4, <1>5 DEF IInv

\* Closing the iterator gives back exactly the deliveries no task has begun.
LEMMA CloseIteratorEffect ==
  ASSUME IInv, NEW p \in Consumers, CloseIterator(p)
  PROVE  /\ \A c \in Copies :
              place'[c] = IF \E t \in Buffered(p) : copy[t] = c THEN "main" ELSE place[c]
         /\ \A c \in Copies : place'[c] # "free" =>
              content'[c] = content[c] /\ (c \in sure => c \in sure')
         /\ \A u \in Tasks : u \notin Buffered(p) /\ copy[u] # Nothing =>
              copy[u] \in Copies /\ place'[copy[u]] = place[copy[u]]
                /\ content'[copy[u]] = content[copy[u]]
<1>0. BrokerTypeOK /\ TypeOK /\ Links /\ SingleHolder /\ AtWork
  BY DEF IInv, TypeOK
<1>1. /\ \A c \in Copies :
           place'[c] = IF \E t \in Buffered(p) : copy[t] = c THEN "main" ELSE place[c]
      /\ \A c \in Copies : place'[c] # "free" =>
           content'[c] = content[c] /\ (c \in sure => c \in sure')
  BY <1>0 DEF CloseIterator, Relocate, BrokerTypeOK
<1>2. ASSUME NEW u \in Tasks, u \notin Buffered(p), copy[u] # Nothing
      PROVE  /\ copy[u] \in Copies /\ place'[copy[u]] = place[copy[u]]
             /\ content'[copy[u]] = content[copy[u]]
  <2>1. copy[u] \in Copies /\ place[copy[u]] # "free"
    BY <1>0, <1>2 DEF TypeOK, Links, AtWork
  <2>2. ~ \E t \in Buffered(p) : copy[t] = copy[u]
    BY <1>0, <1>2 DEF SingleHolder, Buffered, TasksOf
  <2>3. QED
    BY <1>1, <2>1, <2>2
<1>3. QED
  BY <1>1, <1>2

LEMMA StopListeningInv ==
  ASSUME IInv, NEW p \in Consumers, StopListening(p), TypeOK'
  PROVE  IInv'
<1>0. /\ TypeOK /\ BrokerTypeOK /\ Links /\ SingleHolder /\ Held /\ AtWork /\ Refusing
      /\ Stored /\ Account
      /\ up' = up /\ UNCHANGED <<published, fate>>
  BY DEF IInv, TypeOK, StopListening
<1>1. /\ \A c \in Copies :
           place'[c] = IF \E t \in Buffered(p) : copy[t] = c THEN "main" ELSE place[c]
      /\ \A c \in Copies : place'[c] # "free" =>
           content'[c] = content[c] /\ (c \in sure => c \in sure')
      /\ \A u \in Tasks : u \notin Buffered(p) /\ copy[u] # Nothing =>
           copy[u] \in Copies /\ place'[copy[u]] = place[copy[u]]
             /\ content'[copy[u]] = content[copy[u]]
  BY CloseIteratorEffect DEF StopListening
<1>2. \A t \in Tasks :
        IF t \in Buffered(p) THEN pc'[t] = "idle" /\ copy'[t] = Nothing
        ELSE pc'[t] = pc[t] /\ copy'[t] = copy[t] /\ body'[t] = body[t] /\ home'[t] = home[t]
  BY DEF StopListening, Finish
<1>b. \A t \in Buffered(p) : t \in Tasks /\ pc[t] = "buffered"
                              /\ (copy[t] # Nothing => place[copy[t]] # "free")
  BY <1>0 DEF Buffered, TasksOf, Links, AtWork
<1>3. Links' /\ SingleHolder' /\ AtWork' /\ Refusing'
  BY <1>0, <1>1, <1>2 DEF Links, SingleHolder, AtWork, TypeOK, Refusing
<1>4. Held'
  BY <1>0, <1>1, <1>2, <1>b DEF Held
<1>5. Stored'
  BY <1>0, <1>1, <1>b DEF Stored
<1>6. Account'
  <2>1. SUFFICES ASSUME NEW m \in published', ~Justified(m)'
                 PROVE  Owed(m)'
    BY DEF Account
  <2>2. m \in Messages /\ Owed(m)
    BY <1>0, <2>1, JustifiedStable DEF Account, TypeOK, BrokerTypeOK
  <2>3. PICK c \in Copies :
          /\ content[c] = m
          /\ \/ place[c] \in {"main", "garbage"}
             \/ \E u \in Tasks : copy[u] = c /\ pc[u] \in Owing
    BY <2>2 DEF Owed
  <2>4. CASE place'[c] \in {"main", "garbage"}
    BY <1>1, <2>3, <2>4 DEF Owed
  <2>5. CASE place'[c] \notin {"main", "garbage"}
    <3>1. place'[c] = place[c] /\ ~ \E t \in Buffered(p) : copy[t] = c
      BY <1>1, <2>5
    <3>2. PICK u \in Tasks : copy[u] = c /\ pc[u] \in Owing
      BY <2>3, <2>5, <3>1
    <3>3. u \notin Buffered(p) /\ copy[u] # Nothing
      BY <3>1, <3>2
    <3>4. QED
      BY <1>1, <1>2, <2>3, <3>2, <3>3 DEF Owed
  <2>6. QED
    BY <2>4, <2>5
<1>7. QED
  BY <1>3, <1>4, <1>5, <1>6 DEF IInv

\* A cancelled task either keeps its delivery Owed or leaves a reason in fate.
LEMMA InterruptInv ==
  ASSUME IInv, NEW p \in Consumers, Interrupt(p), TypeOK'
  PROVE  IInv'
<1>0. /\ TypeOK /\ BrokerTypeOK /\ Links /\ SingleHolder /\ Held /\ AtWork /\ Refusing
      /\ Stored /\ Account
      /\ up' = up /\ published' = published
  BY DEF IInv, TypeOK, Interrupt
<1>1. /\ \A c \in Copies :
           place'[c] = IF \E t \in Buffered(p) : copy[t] = c THEN "main" ELSE place[c]
      /\ \A c \in Copies : place'[c] # "free" =>
           content'[c] = content[c] /\ (c \in sure => c \in sure')
      /\ \A u \in Tasks : u \notin Buffered(p) /\ copy[u] # Nothing =>
           copy[u] \in Copies /\ place'[copy[u]] = place[copy[u]]
             /\ content'[copy[u]] = content[copy[u]]
  BY CloseIteratorEffect DEF Interrupt
<1>2. \A t \in Tasks :
        IF t \in Buffered(p) THEN copy'[t] = Nothing
        ELSE copy'[t] = copy[t] /\ body'[t] = body[t] /\ home'[t] = home[t]
  BY DEF Interrupt
<1>3. \A t \in Tasks : pc'[t] = IF home[t] = p THEN Cancelled(t) ELSE pc[t]
  BY DEF Interrupt
<1>4. \A m \in Messages : fate[m] \subseteq fate'[m]
  BY DEF Interrupt
<1>5. \A t \in TasksOf(p) : body[t] \in Messages =>
        /\ Cut(t) => "cut" \in fate'[body[t]]
        /\ pc[t] = "running" /\ ~Cut(t) => "failed" \in fate'[body[t]]
  BY DEF Interrupt
<1>b. \A t \in Tasks : /\ t \in Buffered(p) <=> home[t] = p /\ pc[t] = "buffered"
                       /\ t \in Buffered(p) => pc'[t] = "idle"
                       /\ copy[t] # Nothing => place[copy[t]] # "free"
  BY <1>0, <1>3 DEF Buffered, TasksOf, Links, AtWork, Cancelled
<1>6. Links' /\ SingleHolder' /\ AtWork'
  <2>1. \A t \in Tasks : pc'[t] = "idle" => pc[t] = "idle" \/ t \in Buffered(p)
    BY <1>3, <1>b DEF Cancelled, AfterFailure
  <2>2. \A t \in Tasks : pc[t] = "idle" => pc'[t] = "idle"
    BY <1>3 DEF Cancelled
  <2>3. QED
    BY <1>0, <1>1, <1>2, <1>b, <2>1, <2>2 DEF Links, SingleHolder, AtWork, TypeOK
<1>7. Held'
  BY <1>0, <1>1, <1>2, <1>b DEF Held
<1>8. Stored'
  BY <1>0, <1>1, <1>b DEF Stored, Buffered, TasksOf
<1>9. Refusing'
  <2>1. SUFFICES ASSUME NEW t \in Tasks, pc'[t] \in {"sleeping", "nacking"}
                 PROVE  ~Garbage /\ "failed" \in fate'[body'[t]]
    BY DEF Refusing
  <2>2. body'[t] = body[t] /\ t \notin Buffered(p)
    BY <1>2, <1>b, <2>1
  <2>3. CASE home[t] # p
    BY <1>0, <1>3, <1>4, <2>1, <2>2, <2>3 DEF Refusing, AtWork
  <2>4. CASE home[t] = p
    <3>1. pc[t] = "running" /\ ~Cut(t) /\ ~Garbage
      BY <1>3, <2>1, <2>4 DEF Cancelled, AfterFailure
    <3>2. body[t] \in Messages /\ t \in TasksOf(p)
      BY <1>0, <2>4, <3>1 DEF AtWork, TasksOf
    <3>3. QED
      BY <1>5, <2>2, <3>1, <3>2
  <2>5. QED
    BY <2>3, <2>4
<1>10. Account'
  <2>1. SUFFICES ASSUME NEW m \in published', ~Justified(m)'
                 PROVE  Owed(m)'
    BY DEF Account
  <2>2. m \in Messages /\ Owed(m)
    BY <1>0, <1>4, <2>1, JustifiedStable DEF Account, TypeOK, BrokerTypeOK
  <2>3. PICK c \in Copies :
          /\ content[c] = m
          /\ \/ place[c] \in {"main", "garbage"}
             \/ \E u \in Tasks : copy[u] = c /\ pc[u] \in Owing
    BY <2>2 DEF Owed
  <2>4. CASE place'[c] \in {"main", "garbage"}
    BY <1>1, <2>3, <2>4 DEF Owed
  <2>5. CASE place'[c] \notin {"main", "garbage"}
    <3>1. place'[c] = place[c] /\ ~ \E t \in Buffered(p) : copy[t] = c
      BY <1>1, <2>5
    <3>2. PICK u \in Tasks : copy[u] = c /\ pc[u] \in Owing
      BY <2>3, <2>5, <3>1
    <3>3. u \notin Buffered(p) /\ copy[u] # Nothing /\ body[u] = m
      BY <1>0, <2>3, <3>1, <3>2 DEF Links
    <3>4. copy'[u] = c /\ content'[c] = m
      BY <1>1, <1>2, <2>3, <3>2, <3>3
    <3>5. pc'[u] \in Owing
      <4>1. CASE home[u] # p
        BY <1>3, <3>2, <4>1
      <4>2. CASE home[u] = p
        <5>1. ~Cut(u)
          BY <1>5, <2>1, <2>2, <3>3, <4>2 DEF TasksOf, Justified
        <5>2. CASE pc[u] = "running"
          <6>1. "failed" \in fate'[m]
            BY <1>5, <2>2, <3>3, <4>2, <5>1, <5>2 DEF TasksOf
          <6>2. home[u] \in up
            BY <1>0, <3>3 DEF Links
          <6>3. AfterFailure(u) \in {"sleeping", "moving"}
            BY <2>1, <3>3, <6>1, <6>2 DEF AfterFailure, Justified
          <6>4. QED
            BY <1>3, <4>2, <5>1, <5>2, <6>3 DEF Cancelled, Owing
        <5>3. CASE pc[u] # "running"
          BY <1>3, <1>b, <3>2, <3>3, <4>2, <5>1, <5>3 DEF Cancelled, Owing
        <5>4. QED
          BY <5>2, <5>3
      <4>3. QED
        BY <4>1, <4>2
    <3>6. QED
      BY <3>4, <3>5 DEF Owed
  <2>6. QED
    BY <2>4, <2>5
<1>11. QED
  BY <1>6, <1>7, <1>8, <1>9, <1>10 DEF IInv

LEMMA DeliverInv ==
  ASSUME IInv, NEW p \in Consumers, NEW t \in Tasks, NEW d \in Copies,
         Deliver(p, t, d), TypeOK'
  PROVE  IInv'
<1>0. /\ TypeOK /\ BrokerTypeOK /\ Links /\ SingleHolder /\ Held /\ AtWork /\ Refusing
      /\ Stored /\ Account
      /\ p \in up /\ UNCHANGED <<published, fate, up>>
  BY DEF IInv, TypeOK, Deliver
<1>1. /\ place[d] = "main" /\ pc[t] = "idle" /\ copy[t] = Nothing
      /\ \A c \in Copies : place'[c] = IF c = d THEN p ELSE place[c]
      /\ \A c \in Copies : place'[c] # "free" =>
           content'[c] = content[c] /\ (c \in sure => c \in sure')
  BY <1>0 DEF Deliver, Deliverable, MoveCopy, Relocate, BrokerTypeOK, Links
<1>2. /\ \A u \in Tasks : u # t => /\ pc'[u] = pc[u] /\ body'[u] = body[u]
                                   /\ home'[u] = home[u] /\ copy'[u] = copy[u]
      /\ pc'[t] = "buffered" /\ copy'[t] = d /\ home'[t] = p /\ body'[t] = content[d]
  BY <1>0 DEF Deliver, Goto, TypeOK
<1>3. \A u \in Tasks : copy[u] # Nothing =>
        copy[u] \in Copies /\ copy[u] # d /\ place[copy[u]] # "free"
  BY <1>0, <1>1 DEF Links, AtWork, TypeOK
<1>4. Links' /\ SingleHolder'
  BY <1>0, <1>1, <1>2, <1>3 DEF Links, SingleHolder, AtWork
<1>5. Held' /\ Stored' /\ Refusing'
  BY <1>0, <1>1, <1>2 DEF Held, Stored, Refusing
<1>6. AtWork'
  BY <1>0, <1>1, <1>2 DEF AtWork, Stored
<1>7. Account'
  <2>1. SUFFICES ASSUME NEW m \in published', ~Justified(m)'
                 PROVE  Owed(m)'
    BY DEF Account
  <2>2. m \in Messages /\ Owed(m)
    BY <1>0, <2>1, JustifiedStable DEF Account, TypeOK, BrokerTypeOK
  <2>3. PICK c \in Copies :
          /\ content[c] = m
          /\ \/ place[c] \in {"main", "garbage"}
             \/ \E u \in Tasks : copy[u] = c /\ pc[u] \in Owing
    BY <2>2 DEF Owed
  <2>4. CASE c = d
    BY <1>0, <1>1, <1>2, <2>3, <2>4 DEF Owed, Owing
  <2>5. CASE c # d
    <3>1. place[c] # "free"
      BY <1>3, <2>3
    <3>2. \A u \in Tasks : copy[u] = c => u # t
      BY <1>1
    <3>3. QED
      BY <1>1, <1>2, <2>3, <2>5, <3>1, <3>2 DEF Owed
  <2>6. QED
    BY <2>4, <2>5
<1>8. QED
  BY <1>4, <1>5, <1>6, <1>7 DEF IInv

LEMMA BrokerRestartInv ==
  ASSUME IInv, BrokerRestart, TypeOK'
  PROVE  IInv'
<1> DEFINE to == [c \in Copies |-> IF ~Survives(c) THEN "free"
                                   ELSE IF place[c] = "garbage" THEN "garbage" ELSE "main"]
<1>0. /\ TypeOK /\ BrokerTypeOK /\ Links /\ SingleHolder /\ Held /\ AtWork /\ Refusing
      /\ Stored /\ Account
      /\ up' = {} /\ published' = published
  BY DEF IInv, TypeOK, BrokerRestart, RestartStore
<1>1. /\ \A c \in Copies : place'[c] = to[c] /\ place'[c] \in {"free", "main", "garbage"}
      /\ \A c \in Copies : place'[c] # "free" =>
           content'[c] = content[c] /\ (c \in sure => c \in sure')
  BY <1>0 DEF BrokerRestart, RestartStore, Relocate, BrokerTypeOK
<1>2. /\ UNCHANGED <<body, home>>
      /\ \A t \in Tasks :
           /\ copy'[t] = IF home[t] \in Consumers THEN Nothing ELSE copy[t]
           /\ pc'[t] = pc[t] \/ (pc[t] # "idle" /\ pc'[t] = "rejecting")
  BY <1>0 DEF BrokerRestart, LoseLinks, TypeOK
<1>3. \A t \in Tasks : copy'[t] = Nothing
  BY <1>0, <1>2 DEF Links, TypeOK
<1>4. /\ \A m \in Messages : fate[m] \subseteq fate'[m]
      /\ \A c \in Copies : content[c] \in Messages /\ ~Survives(c) =>
           "evaporated" \in fate'[content[c]]
  BY <1>0 DEF BrokerRestart, RestartStore, BrokerTypeOK
<1>5. Links' /\ SingleHolder' /\ AtWork'
  BY <1>0, <1>2, <1>3 DEF Links, SingleHolder, AtWork
<1>6. Held'
  BY <1>1 DEF Held
<1>7. Refusing'
  BY <1>0, <1>2, <1>4 DEF Refusing, AtWork
<1>8. Stored'
  <2>1. \A c \in Copies : place'[c] # "free" => c \in sure /\ place[c] # "free"
    BY <1>1 DEF Survives
  <2>2. \A c \in Copies : place'[c] # "free" => content[c] \in Messages
    BY <1>0, <1>1, <2>1 DEF Stored, BrokerTypeOK
  <2>3. QED
    BY <1>1, <2>1, <2>2 DEF Stored
<1>9. Account'
  <2>1. SUFFICES ASSUME NEW m \in published', ~Justified(m)'
                 PROVE  Owed(m)'
    BY DEF Account
  <2>2. m \in Messages /\ Owed(m)
    BY <1>0, <1>4, <2>1, JustifiedStable DEF Account, TypeOK, BrokerTypeOK
  <2>3. PICK c \in Copies : content[c] = m /\ place[c] # "free"
    BY <1>0, <2>2 DEF Owed, Links, AtWork
  <2>4. Survives(c)
    <3>1. CASE Durable /\ Persistent
      BY <1>0, <2>3, <3>1 DEF Stored, Survives
    <3>2. CASE ~(Durable /\ Persistent)
      BY <1>4, <2>1, <2>2, <2>3, <3>2 DEF Justified
    <3>3. QED
      BY <3>1, <3>2
  <2>5. QED
    BY <1>1, <2>3, <2>4 DEF Owed
<1>10. QED
  BY <1>0, <1>5, <1>6, <1>7, <1>8, <1>9 DEF IInv

\* Opening a channel takes nothing from a task that already has one.
LEMMA OpeningInv ==
  ASSUME IInv, UNCHANGED <<brokerVars, taskVars>>, up \subseteq up', TypeOK'
  PROVE  IInv'
BY DEF IInv, brokerVars, taskVars, Links, SingleHolder, Held, AtWork, Refusing, Stored,
       Account, Owed, Justified

LEMMA ConsumerStepInv ==
  ASSUME IInv, NEW p \in Consumers, ConsumerStep(p), TypeOK'
  PROVE  IInv'
<1>1. CASE Start(p) \/ Reconnect(p)
  BY <1>1, OpeningInv DEF Start, Reconnect
<1>2. CASE StopListening(p)
  BY <1>2, StopListeningInv
<1>3. CASE Close(p) \/ ConnectionLost(p)
  BY <1>3, ChannelGoneInv DEF Close, ConnectionLost
<1>4. CASE Interrupt(p)
  BY <1>4, InterruptInv
<1>5. CASE Exit(p) \/ Crash(p)
  BY <1>5, EndProcessInv DEF Exit, Crash
<1>6. ASSUME NEW t \in Tasks, NEW c \in Copies, Deliver(p, t, c)
      PROVE  IInv'
  BY <1>6, DeliverInv
<1>7. QED
  BY <1>1, <1>2, <1>3, <1>4, <1>5, <1>6 DEF ConsumerStep

LEMMA InvNext == IInv /\ [Next]_vars => IInv'
<1>1. SUFFICES ASSUME IInv, [Next]_vars
               PROVE  IInv'
  OBVIOUS
<1>2. TypeOK'
  BY <1>1, TypeNext DEF IInv
<1>3. CASE Outside
  BY <1>1, <1>2, <1>3, OutsideInv
<1>4. ASSUME NEW t \in Tasks, TaskStep(t)
      PROVE  IInv'
  BY <1>1, <1>2, <1>4, TaskStepInv
<1>5. ASSUME NEW p \in Consumers, ConsumerStep(p)
      PROVE  IInv'
  BY <1>1, <1>2, <1>5, ConsumerStepInv
<1>6. CASE BrokerRestart
  BY <1>1, <1>2, <1>6, BrokerRestartInv
<1>7. CASE UNCHANGED vars
  BY <1>1, <1>2, <1>7, OpeningInv DEF vars, brokerVars, taskVars
<1>8. QED
  BY <1>1, <1>3, <1>4, <1>5, <1>6, <1>7 DEF Next, Rest

\* The strengthened invariant holds of every reachable state.
THEOREM Invariance == Spec => []IInv
<1>1. Init => IInv
  BY InvInit
<1>2. IInv /\ [Next]_vars => IInv'
  BY InvNext
<1>3. QED
  BY <1>1, <1>2, PTL DEF Spec

\* No interleaving of task steps, stops, interrupts, crashes, connection losses,
\* restarts and operator actions makes a message disappear without one of the
\* reasons in Justified.
THEOREM NoMessageLost == Spec => []NothingLost
<1>1. IInv => NothingLost
  BY DEF IInv, NothingLost, Account, Owed, Kept, Links, AtWork
<1>2. QED
  BY <1>1, Invariance, PTL

\* Tasks are abandoned by a program that is about to close its channel.
Leaving == \A t \in Tasks : pc[t] = "abandoned" => phase[home[t]] = "dying"

\* A task is abandoned by Interrupt alone, and ends with its program.
LEMMA LeavingNext ==
  ASSUME IInv, Leaving, [Next]_vars
  PROVE  Leaving'
<1>0. TypeOK /\ AtWork
  BY DEF IInv
<1>1. CASE Outside
  BY <1>1 DEF Outside, taskVars, Leaving
<1>2. ASSUME NEW t \in Tasks, TaskStep(t)
      PROVE  Leaving'
  <2>1. /\ phase' = phase
        /\ \A s \in Tasks : pc'[s] = "abandoned" => pc[s] = "abandoned" /\ home'[s] = home[s]
    BY <1>0, <1>2 DEF TaskStep, Spawn, Begin, CallbackReturns, CallbackRaises, AfterFailure,
       Woken, StoreCopy, RefuseCopy, Confirmed, Settle, Finish, OnlyStep, Goto, TypeOK
  <2>2. QED
    BY <2>1 DEF Leaving
<1>3. ASSUME NEW p \in Consumers, Start(p) \/ Reconnect(p)
      PROVE  Leaving'
  BY <1>0, <1>3 DEF Start, Reconnect, taskVars, TypeOK, AtWork, Leaving
<1>4. ASSUME NEW p \in Consumers, StopListening(p) \/ Close(p)
      PROVE  Leaving'
  BY <1>0, <1>4 DEF StopListening, Close, Finish, LoseLinks, TypeOK, AtWork, Leaving
<1>5. ASSUME NEW p \in Consumers, Interrupt(p)
      PROVE  Leaving'
  BY <1>0, <1>5 DEF Interrupt, Buffered, TasksOf, Cancelled, TypeOK, AtWork, Leaving
<1>6. ASSUME NEW p \in Consumers, Exit(p) \/ Crash(p)
      PROVE  Leaving'
  BY <1>0, <1>6 DEF Exit, Crash, EndProcess, Finish, TasksOf, TypeOK, AtWork, Leaving
<1>7. ASSUME NEW P, LoseLinks(P), UNCHANGED phase
      PROVE  Leaving'
  BY <1>0, <1>7 DEF LoseLinks, TypeOK, Leaving
<1>8. ASSUME NEW p \in Consumers, NEW t \in Tasks, NEW c \in Copies, Deliver(p, t, c)
      PROVE  Leaving'
  BY <1>0, <1>8 DEF Deliver, Goto, TypeOK, Leaving
<1>9. CASE UNCHANGED vars
  BY <1>9 DEF vars, Leaving
<1>10. QED
  BY <1>1, <1>2, <1>3, <1>4, <1>5, <1>6, <1>7, <1>8, <1>9
     DEF Next, ConsumerStep, ConnectionLost, BrokerRestart, Rest

\* Every unacknowledged delivery has exactly one task, which is going to settle it
\* unless the program is about to close the channel.
THEOREM DeliveriesOwned == Spec => []EveryDeliveryOwned
<1>1. IInv /\ Leaving => EveryDeliveryOwned
  <2>1. SUFFICES ASSUME IInv, Leaving, NEW c \in Copies, place[c] \in Consumers
                 PROVE  /\ \E t \in TasksOf(place[c]) :
                             /\ copy[t] = c /\ pc[t] # "idle"
                             /\ pc[t] = "abandoned" => phase[place[c]] = "dying"
                        /\ \A s, t \in Tasks : copy[s] = c /\ copy[t] = c => s = t
    BY DEF EveryDeliveryOwned
  <2>2. PICK t \in Tasks : copy[t] = c
    BY <2>1 DEF IInv, Held
  <2>3. t \in TasksOf(place[c]) /\ pc[t] # "idle"
    BY <2>1, <2>2 DEF IInv, Links, TasksOf
  <2>4. pc[t] = "abandoned" => phase[place[c]] = "dying"
    BY <2>1, <2>3 DEF Leaving, TasksOf
  <2>5. QED
    BY <2>1, <2>2, <2>3, <2>4 DEF IInv, SingleHolder
<1>2. Init => Leaving
  BY DEF Init, Leaving
<1>3. IInv /\ Leaving /\ [Next]_vars => Leaving'
  BY LeavingNext
<1>4. QED
  BY <1>1, <1>2, <1>3, Invariance, PTL DEF Spec

-----------------------------------------------------------------------------
(***************************************************************************)
(* Refinement.  What IInv does not say is that consumers and broker never  *)
(* hold what nobody published; with that, a step is either the acceptance  *)
(* of one message or one that keeps every published message until it may   *)
(* go.                                                                     *)
(***************************************************************************)

\* The broker stores, and the tasks work on, published messages only.
Known ==
  /\ \A c \in Copies : place[c] = "free" => content[c] = Nothing
  /\ \A c \in Copies : place[c] # "free" => content[c] \in published
  /\ \A t \in Tasks : pc[t] # "idle" => body[t] \in published

\* Nothing new is stored, and no task takes up a message.
LEMMA KnownShrinks ==
  ASSUME Known, published \subseteq published',
         \A c \in Copies : \/ place'[c] = "free" /\ content'[c] = Nothing
                           \/ place[c] # "free" /\ content'[c] = content[c] /\ place'[c] # "free",
         \A t \in Tasks : \/ pc'[t] = "idle"
                          \/ pc[t] # "idle" /\ body'[t] = body[t]
  PROVE  Known'
BY DEF Known

\* Relocating copies only ever forgets those that are nowhere.
LEMMA KnownRelocate ==
  ASSUME Known, BrokerTypeOK, published' = published,
         NEW to \in [Copies -> Places], Relocate(to),
         \A c \in Copies : place[c] = "free" => to[c] = "free",
         \A t \in Tasks : \/ pc'[t] = "idle"
                          \/ pc[t] # "idle" /\ body'[t] = body[t]
  PROVE  Known'
<1>1. \A c \in Copies : \/ place'[c] = "free" /\ content'[c] = Nothing
                        \/ place[c] # "free" /\ content'[c] = content[c] /\ place'[c] # "free"
  BY DEF Relocate
<1>2. QED
  BY <1>1, KnownShrinks

LEMMA KnownTaskStep ==
  ASSUME IInv, Known, NEW t \in Tasks, TaskStep(t)
  PROVE  Known'
<1>0. TypeOK /\ BrokerTypeOK /\ Links /\ AtWork
  BY DEF IInv, TypeOK
<1>1. CASE StoreCopy(t)
  <2>1. PICK d \in Copies : Store(d, body[t], "garbage", TRUE)
    BY <1>1 DEF StoreCopy
  <2>2. /\ place[d] = "free" /\ place'[d] = "garbage" /\ content'[d] = body[t]
        /\ \A c \in Copies : c # d => place'[c] = place[c] /\ content'[c] = content[c]
    BY <1>0, <2>1 DEF Store, BrokerTypeOK
  <2>3. QED
    BY <1>0, <1>1, <2>2 DEF StoreCopy, Goto, Known, TypeOK
<1>2. CASE Settle(t)
  <2>1. \A u \in Tasks : \/ pc'[u] = "idle"
                         \/ pc[u] # "idle" /\ body'[u] = body[u]
    BY <1>2 DEF Settle, Finish
  <2>2. CASE copy[t] = Nothing
    BY <1>2, <2>1, <2>2 DEF Settle, storeVars, Known
  <2>3. CASE copy[t] # Nothing
    <3>1. /\ copy[t] \in Copies /\ place[copy[t]] # "free" /\ published' = published
          /\ Verdict(pc[t]) \in Places /\ MoveCopy(copy[t], Verdict(pc[t]))
      BY <1>0, <1>2, <2>3 DEF TypeOK, Links, AtWork, Verdict, Places, Settle
    <3>2. /\ place' = [place EXCEPT ![copy[t]] = Verdict(pc[t])]
          /\ \A d \in Copies : place'[d] # "free" => content'[d] = content[d]
          /\ \A d \in Copies : place'[d] = "free" => content'[d] = Nothing
      BY <1>0, <3>1, MoveCopyEffect
    <3>3. \A d \in Copies : place[d] = "free" => place'[d] = "free"
      BY <3>1, <3>2 DEF BrokerTypeOK
    <3>4. QED
      BY <2>1, <3>1, <3>2, <3>3, KnownShrinks
  <2>4. QED
    BY <2>2, <2>3
<1>3. CASE RefuseCopy(t)
  BY <1>0, <1>3 DEF RefuseCopy, Goto, Known, TypeOK, storeVars
<1>4. CASE ~StoreCopy(t) /\ ~Settle(t) /\ ~RefuseCopy(t)
  <2>1. /\ UNCHANGED <<body, published, place, content>> /\ pc[t] # "idle"
        /\ \A u \in Tasks : u # t => pc'[u] = pc[u]
    BY <1>0, <1>4 DEF TaskStep, Spawn, Begin, CallbackReturns, CallbackRaises, Woken,
                      Confirmed, OnlyStep, Goto, storeVars, TypeOK
  <2>2. QED
    BY <2>1 DEF Known
<1>5. QED
  BY <1>1, <1>2, <1>3, <1>4

LEMMA KnownConsumerStep ==
  ASSUME IInv, Known, NEW p \in Consumers, ConsumerStep(p)
  PROVE  Known'
<1>0. TypeOK /\ BrokerTypeOK /\ Links /\ AtWork
  BY DEF IInv, TypeOK
<1>1. CASE Start(p) \/ Reconnect(p)
  BY <1>1 DEF Start, Reconnect, Known, brokerVars, taskVars
<1>2. ASSUME Relocate(Requeued(p)), published' = published,
             \A t \in Tasks : \/ pc'[t] = "idle"
                              \/ pc[t] # "idle" /\ body'[t] = body[t]
      PROVE  Known'
  BY <1>0, <1>2, RequeuedType, KnownRelocate DEF Requeued
<1>3. CASE Close(p) \/ ConnectionLost(p)
  BY <1>0, <1>2, <1>3 DEF Close, ConnectionLost, LoseLinks, TypeOK
<1>4. CASE Exit(p) \/ Crash(p)
  BY <1>2, <1>4 DEF Exit, Crash, EndProcess, Finish
<1>5. ASSUME CloseIterator(p), published' = published,
             \A t \in Tasks : \/ pc'[t] = "idle"
                              \/ pc[t] # "idle" /\ body'[t] = body[t]
      PROVE  Known'
  <2> DEFINE to == [c \in Copies |->
                      IF \E t \in Buffered(p) : copy[t] = c THEN "main" ELSE place[c]]
  <2>1. to \in [Copies -> Places] /\ Relocate(to)
    BY <1>0, <1>5 DEF BrokerTypeOK, Places, CloseIterator
  <2>2. \A c \in Copies : place[c] = "free" => to[c] = "free"
    BY <1>0 DEF Buffered, TasksOf, Links, AtWork
  <2>3. QED
    BY <1>0, <1>5, <2>1, <2>2, KnownRelocate
<1>6. CASE StopListening(p)
  BY <1>5, <1>6 DEF StopListening, Finish
<1>7. CASE Interrupt(p)
  <2>1. \A t \in Tasks : \/ pc'[t] = "idle"
                         \/ pc[t] # "idle" /\ body'[t] = body[t]
    BY <1>7 DEF Interrupt, Cancelled, Buffered, TasksOf
  <2>2. QED
    BY <1>5, <1>7, <2>1 DEF Interrupt
<1>8. ASSUME NEW t \in Tasks, NEW c \in Copies, Deliver(p, t, c)
      PROVE  Known'
  <2>1. /\ place[c] = "main" /\ published' = published
        /\ \A d \in Copies : place'[d] = IF d = c THEN p ELSE place[d]
        /\ \A d \in Copies : place'[d] # "free" => content'[d] = content[d]
        /\ \A d \in Copies : place'[d] = "free" => content'[d] = Nothing
    <3>1. p \in Places /\ MoveCopy(c, p) /\ place[c] = "main" /\ published' = published
      BY <1>8 DEF Deliver, Deliverable, Places
    <3>2. QED
      BY <1>0, <3>1, MoveCopyEffect DEF BrokerTypeOK
  <2>2. /\ \A u \in Tasks : u # t => pc'[u] = pc[u] /\ body'[u] = body[u]
        /\ body'[t] = content[c]
    BY <1>0, <1>8 DEF Deliver, Goto, TypeOK
  <2>3. QED
    BY <1>0, <2>1, <2>2 DEF Known
<1>9. QED
  BY <1>1, <1>3, <1>4, <1>6, <1>7, <1>8 DEF ConsumerStep

LEMMA KnownNext ==
  ASSUME IInv, Known, [Next]_vars
  PROVE  Known'
<1>0. TypeOK /\ BrokerTypeOK /\ Links /\ AtWork
  BY DEF IInv, TypeOK
<1>1. ASSUME NEW m \in Messages, Publish(m), UNCHANGED taskVars
      PROVE  Known'
  <2>1. PICK d \in Copies : Store(d, m, "main", Persistent)
    BY <1>1 DEF Publish
  <2>2. /\ place'[d] = "main" /\ content'[d] = m
        /\ \A c \in Copies : c # d => place'[c] = place[c] /\ content'[c] = content[c]
    BY <1>0, <2>1 DEF Store, BrokerTypeOK
  <2>3. QED
    BY <1>1, <2>2 DEF Publish, Known, taskVars
<1>2. ASSUME NEW c \in Copies, ReplayGarbage(c) \/ DeleteGarbage(c), UNCHANGED taskVars
      PROVE  Known'
  <2>1. PICK q \in {"main", "free"} : MoveCopy(c, q)
    BY <1>2 DEF ReplayGarbage, DeleteGarbage
  <2>2. /\ place[c] = "garbage" /\ published' = published
        /\ [place EXCEPT ![c] = q] \in [Copies -> Places]
    BY <1>0, <1>2 DEF ReplayGarbage, DeleteGarbage, Places, BrokerTypeOK
  <2>3. QED
    BY <1>0, <1>2, <2>1, <2>2, KnownShrinks, MoveCopyEffect
       DEF taskVars, Known, Places, BrokerTypeOK
<1>3. ASSUME NEW t \in Tasks, TaskStep(t)
      PROVE  Known'
  BY <1>3, KnownTaskStep
<1>4. ASSUME NEW p \in Consumers, ConsumerStep(p)
      PROVE  Known'
  BY <1>4, KnownConsumerStep
<1>5. CASE BrokerRestart
  <2>1. /\ \A c \in Copies : Survives(c) =>
             place'[c] \in {"main", "garbage"} /\ content'[c] = content[c]
        /\ \A c \in Copies : ~Survives(c) => place'[c] = "free" /\ content'[c] = Nothing
    BY <1>0, <1>5, RestartEffect DEF BrokerRestart
  <2>2. QED
    BY <1>0, <1>5, <2>1, KnownShrinks
       DEF BrokerRestart, RestartStore, LoseLinks, Survives, TypeOK
<1>6. CASE UNCHANGED vars
  BY <1>6 DEF vars, Known
<1>7. QED
  BY <1>1, <1>2, <1>3, <1>4, <1>5, <1>6 DEF Next, Outside, Rest

\* A step publishes one message, or none and forgets nothing that has happened.
LEMMA History ==
  ASSUME IInv, Known, [Next]_vars
  PROVE  \/ \E m \in Messages : Publish(m)
         \/ published' = published /\ \A m \in Messages : fate[m] \subseteq fate'[m]
<1>0. TypeOK /\ BrokerTypeOK /\ AtWork
  BY DEF IInv, TypeOK
<1>1. ASSUME NEW m \in Messages, NEW e, Witness(m, e), published' = published
      PROVE  published' = published /\ \A n \in Messages : fate[n] \subseteq fate'[n]
  BY <1>0, <1>1, WitnessGrows
<1>2. CASE Outside /\ ~\E m \in Messages : Publish(m)
  <2>1. PICK c \in Copies : ReplayGarbage(c) \/ DeleteGarbage(c)
    BY <1>2 DEF Outside
  <2>2. content[c] \in Messages
    BY <1>0, <2>1 DEF ReplayGarbage, DeleteGarbage, Known, BrokerTypeOK
  <2>3. QED
    BY <1>1, <2>1, <2>2 DEF ReplayGarbage, DeleteGarbage
<1>3. ASSUME NEW t \in Tasks, TaskStep(t)
      PROVE  published' = published /\ \A m \in Messages : fate[m] \subseteq fate'[m]
  <2>1. CASE CallbackReturns(t) \/ CallbackRaises(t) \/ RefuseCopy(t)
    BY <1>0, <1>1, <2>1
       DEF CallbackReturns, CallbackRaises, RefuseCopy, OnlyStep, AtWork
  <2>2. QED
    BY <1>3, <2>1 DEF TaskStep, Spawn, Begin, Woken, StoreCopy, Confirmed, Settle, OnlyStep
<1>4. ASSUME NEW p \in Consumers, ConsumerStep(p)
      PROVE  published' = published /\ \A m \in Messages : fate[m] \subseteq fate'[m]
  <2>1. CASE Interrupt(p)
    BY <2>1 DEF Interrupt
  <2>2. QED
    BY <1>4, <2>1 DEF ConsumerStep, Start, StopListening, Close, Exit, Crash, EndProcess,
                      ConnectionLost, Reconnect, Deliver, brokerVars
<1>5. CASE BrokerRestart
  BY <1>0, <1>5, RestartEffect DEF BrokerRestart, RestartStore
<1>6. QED
  BY <1>2, <1>3, <1>4, <1>5 DEF Next, Rest, vars

\* The broker stores, and the tasks work on, published messages only.
LEMMA AlwaysKnown == Spec => []Known
<1>1. Init => Known
  BY DEF Init, BrokerInit, Known
<1>2. IInv /\ Known /\ [Next]_vars => Known'
  BY KnownNext
<1>3. QED
  BY <1>1, <1>2, Invariance, PTL DEF Spec

\* The detached tasks, the channel recovery and the cancellations still implement
\* at-least-once delivery.
THEOREM AtLeastOnceImplemented == Spec => AtLeastOnceDelivery
<1>1. Init => Contract!Init
  BY DEF Init, BrokerInit, Contract!Init, Kept
<1>2. IInv /\ IInv' /\ Known /\ Known' /\ [Next]_vars => [Contract!Next]_(Contract!vars)
  <2>1. SUFFICES ASSUME IInv, IInv', Known, Known', [Next]_vars
                 PROVE  Contract!Next
    OBVIOUS
  <2>2. /\ \A m \in Messages : Kept(m) => m \in published
        /\ \A m \in Messages : Kept(m)' => m \in published'
        /\ published \subseteq Messages
    BY <2>1 DEF IInv, TypeOK, BrokerTypeOK, Known, Kept
  <2>3. \A m \in published' : Kept(m)' \/ Justified(m)'
    BY <2>1 DEF IInv, Account, Owed, Kept, Links, AtWork
  <2>4. ASSUME NEW m \in Messages, Publish(m)
        PROVE  Contract!Accept(m)
    <3>1. PICK d \in Copies : Store(d, m, "main", Persistent)
      BY <2>4 DEF Publish
    <3>2. /\ place[d] = "free" /\ place'[d] = "main" /\ content'[d] = m
          /\ \A c \in Copies : c # d => place'[c] = place[c] /\ content'[c] = content[c]
      BY <2>1, <3>1 DEF Store, IInv, TypeOK, BrokerTypeOK
    <3>3. m \notin published /\ published' = published \cup {m} /\ fate' = fate
      BY <2>4 DEF Publish
    <3>4. \A n \in Messages : Kept(n)' <=> n = m \/ Kept(n)
      BY <3>2 DEF Kept
    <3>5. \A n \in Messages : Justified(n)' <=> Justified(n)
      BY <3>3 DEF Justified
    <3>6. QED
      BY <2>2, <3>3, <3>4, <3>5 DEF Contract!Accept
  <2>5. CASE published' = published /\ \A m \in Messages : fate[m] \subseteq fate'[m]
    <3>1. \A m \in Messages : Justified(m) => Justified(m)'
      BY <2>5, JustifiedStable
    <3>2. Contract!Progress
      BY <2>2, <2>3, <2>5, <3>1 DEF Contract!Progress
    <3>3. QED
      BY <3>2 DEF Contract!Next
  <2>6. QED
    BY <2>1, <2>4, <2>5, History DEF Contract!Next
<1>3. QED
  BY <1>1, <1>2, Invariance, AlwaysKnown, PTL DEF Spec, AtLeastOnceDelivery, Contract!Spec

-----------------------------------------------------------------------------
(***************************************************************************)
(* One copy.  While nothing has gone wrong no consumer has stopped and no  *)
(* task has lost its delivery, so a second copy appears only from the      *)
(* publish of the garbage copy to the ack of the original.                 *)
(***************************************************************************)

Calm ==
  faults = 0 =>
    /\ \A p \in Consumers : phase[p] \in {"off", "listening"}
    /\ \A t \in Tasks : pc[t] # "idle" => copy[t] # Nothing

LEMMA FaultCounts ==
  ASSUME TypeOK, [Next]_vars, faults' = 0
  PROVE  faults = 0 /\ ~Fault
<1>1. faults = 0 \/ Fault
  BY DEF Next, Outside, TaskStep, Spawn, Begin, CallbackReturns, CallbackRaises, Woken,
     StoreCopy, RefuseCopy, Confirmed, Settle, OnlyStep, ConsumerStep, Start, StopListening,
     Close, Interrupt, Exit, Crash, ConnectionLost, Reconnect, Deliver, BrokerRestart,
     Rest, vars
<1>2. QED
  BY <1>1 DEF Fault, TypeOK

\* The steps that happen when nothing goes wrong: no channel is lost, nothing is
\* cancelled, and no process ends.
LEMMA CalmSteps ==
  ASSUME TypeOK, Calm, [Next]_vars, faults' = 0
  PROVE  \/ Outside
         \/ \E t \in Tasks : TaskStep(t)
         \/ \E p \in Consumers : Start(p) \/ Reconnect(p)
         \/ \E p \in Consumers, t \in Tasks, c \in Copies : Deliver(p, t, c)
         \/ UNCHANGED vars
BY FaultCounts DEF Calm, Next, Rest, ConsumerStep, StopListening, Close, Interrupt, Exit,
   Crash, ConnectionLost, BrokerRestart

LEMMA CalmNext ==
  ASSUME IInv, Calm, [Next]_vars
  PROVE  Calm'
<1>0. TypeOK /\ BrokerTypeOK
  BY DEF IInv, TypeOK
<1>1. SUFFICES ASSUME faults' = 0
               PROVE  /\ \A p \in Consumers : phase'[p] \in {"off", "listening"}
                      /\ \A t \in Tasks : pc'[t] # "idle" => copy'[t] # Nothing
  BY DEF Calm
<1>2. faults = 0
  BY <1>0, <1>1, FaultCounts
<1>3. ASSUME NEW t \in Tasks, TaskStep(t)
      PROVE  /\ phase' = phase
             /\ \A u \in Tasks : pc'[u] # "idle" => pc[u] # "idle" /\ copy'[u] = copy[u]
  BY <1>0, <1>3 DEF TaskStep, Spawn, Begin, CallbackReturns, CallbackRaises, Woken, StoreCopy,
     RefuseCopy, Confirmed, Settle, OnlyStep, Goto, Finish, TypeOK
<1>4. ASSUME NEW p \in Consumers, NEW t \in Tasks, NEW c \in Copies, Deliver(p, t, c)
      PROVE  /\ phase' = phase
             /\ \A u \in Tasks : u # t => pc'[u] = pc[u] /\ copy'[u] = copy[u]
             /\ copy'[t] # Nothing
  BY <1>0, <1>4 DEF Deliver, Goto, TypeOK
<1>5. CASE Outside \/ UNCHANGED vars
  BY <1>2, <1>5 DEF Calm, Outside, vars, taskVars
<1>6. ASSUME NEW p \in Consumers, Start(p) \/ Reconnect(p)
      PROVE  /\ \A q \in Consumers : phase'[q] = phase[q] \/ phase'[q] = "listening"
             /\ UNCHANGED <<pc, copy>>
  BY <1>0, <1>6 DEF Start, Reconnect, taskVars, TypeOK
<1>7. QED
  BY <1>0, <1>1, <1>2, <1>3, <1>4, <1>5, <1>6, CalmSteps DEF Calm

\* A step that stores nothing new, and that ends an acknowledgement only by
\* taking its copy away, leaves no message in one place too many.
LEMMA OneCopyStep ==
  ASSUME OneCopy, faults = 0,
         \A c \in Copies : content'[c] = content[c] \/ content'[c] = Nothing,
         \A t \in Tasks : copy[t] \in Copies /\ pc[t] \in {"confirming", "acking"} =>
           \/ copy'[t] = copy[t] /\ pc'[t] \in {"confirming", "acking"}
           \/ content'[copy[t]] = Nothing
  PROVE  OneCopy'
<1>1. SUFFICES ASSUME NEW c \in Copies, NEW d \in Copies,
                      c # d, content'[c] # Nothing, content'[c] = content'[d]
               PROVE  \E t \in Tasks : copy'[t] \in {c, d} /\ pc'[t] \in {"confirming", "acking"}
  BY DEF OneCopy
<1>2. PICK t \in Tasks : copy[t] \in {c, d} /\ pc[t] \in {"confirming", "acking"}
  BY <1>1 DEF OneCopy
<1>3. QED
  BY <1>1, <1>2

\* The task that stores the garbage copy holds the original; if a third copy is
\* about, another task holds that one to acknowledge it.
LEMMA StoreCopyOne ==
  ASSUME IInv, Calm, OneCopy, faults = 0, NEW t \in Tasks, StoreCopy(t)
  PROVE  OneCopy'
<1>0. TypeOK /\ BrokerTypeOK /\ AtWork /\ Links /\ SingleHolder
  BY DEF IInv, TypeOK
<1>1. PICK e \in Copies : Store(e, body[t], "garbage", TRUE)
  BY DEF StoreCopy
<1>2. /\ pc[t] = "moving" /\ pc'[t] = "confirming" /\ copy' = copy
      /\ \A u \in Tasks : u # t => pc'[u] = pc[u]
      /\ copy[t] \in Copies /\ content[copy[t]] = body[t] /\ body[t] # Nothing
  BY <1>0 DEF StoreCopy, Goto, TypeOK, AtWork, Links, Calm
<1>3. /\ content'[e] = body[t]
      /\ \A c \in Copies : c # e => content'[c] = content[c]
  BY <1>0, <1>1 DEF Store, BrokerTypeOK
<1>4. SUFFICES ASSUME NEW c \in Copies, NEW d \in Copies,
                      c # d, c # e, content'[c] # Nothing, content'[c] = content'[d]
               PROVE  \E u \in Tasks : copy[u] \in {c, d} /\ pc'[u] \in {"confirming", "acking"}
  BY <1>2 DEF OneCopy
<1>5. CASE d # e
  <2>1. PICK u \in Tasks : copy[u] \in {c, d} /\ pc[u] \in {"confirming", "acking"}
    BY <1>3, <1>4, <1>5 DEF OneCopy
  <2>2. QED
    BY <1>2, <2>1
<1>6. CASE d = e
  <2>1. content[c] = content[copy[t]]
    BY <1>2, <1>3, <1>4, <1>6
  <2>2. CASE c = copy[t]
    BY <1>2, <2>2
  <2>3. CASE c # copy[t]
    <3>1. PICK u \in Tasks : copy[u] \in {c, copy[t]} /\ pc[u] \in {"confirming", "acking"}
      BY <1>2, <1>3, <1>4, <2>1, <2>3 DEF OneCopy
    <3>2. copy[u] # copy[t]
      BY <1>0, <1>2, <3>1 DEF SingleHolder
    <3>3. QED
      BY <1>2, <3>1, <3>2
  <2>4. QED
    BY <2>2, <2>3
<1>7. QED
  BY <1>5, <1>6

LEMMA OneCopyNext ==
  ASSUME IInv, Known, Calm, OneCopy, [Next]_vars
  PROVE  OneCopy'
<1>0. TypeOK /\ BrokerTypeOK /\ AtWork /\ Links
  BY DEF IInv, TypeOK
<1>1. SUFFICES ASSUME faults' = 0
               PROVE  OneCopy'
  BY DEF OneCopy
<1>2. faults = 0
  BY <1>0, <1>1, FaultCounts
<1>3. ASSUME NEW m \in Messages, Publish(m), UNCHANGED taskVars
      PROVE  OneCopy'
  <2>1. PICK e \in Copies : Store(e, m, "main", Persistent)
    BY <1>3 DEF Publish
  <2>2. /\ content'[e] = m /\ \A c \in Copies : content[c] # m
        /\ \A c \in Copies : c # e => content'[c] = content[c]
    BY <1>0, <1>3, <2>1 DEF Publish, Store, Known, BrokerTypeOK
  <2>3. QED
    BY <1>2, <1>3, <2>2 DEF OneCopy, taskVars
<1>4. ASSUME NEW c \in Copies, ReplayGarbage(c) \/ DeleteGarbage(c), UNCHANGED taskVars
      PROVE  OneCopy'
  <2>1. PICK q \in {"main", "free"} : MoveCopy(c, q)
    BY <1>4 DEF ReplayGarbage, DeleteGarbage
  <2>2. \A d \in Copies : content'[d] = content[d] \/ content'[d] = Nothing
    BY <1>0, <2>1, MoveCopyEffect DEF Places
  <2>3. QED
    BY <1>2, <1>4, <2>2, OneCopyStep DEF taskVars
<1>5. ASSUME NEW t \in Tasks, StoreCopy(t)
      PROVE  OneCopy'
  BY <1>2, <1>5, StoreCopyOne
<1>6. ASSUME NEW t \in Tasks, Settle(t)
      PROVE  OneCopy'
  <2>1. /\ copy[t] \in Copies /\ Verdict(pc[t]) \in Places /\ MoveCopy(copy[t], Verdict(pc[t]))
        /\ pc[t] \in {"confirming", "acking"} => Verdict(pc[t]) = "free"
        /\ \A u \in Tasks : u # t => copy'[u] = copy[u] /\ pc'[u] = pc[u]
    BY <1>0, <1>2, <1>6 DEF Settle, Settling, Calm, Verdict, Places, Finish, TypeOK
  <2>2. /\ place' = [place EXCEPT ![copy[t]] = Verdict(pc[t])]
        /\ \A d \in Copies : content'[d] = content[d] \/ content'[d] = Nothing
        /\ \A d \in Copies : place'[d] = "free" => content'[d] = Nothing
    BY <1>0, <2>1, MoveCopyEffect DEF BrokerTypeOK
  <2>3. pc[t] \in {"confirming", "acking"} => content'[copy[t]] = Nothing
    BY <1>0, <2>1, <2>2 DEF BrokerTypeOK
  <2>4. QED
    BY <1>2, <2>1, <2>2, <2>3, OneCopyStep
<1>7. ASSUME NEW t \in Tasks, TaskStep(t), ~StoreCopy(t), ~Settle(t)
      PROVE  OneCopy'
  <2>1. /\ UNCHANGED <<content, copy>>
        /\ \A u \in Tasks : u # t => pc'[u] = pc[u]
        /\ pc[t] \in {"confirming", "acking"} => pc'[t] = "acking"
    BY <1>0, <1>7 DEF TaskStep, Spawn, Begin, CallbackReturns, CallbackRaises, Woken,
       RefuseCopy, Confirmed, OnlyStep, Goto, storeVars, TypeOK
  <2>2. QED
    BY <1>2, <2>1, OneCopyStep
<1>8. ASSUME NEW p \in Consumers, Start(p) \/ Reconnect(p)
      PROVE  OneCopy'
  BY <1>2, <1>8, OneCopyStep DEF Start, Reconnect, brokerVars, taskVars
<1>9. ASSUME NEW p \in Consumers, NEW t \in Tasks, NEW c \in Copies, Deliver(p, t, c)
      PROVE  OneCopy'
  <2>1. \A d \in Copies : content'[d] = content[d] \/ content'[d] = Nothing
    BY <1>0, <1>9, MoveCopyEffect DEF Deliver, Places
  <2>2. /\ pc[t] = "idle"
        /\ \A u \in Tasks : u # t => pc'[u] = pc[u] /\ copy'[u] = copy[u]
    BY <1>0, <1>9 DEF Deliver, Goto, TypeOK
  <2>3. QED
    BY <1>2, <2>1, <2>2, OneCopyStep
<1>10. CASE UNCHANGED vars
  BY <1>10 DEF vars, OneCopy
<1>11. QED
  BY <1>0, <1>1, <1>3, <1>4, <1>5, <1>6, <1>7, <1>8, <1>9, <1>10, CalmSteps DEF Outside

\* Without faults a message is in two places only while its garbage copy is
\* stored and its original not yet acknowledged.
THEOREM SecondCopyTransient == Spec => []OneCopy
<1>1. Init => Calm /\ OneCopy
  BY DEF Init, BrokerInit, Calm, OneCopy
<1>2. IInv /\ Known /\ Calm /\ OneCopy /\ [Next]_vars => Calm' /\ OneCopy'
  BY CalmNext, OneCopyNext
<1>3. QED
  BY <1>1, <1>2, Invariance, AlwaysKnown, PTL DEF Spec

-----------------------------------------------------------------------------
(***************************************************************************)
(* Backpressure.  Busy tasks either hold one of the at most Prefetch       *)
(* deliveries the broker waits for, or lost theirs with a channel.  The    *)
(* strengthening counts the second kind: at most Prefetch for each fault,  *)
(* where a consumer that has stopped has one fault in hand for the close   *)
(* that is still to come.                                                  *)
(***************************************************************************)

\* The broker counts what it has pushed to a channel against prefetch_count.
Credit == \A p \in Consumers : IsFiniteSet(Unacked(p)) /\ Cardinality(Unacked(p)) <= Prefetch

Linked(p) == {t \in TasksOf(p) : copy[t] # Nothing}
Stale(p)  == {t \in TasksOf(p) : pc[t] # "idle" /\ copy[t] = Nothing}

\* How many times p may have lost its channel so far.
Losses(p) == IF phase[p] = "stopped" THEN faults - 1 ELSE faults

StraysOf(p) ==
  /\ Losses(p) >= 0
  /\ IsFiniteSet(Stale(p))
  /\ Cardinality(Stale(p)) <= Prefetch * Losses(p)
Strays == \A p \in Consumers : StraysOf(p)

\* Each task that can settle a delivery settles one of its own.
LEMMA LinkedBound ==
  ASSUME IInv, Credit, NEW p \in Consumers
  PROVE  IsFiniteSet(Linked(p)) /\ Cardinality(Linked(p)) <= Prefetch
<1> DEFINE f == [t \in Linked(p) |-> copy[t]]
<1>1. f \in Injection(Linked(p), Unacked(p))
  <2>1. f \in [Linked(p) -> Unacked(p)]
    BY DEF IInv, TypeOK, Links, Linked, Unacked, TasksOf
  <2>2. \A s, t \in Linked(p) : f[s] = f[t] => s = t
    BY DEF IInv, SingleHolder, Linked, TasksOf
  <2>3. QED
    BY <2>1, <2>2 DEF Injection, IsInjective
<1>2. /\ IsFiniteSet(Unacked(p)) /\ Cardinality(Unacked(p)) <= Prefetch
      /\ Cardinality(Unacked(p)) \in Nat
  BY FS_CardinalityType DEF Credit
<1>3. IsFiniteSet(Linked(p)) /\ Cardinality(Linked(p)) <= Cardinality(Unacked(p))
  BY <1>1, <1>2, FS_Injection
<1>4. Cardinality(Linked(p)) \in Nat
  BY <1>3, FS_CardinalityType
<1>5. QED
  BY <1>2, <1>3, <1>4

\* Only a delivery adds to what the broker waits for.
LEMMA CreditShrinks ==
  ASSUME Credit, \A c \in Copies : place'[c] = place[c] \/ place'[c] \notin Consumers
  PROVE  Credit'
<1>1. SUFFICES ASSUME NEW p \in Consumers
               PROVE  IsFiniteSet(Unacked(p)') /\ Cardinality(Unacked(p)') <= Prefetch
  BY DEF Credit
<1>2. Unacked(p)' \in SUBSET Unacked(p)
  BY DEF Unacked
<1>3. IsFiniteSet(Unacked(p)) /\ Cardinality(Unacked(p)) <= Prefetch
  BY DEF Credit
<1>4. IsFiniteSet(Unacked(p)') /\ Cardinality(Unacked(p)') <= Cardinality(Unacked(p))
  BY <1>2, <1>3, FS_Subset
<1>5. Cardinality(Unacked(p)') \in Nat /\ Cardinality(Unacked(p)) \in Nat
  BY <1>3, <1>4, FS_CardinalityType
<1>6. QED
  BY <1>3, <1>4, <1>5

LEMMA CreditDeliver ==
  ASSUME IInv, Credit, NEW p \in Consumers, NEW t \in Tasks, NEW c \in Copies, Deliver(p, t, c)
  PROVE  Credit'
<1>1. /\ \A d \in Copies : place'[d] = IF d = c THEN p ELSE place[d]
      /\ Cardinality(Unacked(p)) < Prefetch
  <2>1. BrokerTypeOK /\ p \in Places /\ MoveCopy(c, p) /\ Cardinality(Unacked(p)) < Prefetch
    BY DEF IInv, TypeOK, Deliver, Deliverable, Places
  <2>2. place' = [place EXCEPT ![c] = p]
    BY <2>1, MoveCopyEffect
  <2>3. QED
    BY <2>1, <2>2 DEF BrokerTypeOK
<1>2. SUFFICES ASSUME NEW q \in Consumers
               PROVE  IsFiniteSet(Unacked(q)') /\ Cardinality(Unacked(q)') <= Prefetch
  BY DEF Credit
<1>3. IsFiniteSet(Unacked(q)) /\ Cardinality(Unacked(q)) <= Prefetch
  BY DEF Credit
<1>4. Cardinality(Unacked(q)) \in Nat
  BY <1>3, FS_CardinalityType
<1>5. CASE q = p
  <2>1. Unacked(q)' = Unacked(q) \cup {c}
    BY <1>1, <1>5 DEF Unacked
  <2>2. /\ IsFiniteSet(Unacked(q) \cup {c})
        /\ Cardinality(Unacked(q) \cup {c}) = IF c \in Unacked(q) THEN Cardinality(Unacked(q))
                                              ELSE Cardinality(Unacked(q)) + 1
    BY <1>3, FS_AddElement
  <2>3. QED
    BY <1>1, <1>3, <1>4, <1>5, <2>1, <2>2
<1>6. CASE q # p
  <2>1. Unacked(q)' \in SUBSET Unacked(q)
    BY <1>1, <1>6 DEF Unacked
  <2>2. IsFiniteSet(Unacked(q)') /\ Cardinality(Unacked(q)') <= Cardinality(Unacked(q))
    BY <1>3, <2>1, FS_Subset
  <2>3. QED
    BY <1>3, <1>4, <2>2, FS_CardinalityType
<1>7. QED
  BY <1>5, <1>6

LEMMA CreditNext ==
  ASSUME IInv, Credit, [Next]_vars
  PROVE  Credit'
<1>0. TypeOK /\ BrokerTypeOK /\ Links /\ AtWork
  BY DEF IInv, TypeOK
<1>1. ASSUME NEW m \in Messages, Publish(m)
      PROVE  Credit'
  BY <1>0, <1>1, CreditShrinks DEF Publish, Store, BrokerTypeOK
<1>2. ASSUME NEW c \in Copies, NEW q \in {"main", "free"}, MoveCopy(c, q)
      PROVE  Credit'
  <2>1. place' = [place EXCEPT ![c] = q]
    BY <1>2 DEF MoveCopy, Relocate
  <2>2. QED
    BY <1>0, <2>1, CreditShrinks DEF BrokerTypeOK
<1>3. ASSUME NEW t \in Tasks, TaskStep(t)
      PROVE  Credit'
  <2>1. CASE StoreCopy(t)
    BY <1>0, <2>1, CreditShrinks DEF StoreCopy, Store, BrokerTypeOK
  <2>2. CASE Settle(t)
    <3>1. Verdict(pc[t]) \in {"main", "free"} /\ copy[t] \in Copies \cup {Nothing}
      BY <1>0 DEF Verdict, TypeOK
    <3>2. CASE copy[t] # Nothing
      BY <1>2, <2>2, <3>1, <3>2 DEF Settle
    <3>3. CASE copy[t] = Nothing
      BY <2>2, <3>3, CreditShrinks DEF Settle, storeVars
    <3>4. QED
      BY <3>2, <3>3
  <2>3. CASE ~StoreCopy(t) /\ ~Settle(t)
    <3>1. place' = place
      BY <1>3, <2>3 DEF TaskStep, Spawn, Begin, CallbackReturns, CallbackRaises, Woken,
         RefuseCopy, Confirmed, OnlyStep, storeVars
    <3>2. QED
      BY <3>1, CreditShrinks
  <2>4. QED
    BY <2>1, <2>2, <2>3
<1>4. ASSUME NEW p \in Consumers, ConsumerStep(p)
      PROVE  Credit'
  <2>1. CASE CloseIterator(p)
    BY <2>1, CreditShrinks DEF CloseIterator, Relocate
  <2>2. CASE Relocate(Requeued(p))
    BY <2>2, CreditShrinks DEF Requeued, Relocate
  <2>3. CASE place' = place
    BY <2>3, CreditShrinks
  <2>4. ASSUME NEW t \in Tasks, NEW c \in Copies, Deliver(p, t, c)
        PROVE  Credit'
    BY <2>4, CreditDeliver
  <2>5. QED
    BY <1>4, <2>1, <2>2, <2>3, <2>4
       DEF ConsumerStep, Start, StopListening, Close, Interrupt, Exit, Crash, EndProcess,
           ConnectionLost, Reconnect, brokerVars
<1>5. CASE BrokerRestart
  BY <1>5, CreditShrinks DEF BrokerRestart, RestartStore, Relocate
<1>6. CASE UNCHANGED vars
  BY <1>6, CreditShrinks DEF vars
<1>7. QED
  BY <1>1, <1>2, <1>3, <1>4, <1>5, <1>6 DEF Next, Outside, Rest, ReplayGarbage, DeleteGarbage

LEMMA ProductGrows ==
  ASSUME NEW a \in Nat, NEW b \in Nat, a <= b
  PROVE  Prefetch * a <= Prefetch * b
<1>1. PICK d \in Nat : b = a + d
  BY b - a \in Nat
<1>2. Prefetch * b = Prefetch * a + Prefetch * d
  BY <1>1
<1>3. Prefetch * d >= 0 /\ Prefetch * a \in Nat /\ Prefetch * d \in Nat
  OBVIOUS
<1>4. QED
  BY <1>2, <1>3

\* A consumer whose tasks lose no delivery keeps its bound.
LEMMA StraysKept ==
  ASSUME TypeOK, TypeOK', NEW p \in Consumers, StraysOf(p),
         Losses(p)' >= Losses(p), Stale(p)' \subseteq Stale(p)
  PROVE  StraysOf(p)'
<1>1. IsFiniteSet(Stale(p)') /\ Cardinality(Stale(p)') <= Cardinality(Stale(p))
  BY FS_Subset DEF StraysOf
<1>2. Cardinality(Stale(p)) \in Nat /\ Cardinality(Stale(p)') \in Nat
  BY <1>1, FS_CardinalityType DEF StraysOf
<1>3. Losses(p) \in Nat /\ Losses(p)' \in Nat
  BY DEF TypeOK, Losses, StraysOf
<1>4. Prefetch * Losses(p) <= Prefetch * Losses(p)'
  BY <1>3, ProductGrows
<1>5. Prefetch * Losses(p) \in Nat /\ Prefetch * Losses(p)' \in Nat
  BY <1>3
<1>6. QED
  BY <1>1, <1>2, <1>3, <1>4, <1>5 DEF StraysOf

\* One that loses its channel pays for its deliveries with one fault.
LEMMA StraysGrow ==
  ASSUME IInv, TypeOK', Credit, NEW p \in Consumers, StraysOf(p),
         Losses(p)' = Losses(p) + 1, Stale(p)' \subseteq Stale(p) \cup Linked(p)
  PROVE  StraysOf(p)'
<1>1. /\ IsFiniteSet(Linked(p)) /\ Cardinality(Linked(p)) <= Prefetch
      /\ Cardinality(Linked(p)) \in Nat
  BY LinkedBound, FS_CardinalityType
<1>2. /\ IsFiniteSet(Stale(p)) /\ Cardinality(Stale(p)) <= Prefetch * Losses(p)
      /\ Cardinality(Stale(p)) \in Nat
  BY FS_CardinalityType DEF StraysOf
<1>3. Stale(p) \cap Linked(p) = {}
  BY DEF Stale, Linked
<1>4. /\ IsFiniteSet(Stale(p) \cup Linked(p))
      /\ Cardinality(Stale(p) \cup Linked(p)) = Cardinality(Stale(p)) + Cardinality(Linked(p))
  <2>1. /\ IsFiniteSet(Stale(p) \cup Linked(p))
        /\ Cardinality(Stale(p) \cup Linked(p)) =
             Cardinality(Stale(p)) + Cardinality(Linked(p)) - Cardinality(Stale(p) \cap Linked(p))
    BY <1>1, <1>2, FS_Union
  <2>2. Cardinality(Stale(p) \cap Linked(p)) = 0
    BY <1>3, FS_EmptySet
  <2>3. QED
    BY <1>1, <1>2, <2>1, <2>2
<1>5. /\ IsFiniteSet(Stale(p)')
      /\ Cardinality(Stale(p)') <= Cardinality(Stale(p) \cup Linked(p))
      /\ Cardinality(Stale(p)') \in Nat
  BY <1>4, FS_Subset, FS_CardinalityType
<1>6. Losses(p) \in Nat /\ Losses(p)' \in Nat
  <2>1. faults \in Nat
    BY DEF IInv, TypeOK
  <2>2. QED
    BY <2>1 DEF Losses, StraysOf
<1>7. Prefetch * Losses(p)' = Prefetch * Losses(p) + Prefetch /\ Prefetch * Losses(p) \in Nat
  BY <1>6
<1>8. QED
  BY <1>1, <1>2, <1>4, <1>5, <1>6, <1>7 DEF StraysOf

LEMMA StraysTaskStep ==
  ASSUME IInv, TypeOK', Strays, NEW t \in Tasks, TaskStep(t)
  PROVE  Strays'
<1>0. TypeOK
  BY DEF IInv
<1>1. /\ phase' = phase /\ faults' >= faults
      /\ \A u \in Tasks : pc'[u] # "idle" =>
           pc[u] # "idle" /\ home'[u] = home[u] /\ copy'[u] = copy[u]
  <2>1. faults \in Nat
    BY <1>0 DEF TypeOK
  <2>2. faults' = faults \/ Fault
    BY DEF TaskStep, Spawn, Begin, CallbackReturns, CallbackRaises, Woken, StoreCopy,
       RefuseCopy, Confirmed, Settle, OnlyStep
  <2>3. phase' = phase
    BY DEF TaskStep, Spawn, Begin, CallbackReturns, CallbackRaises, Woken, StoreCopy,
       RefuseCopy, Confirmed, Settle, OnlyStep
  <2>4. \A u \in Tasks : pc'[u] # "idle" =>
          pc[u] # "idle" /\ home'[u] = home[u] /\ copy'[u] = copy[u]
    BY <1>0 DEF TaskStep, Spawn, Begin, CallbackReturns, CallbackRaises, Woken, StoreCopy,
       RefuseCopy, Confirmed, Settle, OnlyStep, Goto, Finish, TypeOK
  <2>5. QED
    BY <2>1, <2>2, <2>3, <2>4 DEF Fault
<1>2. \A p \in Consumers : Stale(p)' \subseteq Stale(p) /\ Losses(p)' >= Losses(p)
  BY <1>0, <1>1 DEF Stale, TasksOf, Losses, TypeOK
<1>3. QED
  BY <1>0, <1>2, StraysKept DEF Strays

LEMMA StraysConsumerStep ==
  ASSUME IInv, TypeOK', Credit, Strays, NEW p \in Consumers, ConsumerStep(p)
  PROVE  Strays'
<1>0. TypeOK
  BY DEF IInv
<1>1. ASSUME \A q \in Consumers : Losses(q)' >= Losses(q),
             \A u \in Tasks : pc'[u] # "idle" /\ copy'[u] = Nothing =>
               pc[u] # "idle" /\ home'[u] = home[u] /\ copy[u] = Nothing
      PROVE  Strays'
  <2>1. \A q \in Consumers : Stale(q)' \subseteq Stale(q)
    BY <1>1 DEF Stale, TasksOf
  <2>2. QED
    BY <1>0, <1>1, <2>1, StraysKept DEF Strays
<1>a. faults \in Nat
  BY <1>0 DEF TypeOK
<1>2. CASE Start(p) \/ Reconnect(p)
  <2>1. /\ faults' = faults /\ UNCHANGED <<pc, home, copy>>
        /\ UNCHANGED phase \/ (phase[p] = "off" /\ phase' = [phase EXCEPT ![p] = "listening"])
    BY <1>2 DEF Start, Reconnect, taskVars
  <2>2. \A q \in Consumers : phase'[q] = phase[q] \/ (phase[q] # "stopped" /\ phase'[q] # "stopped")
    BY <1>0, <2>1 DEF TypeOK
  <2>3. \A q \in Consumers : Losses(q)' >= Losses(q)
    BY <1>a, <2>1, <2>2 DEF Losses
  <2>4. QED
    BY <1>1, <2>1, <2>3
<1>3. CASE StopListening(p)
  <2>1. /\ phase[p] = "listening" /\ phase' = [phase EXCEPT ![p] = "stopped"]
        /\ faults' = faults + 1 /\ Finish(Buffered(p))
    BY <1>3 DEF StopListening, Fault
  <2>2. \A q \in Consumers : phase'[q] = IF q = p THEN "stopped" ELSE phase[q]
    BY <1>0, <2>1 DEF TypeOK
  <2>3. \A q \in Consumers : Losses(q)' >= Losses(q)
    BY <1>a, <2>1, <2>2 DEF Losses
  <2>4. QED
    BY <1>1, <2>1, <2>3 DEF Finish
<1>4. CASE Interrupt(p)
  <2>1. phase' = [phase EXCEPT ![p] = "dying"] /\ faults' = faults + 1
    BY <1>4 DEF Interrupt, Fault
  <2>2. \A q \in Consumers : phase'[q] = IF q = p THEN "dying" ELSE phase[q]
    BY <1>0, <2>1 DEF TypeOK
  <2>3. \A q \in Consumers : Losses(q)' >= Losses(q)
    BY <1>a, <2>1, <2>2 DEF Losses
  <2>4. ASSUME NEW u \in Tasks, pc'[u] # "idle", copy'[u] = Nothing
        PROVE  pc[u] # "idle" /\ home'[u] = home[u] /\ copy[u] = Nothing
    <3>1. pc'[u] = IF home[u] = p THEN Cancelled(u) ELSE pc[u]
      BY <1>4 DEF Interrupt
    <3>2. pc[u] # "idle" /\ u \notin Buffered(p)
      BY <2>4, <3>1 DEF Cancelled, Buffered, TasksOf
    <3>3. QED
      BY <1>4, <2>4, <3>2 DEF Interrupt
  <2>5. QED
    BY <1>1, <2>3, <2>4
<1>5. CASE Exit(p) \/ Crash(p)
  <2>1. \/ phase[p] = "dying" /\ faults' = faults
        \/ faults' = faults + 1
    BY <1>5 DEF Exit, Crash, Fault
  <2>2. phase' = [phase EXCEPT ![p] = "off"] /\ Finish(TasksOf(p))
    BY <1>5 DEF Exit, Crash, EndProcess
  <2>3. \A q \in Consumers : phase'[q] = IF q = p THEN "off" ELSE phase[q]
    BY <1>0, <2>2 DEF TypeOK
  <2>4. faults \in Nat
    BY <1>0 DEF TypeOK
  <2>5. \A q \in Consumers : Losses(q)' >= Losses(q)
    BY <2>1, <2>3, <2>4 DEF Losses
  <2>6. QED
    BY <1>1, <2>2, <2>5 DEF Finish
<1>6. ASSUME NEW t \in Tasks, NEW c \in Copies, Deliver(p, t, c)
      PROVE  Strays'
  BY <1>0, <1>1, <1>6 DEF Deliver, Goto, Losses, TypeOK
<1>7. CASE Close(p) \/ ConnectionLost(p)
  <2>1. /\ Losses(p)' = Losses(p) + 1
        /\ \A q \in Consumers : Losses(q)' >= Losses(q)
    BY <1>0, <1>7 DEF Close, ConnectionLost, Fault, Losses, TypeOK
  <2>2. /\ home' = home
        /\ \A u \in Tasks : pc'[u] # "idle" => pc[u] # "idle"
        /\ \A u \in Tasks : home[u] # p => copy'[u] = copy[u]
    BY <1>0, <1>7 DEF Close, ConnectionLost, LoseLinks, TypeOK
  <2>3. StraysOf(p)'
    <3>1. Stale(p)' \subseteq Stale(p) \cup Linked(p)
      BY <2>2 DEF Stale, Linked, TasksOf
    <3>2. QED
      BY <2>1, <3>1, StraysGrow DEF Strays
  <2>4. ASSUME NEW q \in Consumers, q # p
        PROVE  StraysOf(q)'
    <3>1. Stale(q)' \subseteq Stale(q)
      BY <2>2, <2>4 DEF Stale, TasksOf
    <3>2. QED
      BY <1>0, <2>1, <3>1, StraysKept DEF Strays
  <2>5. QED
    BY <2>3, <2>4 DEF Strays
<1>8. QED
  BY <1>2, <1>3, <1>4, <1>5, <1>6, <1>7 DEF ConsumerStep

LEMMA StraysNext ==
  ASSUME IInv, IInv', Credit, Strays, [Next]_vars
  PROVE  Strays'
<1>0. TypeOK /\ TypeOK'
  BY DEF IInv
<1>1. ASSUME UNCHANGED <<pc, home, copy, phase, faults>>
      PROVE  Strays'
  BY <1>1 DEF Strays, StraysOf, Losses, Stale, TasksOf
<1>2. CASE Outside \/ UNCHANGED vars
  BY <1>1, <1>2 DEF Outside, vars, taskVars
<1>3. ASSUME NEW t \in Tasks, TaskStep(t)
      PROVE  Strays'
  BY <1>0, <1>3, StraysTaskStep
<1>4. ASSUME NEW p \in Consumers, ConsumerStep(p)
      PROVE  Strays'
  BY <1>0, <1>4, StraysConsumerStep
<1>5. CASE BrokerRestart
  <2>1. ASSUME NEW p \in Consumers
        PROVE  Losses(p)' = Losses(p) + 1 /\ Stale(p)' \subseteq Stale(p) \cup Linked(p)
    BY <1>0, <1>5 DEF BrokerRestart, Fault, LoseLinks, Losses, Stale, Linked, TasksOf, TypeOK
  <2>2. QED
    BY <1>0, <2>1, StraysGrow DEF Strays
<1>6. QED
  BY <1>2, <1>3, <1>4, <1>5 DEF Next, Rest

\* What the tasks of one consumer can be at once is bounded by prefetch_count and
\* by how often its channel was lost, although _listen_queue waits for none.
THEOREM TasksBounded == Spec => []Backpressure
<1>1. Init => Credit /\ Strays
  <2>1. SUFFICES ASSUME Init, NEW p \in Consumers
                 PROVE  /\ IsFiniteSet(Unacked(p)) /\ Cardinality(Unacked(p)) <= Prefetch
                        /\ StraysOf(p)
    BY DEF Credit, Strays
  <2>2. Unacked(p) = {} /\ Stale(p) = {} /\ Losses(p) = 0
    BY <2>1 DEF Init, BrokerInit, Unacked, Stale, Losses, TasksOf
  <2>3. QED
    BY <2>2, FS_EmptySet DEF StraysOf
<1>2. IInv /\ IInv' /\ Credit /\ Strays /\ [Next]_vars => Credit' /\ Strays'
  BY CreditNext, StraysNext
<1>3. IInv /\ Credit /\ Strays => Backpressure
  <2>1. SUFFICES ASSUME IInv, Credit, Strays, NEW p \in Consumers
                 PROVE  Cardinality(Busy(p)) <= Prefetch * (1 + faults)
    BY DEF Backpressure
  <2>2. /\ IsFiniteSet(Linked(p)) /\ Cardinality(Linked(p)) <= Prefetch
        /\ Cardinality(Linked(p)) \in Nat
    BY <2>1, LinkedBound, FS_CardinalityType
  <2>3. /\ IsFiniteSet(Stale(p)) /\ Cardinality(Stale(p)) <= Prefetch * Losses(p)
        /\ Cardinality(Stale(p)) \in Nat /\ Losses(p) \in Nat /\ faults \in Nat
        /\ Losses(p) <= faults
    BY <2>1, FS_CardinalityType DEF Strays, StraysOf, Losses, IInv, TypeOK
  <2>4. Busy(p) \in SUBSET (Linked(p) \cup Stale(p))
    BY DEF Busy, Linked, Stale, TasksOf
  <2>5. /\ IsFiniteSet(Linked(p) \cup Stale(p)) /\ IsFiniteSet(Linked(p) \cap Stale(p))
        /\ Cardinality(Linked(p) \cup Stale(p)) =
             Cardinality(Linked(p)) + Cardinality(Stale(p)) - Cardinality(Linked(p) \cap Stale(p))
    BY <2>2, <2>3, FS_Union, FS_Subset
  <2>6. /\ Cardinality(Busy(p)) <= Cardinality(Linked(p) \cup Stale(p))
        /\ Cardinality(Busy(p)) \in Nat /\ Cardinality(Linked(p) \cap Stale(p)) \in Nat
        /\ Cardinality(Linked(p) \cup Stale(p)) \in Nat
    BY <2>4, <2>5, FS_Subset, FS_CardinalityType
  <2>7. Cardinality(Busy(p)) <= Prefetch + Prefetch * Losses(p)
    <3>1. Prefetch * Losses(p) \in Nat
      BY <2>3
    <3>2. QED
      BY <2>2, <2>3, <2>5, <2>6, <3>1
  <2>8. Prefetch * Losses(p) <= Prefetch * faults
    BY <2>3, ProductGrows
  <2>9. /\ Prefetch * (1 + faults) = Prefetch + Prefetch * faults
        /\ Prefetch * faults \in Nat /\ Prefetch * Losses(p) \in Nat
    BY <2>3
  <2>10. QED
    BY <2>6, <2>7, <2>8, <2>9
<1>4. QED
  BY <1>1, <1>2, <1>3, Invariance, PTL DEF Spec
=============================================================================
