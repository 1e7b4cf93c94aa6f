--------------------------- MODULE AioProducerProofs ---------------------------
(***************************************************************************)
(* Theorems about AioProducer for every value of its constants: any tasks, *)
(* attempts, channels and connections, and any number of mishaps.          *)
(***************************************************************************)
EXTENDS AioProducer, FiniteSetTheorems, TLAPS

USE PoolAssumption

-----------------------------------------------------------------------------
(* Who holds what. *)

\* A channel is out with one task, which publishes through it, and each task has one.
Seated ==
  /\ \A s \in Slots : slot[s] # "none" => on[s] \in Links
  /\ \A s \in Slots : slot[s] \in Tasks => at[slot[s]] \in {"declare", "confirm"}
  /\ \A r, s \in Slots : slot[r] \in Tasks /\ slot[r] = slot[s] => r = s

\* A connection is out with the task that makes a channel on it, under the lock.
Wired ==
  /\ \A k \in Links : conn[k] \in Tasks => at[conn[k]] = "channel"
  /\ \A j, k \in Links : conn[j] \in Tasks /\ conn[j] = conn[k] => j = k
  /\ \A t \in Tasks : at[t] \in {"dial", "channel"} => lock = t
  /\ lock # None => at[lock] \in {"full", "dial", "channel"}

\* After teardown nothing is open, and nobody is about to open anything.
TornDown == closing = "done" => \A t \in Tasks : at[t] # "dial"

PoolShape == PoolTypeOK /\ Seated /\ Wired /\ TornDown /\ TeardownClosesAll

LEMMA PoolInitShape == PoolInit => PoolShape
<1>1. SUFFICES ASSUME PoolInit PROVE PoolShape
  OBVIOUS
<1>2. PoolTypeOK
  BY <1>1 DEF PoolInit, PoolTypeOK, Places
<1>3. Seated /\ Wired
  BY <1>1 DEF PoolInit, Seated, Wired
<1>4. QED
  BY <1>1, <1>2, <1>3 DEF PoolShape, PoolInit, TornDown, TeardownClosesAll

LEMMA MishapType == PoolTypeOK /\ Mishap => mishaps' \in 0..MaxMishaps /\ mishaps' = mishaps + 1
BY DEF PoolTypeOK, Mishap

\* Everything is handed back: an attempt that ends in an exception, a cancellation.
LEMMA LetGo ==
  ASSUME PoolShape, NEW t \in Tasks, NEW p \in {"sleep", "idle"}, To(t, p),
         slot' = Released(t), conn' = HandedBack(t), lock' = Unlocked(t),
         UNCHANGED <<on, live, up, closing>>
  PROVE  /\ at' \in [Tasks -> Places]
         /\ slot' \in [Slots -> {"none", "idle", "gone"} \cup Tasks]
         /\ conn' \in [Links -> {"none", "idle", "shut"} \cup Tasks]
         /\ lock' \in Tasks \cup {None}
         /\ Seated' /\ Wired' /\ TornDown' /\ TeardownClosesAll'
<1>1. /\ at' \in [Tasks -> Places] /\ at'[t] = p /\ \A u \in Tasks : u # t => at'[u] = at[u]
  BY DEF PoolShape, PoolTypeOK, To, Places
<1>2. /\ slot' \in [Slots -> {"none", "idle", "gone"} \cup Tasks]
      /\ \A s \in Slots : IF slot[s] = t THEN slot'[s] \in {"idle", "gone"} ELSE slot'[s] = slot[s]
  BY DEF PoolShape, PoolTypeOK, Released
<1>3. /\ conn' \in [Links -> {"none", "idle", "shut"} \cup Tasks]
      /\ \A k \in Links : IF conn[k] = t THEN conn'[k] = "idle" ELSE conn'[k] = conn[k]
  BY DEF PoolShape, PoolTypeOK, HandedBack
<1>4. /\ lock' \in Tasks \cup {None}
      /\ lock' = IF lock = t THEN None ELSE lock
  BY DEF PoolShape, PoolTypeOK, Unlocked
<1>5. Seated'
  BY <1>1, <1>2 DEF PoolShape, Seated, PoolTypeOK
<1>6. Wired'
  BY <1>1, <1>3, <1>4 DEF PoolShape, Wired, PoolTypeOK
<1>7. TornDown' /\ TeardownClosesAll'
  BY <1>1, <1>3 DEF PoolShape, TornDown, TeardownClosesAll
<1>8. QED
  BY <1>1, <1>2, <1>3, <1>4, <1>5, <1>6, <1>7

LEMMA RaisesShape ==
  ASSUME PoolShape, NEW t \in Tasks, Raises(t), mishaps' \in 0..MaxMishaps,
         inflight' \subseteq Parcels, accepted' \subseteq Parcels, acks' \subseteq Parcels
  PROVE  PoolShape'
<1>1. /\ To(t, "sleep") /\ slot' = Released(t) /\ conn' = HandedBack(t) /\ lock' = Unlocked(t)
      /\ UNCHANGED <<tries, on, live, up, closing, ended>>
  BY DEF Raises
<1>2. /\ at' \in [Tasks -> Places]
      /\ slot' \in [Slots -> {"none", "idle", "gone"} \cup Tasks]
      /\ conn' \in [Links -> {"none", "idle", "shut"} \cup Tasks]
      /\ lock' \in Tasks \cup {None}
      /\ Seated' /\ Wired' /\ TornDown' /\ TeardownClosesAll'
  BY <1>1, LetGo
<1>3. PoolTypeOK'
  BY <1>1, <1>2 DEF PoolShape, PoolTypeOK
<1>4. QED
  BY <1>2, <1>3 DEF PoolShape

\* A task that moves between places where it holds nothing, or takes a released channel.
LEMMA MoveShape ==
  ASSUME PoolShape, NEW t \in Tasks, NEW p \in Places, To(t, p),
         UNCHANGED <<on, live, conn, up, closing, inflight, accepted, acks, ended, mishaps>>,
         tries' \in [Tasks -> Nat],
         at[t] \in {"idle", "sleep", "full", "lock"},
         \/ slot' = slot /\ p # "declare"
         \/ \E s \in Slots : slot[s] = "idle" /\ slot' = [slot EXCEPT ![s] = t] /\ p = "declare",
         \/ lock' = lock /\ lock # t /\ p \notin {"dial", "channel"}
         \/ lock' = Unlocked(t) /\ p \notin {"dial", "channel"}
         \/ lock = None /\ lock' = t /\ p = "full"
         \/ lock = None /\ lock' = t /\ p = "dial" /\ closing # "done"
  PROVE  PoolShape'
<1>1. /\ at' \in [Tasks -> Places] /\ at'[t] = p /\ \A u \in Tasks : u # t => at'[u] = at[u]
  BY DEF PoolShape, PoolTypeOK, To
<1>2. lock' \in Tasks \cup {None}
  BY DEF PoolShape, PoolTypeOK, Unlocked
<1>3. slot' \in [Slots -> {"none", "idle", "gone"} \cup Tasks]
  BY DEF PoolShape, PoolTypeOK
<1>4. PoolTypeOK'
  BY <1>1, <1>2, <1>3 DEF PoolShape, PoolTypeOK
<1>5. \A s \in Slots : slot[s] # t
  BY DEF PoolShape, Seated
<1>6. Seated'
  BY <1>1, <1>5 DEF PoolShape, Seated, PoolTypeOK
<1>7. \A k \in Links : conn[k] # t
  BY DEF PoolShape, Wired
<1>8. Wired'
  BY <1>1, <1>7 DEF PoolShape, Wired, PoolTypeOK, Unlocked
<1>9. TornDown' /\ TeardownClosesAll'
  BY <1>1 DEF PoolShape, TornDown, TeardownClosesAll
<1>10. QED
  BY <1>4, <1>6, <1>8, <1>9 DEF PoolShape

LEMMA AcquireShape ==
  ASSUME PoolShape, NEW t \in Tasks, at[t] \in {"idle", "sleep"}, Acquire(t), tries' \in [Tasks -> Nat],
         UNCHANGED <<on, live, conn, up, lock, closing, wires, mishaps>>
  PROVE  PoolShape'
<1>1. lock # t
  BY DEF PoolShape, Wired, PoolTypeOK
<1>2. UNCHANGED <<inflight, accepted, acks, ended>>
  BY DEF Acquire, wires
<1>3. \/ To(t, "sleep") /\ slot' = slot
      \/ To(t, "full") /\ slot' = slot
      \/ To(t, "lock") /\ slot' = slot
      \/ To(t, "declare") /\ \E s \in Slots : slot[s] = "idle" /\ slot' = [slot EXCEPT ![s] = t]
  BY DEF Acquire, TakeSlot, Idle
<1>4. \E p \in Places :
        /\ To(t, p) /\ p \notin {"dial", "channel"}
        /\ \/ slot' = slot /\ p # "declare"
           \/ \E s \in Slots : slot[s] = "idle" /\ slot' = [slot EXCEPT ![s] = t] /\ p = "declare"
  BY <1>3 DEF Places
<1>5. QED
  BY <1>1, <1>2, <1>4, MoveShape

LEMMA EnterLockShape ==
  ASSUME PoolShape, NEW t \in Tasks, EnterLock(t)
  PROVE  PoolShape'
<1>1. /\ at[t] = "lock" /\ lock = None /\ tries' = tries
      /\ UNCHANGED <<slot, on, live, up, closing, inflight, accepted, acks, ended, mishaps>>
  BY DEF EnterLock, channelVars, wires
<1>2. tries' \in [Tasks -> Nat] /\ lock # t /\ {"full", "sleep", "dial"} \subseteq Places
  BY <1>1 DEF PoolShape, PoolTypeOK, Places
<1>3. CASE conn' = conn /\ lock' = t /\ To(t, "full")
  BY <1>1, <1>2, <1>3, MoveShape
<1>4. CASE conn' = conn /\ lock' = lock /\ To(t, "sleep")
  BY <1>1, <1>2, <1>4, MoveShape
<1>5. CASE conn' = conn /\ lock' = t /\ To(t, "dial") /\ closing # "done"
  BY <1>1, <1>2, <1>5, MoveShape
<1>6. ASSUME NEW k \in Links, conn[k] = "idle", conn' = [conn EXCEPT ![k] = t], lock' = t,
             To(t, "channel"), closing # "done"
      PROVE  PoolShape'
  <2>1. /\ at' \in [Tasks -> Places] /\ at'[t] = "channel"
        /\ \A u \in Tasks : u # t => at'[u] = at[u]
    BY <1>6 DEF PoolShape, PoolTypeOK, To, Places
  <2>2. PoolTypeOK'
    BY <1>1, <1>2, <1>6, <2>1 DEF PoolShape, PoolTypeOK
  <2>3. Seated'
    BY <1>1, <2>1 DEF PoolShape, Seated, PoolTypeOK
  <2>4. \A j \in Links : conn[j] # t
    BY <1>1 DEF PoolShape, Wired
  <2>5. Wired'
    BY <1>1, <1>6, <2>1, <2>4 DEF PoolShape, Wired, PoolTypeOK
  <2>6. TornDown' /\ TeardownClosesAll'
    BY <1>1, <1>6 DEF PoolShape, TornDown, TeardownClosesAll
  <2>7. QED
    BY <2>2, <2>3, <2>5, <2>6 DEF PoolShape
<1>7. QED
  BY <1>3, <1>4, <1>5, <1>6 DEF EnterLock

LEMMA DialShape ==
  ASSUME PoolShape, NEW t \in Tasks, Dial(t)
  PROVE  PoolShape'
<1>1. at[t] = "dial" /\ UNCHANGED <<inflight, accepted, acks>>
  BY DEF Dial, wires
<1>2. CASE Mishap /\ Raises(t)
  BY <1>1, <1>2, MishapType, RaisesShape DEF PoolShape, PoolTypeOK
<1>3. ASSUME NEW k \in Links, conn[k] = "none", conn' = [conn EXCEPT ![k] = t], up' = up \cup {k},
             To(t, "channel"), UNCHANGED <<tries, channelVars, lock, closing, ended, mishaps>>
      PROVE  PoolShape'
  <2>1. /\ at' \in [Tasks -> Places] /\ at'[t] = "channel"
        /\ \A u \in Tasks : u # t => at'[u] = at[u]
    BY <1>3 DEF PoolShape, PoolTypeOK, To, Places
  <2>2. PoolTypeOK'
    BY <1>1, <1>3, <2>1 DEF PoolShape, PoolTypeOK, channelVars
  <2>3. Seated'
    BY <1>1, <1>3, <2>1 DEF PoolShape, Seated, PoolTypeOK, channelVars
  <2>4. (\A j \in Links : conn[j] # t) /\ lock = t
    BY <1>1 DEF PoolShape, Wired
  <2>5. Wired'
    BY <1>1, <1>3, <2>1, <2>4 DEF PoolShape, Wired, PoolTypeOK
  <2>6. closing # "done"
    BY <1>1 DEF PoolShape, TornDown
  <2>7. QED
    BY <1>3, <2>2, <2>3, <2>5, <2>6 DEF PoolShape, TornDown, TeardownClosesAll
<1>4. QED
  BY <1>2, <1>3 DEF Dial

LEMMA OpenSlotShape ==
  ASSUME PoolShape, NEW t \in Tasks, OpenSlot(t)
  PROVE  PoolShape'
<1>1. PICK k \in up, s \in Unmade :
        /\ conn[k] = t
        /\ slot' = [slot EXCEPT ![s] = t] /\ on' = [on EXCEPT ![s] = k]
        /\ live' = live \cup {s}
        /\ conn' = [conn EXCEPT ![k] = "idle"]
  BY DEF OpenSlot
<1>2. /\ at[t] = "channel" /\ closing # "done" /\ lock' = None /\ To(t, "declare")
      /\ UNCHANGED <<tries, up, closing, inflight, accepted, acks, ended, mishaps>>
  BY DEF OpenSlot, wires
<1>3. k \in Links /\ s \in Slots /\ slot[s] = "none"
  BY <1>1 DEF PoolShape, PoolTypeOK, Unmade
<1>4. /\ at' \in [Tasks -> Places] /\ at'[t] = "declare"
      /\ \A u \in Tasks : u # t => at'[u] = at[u]
  BY <1>2 DEF PoolShape, PoolTypeOK, To, Places
<1>5. PoolTypeOK'
  BY <1>1, <1>2, <1>3, <1>4 DEF PoolShape, PoolTypeOK
<1>6. \A r \in Slots : slot[r] # t
  BY <1>2 DEF PoolShape, Seated
<1>7. Seated'
  BY <1>1, <1>2, <1>3, <1>4, <1>6 DEF PoolShape, Seated, PoolTypeOK
<1>8. lock = t
  BY <1>2 DEF PoolShape, Wired
<1>9. Wired'
  BY <1>1, <1>2, <1>3, <1>4, <1>8 DEF PoolShape, Wired, PoolTypeOK
<1>10. QED
  BY <1>2, <1>5, <1>7, <1>9 DEF PoolShape, TornDown, TeardownClosesAll

\* The parcels a task puts on the wire.
LEMMA SendType ==
  ASSUME PoolShape, NEW t \in Tasks
  PROVE  {[task |-> t, try |-> tries[t], link |-> on[s]] : s \in Held(t)} \subseteq Parcels
<1>1. SUFFICES ASSUME NEW s \in Held(t)
               PROVE  [task |-> t, try |-> tries[t], link |-> on[s]] \in Parcels
  OBVIOUS
<1>2. on[s] \in Links /\ tries[t] \in Nat
  BY <1>1 DEF Held, PoolShape, Seated, PoolTypeOK
<1>3. QED
  BY <1>2 DEF Parcels

LEMMA SendParcelShape ==
  ASSUME PoolShape, NEW t \in Tasks, SendParcel(t)
  PROVE  PoolShape'
<1>1. /\ at[t] = "declare" /\ To(t, "confirm")
      /\ UNCHANGED <<tries, slot, on, live, conn, up, lock, closing, accepted, acks, ended, mishaps>>
  BY DEF SendParcel, channelVars
<1>2. /\ at' \in [Tasks -> Places] /\ at'[t] = "confirm"
      /\ \A u \in Tasks : u # t => at'[u] = at[u]
  BY <1>1 DEF PoolShape, PoolTypeOK, To, Places
<1>3. inflight' \subseteq Parcels
  BY SendType DEF SendParcel, PoolShape, PoolTypeOK
<1>4. PoolTypeOK'
  BY <1>1, <1>2, <1>3 DEF PoolShape, PoolTypeOK
<1>5. Seated'
  BY <1>1, <1>2 DEF PoolShape, Seated, PoolTypeOK
<1>6. Wired'
  BY <1>1, <1>2 DEF PoolShape, Wired, PoolTypeOK
<1>7. QED
  BY <1>1, <1>2, <1>4, <1>5, <1>6 DEF PoolShape, TornDown, TeardownClosesAll

LEMMA ReturnShape ==
  ASSUME PoolShape, NEW t \in Tasks, at[t] = "confirm", closing = "no",
         Returns(t, "returned"), slot' = Released(t),
         UNCHANGED <<tries, on, live, conn, up, lock, closing, inflight, accepted, mishaps>>,
         acks' \subseteq acks
  PROVE  PoolShape'
<1>1. /\ \A k \in Links : conn[k] # t
      /\ lock # t
  BY DEF PoolShape, Wired, PoolTypeOK
<1>2. conn' = HandedBack(t)
  BY <1>1 DEF HandedBack, PoolShape, PoolTypeOK
<1>3. lock' = Unlocked(t)
  BY <1>1 DEF Unlocked
<1>4. To(t, "idle") /\ ended' = [ended EXCEPT ![t] = "returned"]
  BY DEF Returns
<1>5. /\ at' \in [Tasks -> Places]
      /\ slot' \in [Slots -> {"none", "idle", "gone"} \cup Tasks]
      /\ Seated' /\ Wired' /\ TornDown' /\ TeardownClosesAll'
  BY <1>2, <1>3, <1>4, LetGo
<1>6. PoolTypeOK'
  BY <1>4, <1>5 DEF PoolShape, PoolTypeOK
<1>7. QED
  BY <1>5, <1>6 DEF PoolShape

LEMMA TaskShape ==
  ASSUME PoolShape, NEW t \in Tasks, PublishCall(t) \/ TaskStep(t) \/ TimesOut(t) \/ Cancel(t)
  PROVE  PoolShape'
<1>0. PoolTypeOK
  BY DEF PoolShape
<1>1. CASE PublishCall(t)
  <2>1. CASE Tries[t] > 0 /\ tries' = [tries EXCEPT ![t] = 1] /\ Acquire(t)
    BY <1>0, <1>1, <2>1, AcquireShape DEF PublishCall, PoolTypeOK
  <2>2. CASE Returns(t, "raised") /\ UNCHANGED <<tries, slot>>
    <3>1. at' = at
      BY <1>0, <1>1, <2>2 DEF PublishCall, Returns, To, PoolTypeOK
    <3>2. ended' \in [Tasks -> {"none", "returned", "raised"}]
      BY <1>0, <2>2 DEF Returns, PoolTypeOK
    <3>3. QED
      BY <1>1, <2>2, <3>1, <3>2
         DEF PublishCall, wires, PoolShape, PoolTypeOK, Seated, Wired, TornDown, TeardownClosesAll
  <2>3. QED
    BY <1>1, <2>1, <2>2 DEF PublishCall
<1>2. CASE Retry(t)
  <2>1. CASE tries' = [tries EXCEPT ![t] = @ + 1] /\ Acquire(t)
    BY <1>0, <1>2, <2>1, AcquireShape DEF Retry, PoolTypeOK
  <2>2. CASE Returns(t, "raised") /\ UNCHANGED <<tries, slot>>
    <3>1. lock # t /\ (\A s \in Slots : slot[s] # t) /\ (\A k \in Links : conn[k] # t)
      BY <1>2 DEF Retry, PoolShape, Seated, Wired, PoolTypeOK
    <3>2. slot' = Released(t) /\ conn' = HandedBack(t) /\ lock' = Unlocked(t)
      BY <1>0, <1>2, <2>2, <3>1 DEF Retry, Released, HandedBack, Unlocked, PoolTypeOK
    <3>3. To(t, "idle") /\ UNCHANGED <<on, live, up, closing>>
      BY <1>2, <2>2 DEF Retry, Returns
    <3>4. /\ at' \in [Tasks -> Places] /\ Seated' /\ Wired' /\ TornDown' /\ TeardownClosesAll'
      BY <3>2, <3>3, LetGo
    <3>5. PoolTypeOK'
      BY <1>0, <1>2, <2>2, <3>4 DEF Retry, Returns, wires, PoolTypeOK
    <3>6. QED
      BY <3>4, <3>5 DEF PoolShape
  <2>3. QED
    BY <1>2, <2>1, <2>2 DEF Retry
<1>3. CASE EnterLock(t)
  BY <1>3, EnterLockShape
<1>4. CASE GetReleased(t)
  <2>1. /\ at[t] = "full" /\ tries' \in [Tasks -> Nat] /\ lock' = Unlocked(t)
        /\ UNCHANGED <<on, live, conn, up, closing, inflight, accepted, acks, ended, mishaps>>
        /\ To(t, "declare") /\ "declare" \in Places
        /\ \E s \in Slots : slot[s] = "idle" /\ slot' = [slot EXCEPT ![s] = t]
    BY <1>0, <1>4 DEF GetReleased, TakeSlot, Idle, wires, PoolTypeOK, Places
  <2>2. QED
    BY <2>1, MoveShape
<1>5. CASE Dial(t)
  BY <1>5, DialShape
<1>6. CASE OpenSlot(t)
  BY <1>6, OpenSlotShape
<1>7. CASE NoSlot(t) \/ PublishFails(t)
  BY <1>0, <1>7, RaisesShape DEF NoSlot, PublishFails, wires, PoolTypeOK
<1>8. CASE SendParcel(t)
  BY <1>8, SendParcelShape
<1>9. CASE Confirmed(t)
  <2>1. /\ at[t] = "confirm" /\ acks' \subseteq acks /\ UNCHANGED <<inflight, accepted, mishaps>>
    BY <1>9 DEF Confirmed
  <2>2. CASE closing # "no" /\ Raises(t)
    BY <1>0, <2>1, <2>2, RaisesShape DEF PoolTypeOK
  <2>3. CASE /\ closing = "no" /\ Returns(t, "returned") /\ slot' = Released(t)
             /\ UNCHANGED <<tries, on, live, conn, up, lock, closing>>
    BY <2>1, <2>3, ReturnShape
  <2>4. QED
    BY <1>9, <2>2, <2>3 DEF Confirmed
<1>10. CASE TimesOut(t)
  BY <1>0, <1>10, MishapType, RaisesShape DEF TimesOut, wires, PoolTypeOK
<1>11. CASE Cancel(t)
  <2>1. /\ Mishap /\ Returns(t, "raised")
        /\ slot' = Released(t) /\ conn' = HandedBack(t) /\ lock' = Unlocked(t)
        /\ UNCHANGED <<tries, on, live, up, closing, inflight, accepted, acks>>
    BY <1>11 DEF Cancel, wires
  <2>2. To(t, "idle") /\ ended' = [ended EXCEPT ![t] = "raised"]
    BY <2>1 DEF Returns
  <2>3. /\ at' \in [Tasks -> Places]
        /\ slot' \in [Slots -> {"none", "idle", "gone"} \cup Tasks]
        /\ conn' \in [Links -> {"none", "idle", "shut"} \cup Tasks]
        /\ lock' \in Tasks \cup {None}
        /\ Seated' /\ Wired' /\ TornDown' /\ TeardownClosesAll'
    BY <2>1, <2>2, LetGo
  <2>4. PoolTypeOK'
    BY <1>0, <2>1, <2>2, <2>3, MishapType DEF PoolTypeOK
  <2>5. QED
    BY <2>3, <2>4 DEF PoolShape
<1>12. QED
  BY <1>1, <1>2, <1>3, <1>4, <1>5, <1>6, <1>7, <1>8, <1>9, <1>10, <1>11 DEF TaskStep

LEMMA NetworkShape ==
  ASSUME PoolShape,
         \/ \E f \in inflight : Accept(f) \/ Refuse(f)
         \/ \E k \in Links : Interrupt(k) \/ Restore(k)
  PROVE  PoolShape'
<1>1. ASSUME NEW f \in inflight, Accept(f) \/ Refuse(f)
      PROVE  PoolShape'
  <2>1. /\ UNCHANGED <<at, tries, slot, on, live, conn, up, lock, closing, ended>>
        /\ inflight' \subseteq Parcels /\ accepted' \subseteq Parcels /\ acks' \subseteq Parcels
        /\ mishaps' \in 0..MaxMishaps
    BY <1>1, MishapType DEF Accept, Refuse, channelVars, PoolShape, PoolTypeOK
  <2>2. QED
    BY <2>1 DEF PoolShape, PoolTypeOK, Seated, Wired, TornDown, TeardownClosesAll
<1>2. ASSUME NEW k \in Links, Interrupt(k) \/ Restore(k)
      PROVE  PoolShape'
  <2>1. /\ UNCHANGED <<at, tries, slot, on, live, conn, lock, closing, ended>>
        /\ inflight' \subseteq Parcels /\ accepted' \subseteq Parcels /\ acks' \subseteq Parcels
        /\ mishaps' \in 0..MaxMishaps /\ up' \subseteq Links
    BY <1>2, MishapType DEF Interrupt, Restore, channelVars, wires, PoolShape, PoolTypeOK
  <2>2. closing = "done" => up' = {}
    BY <1>2 DEF Interrupt, Restore, PoolShape, TeardownClosesAll
  <2>3. QED
    BY <2>1, <2>2 DEF PoolShape, PoolTypeOK, Seated, Wired, TornDown, TeardownClosesAll
<1>3. QED
  BY <1>1, <1>2

LEMMA TeardownShape ==
  ASSUME PoolShape, CloseSlots \/ CloseLinks
  PROVE  PoolShape'
<1>1. CASE CloseSlots
  BY <1>1 DEF CloseSlots, wires, PoolShape, PoolTypeOK, Seated, Wired, TornDown, TeardownClosesAll
<1>2. CASE CloseLinks
  <2>1. /\ closing' = "done" /\ live' = {} /\ up' = {} /\ \A t \in Tasks : at[t] # "dial"
        /\ UNCHANGED <<at, tries, slot, on, lock, inflight, accepted, acks, ended, mishaps>>
    BY <1>2 DEF CloseLinks, wires
  <2>2. /\ conn' \in [Links -> {"none", "idle", "shut"} \cup Tasks]
        /\ \A k \in Links : conn'[k] \in {"none", "shut"}
    BY <1>2 DEF CloseLinks
  <2>3. QED
    BY <2>1, <2>2 DEF PoolShape, PoolTypeOK, Seated, Wired, TornDown, TeardownClosesAll
<1>3. QED
  BY <1>1, <1>2

LEMMA PoolShapeNext == PoolShape /\ [PoolNext]_poolVars => PoolShape'
<1>1. ASSUME PoolShape, UNCHANGED poolVars PROVE PoolShape'
  BY <1>1 DEF poolVars, PoolShape, PoolTypeOK, Seated, Wired, TornDown, TeardownClosesAll
<1>2. ASSUME PoolShape, PoolNext PROVE PoolShape'
  BY <1>1, <1>2, TaskShape, NetworkShape, TeardownShape DEF PoolNext, PoolRest
<1>3. QED
  BY <1>1, <1>2

\* Tasks, channels, connections, the lock and teardown fit together in every
\* reachable state.
THEOREM PoolShapeInvariant == PoolSpec => []PoolShape
BY PoolInitShape, PoolShapeNext, PTL DEF PoolSpec

\* Nothing of the pools has a value it should not have: PoolTypeOK.
THEOREM PoolTypeCorrect == PoolSpec => []PoolTypeOK
<1>1. PoolShape => PoolTypeOK
  BY DEF PoolShape
<1>2. QED
  BY <1>1, PoolShapeInvariant, PTL

\* Wherever a fault or a cancellation reaches a task, a channel, a connection or
\* the lock is only out with a task that is using it: SlotsAccountedFor.
THEOREM PoolsAccountedFor == PoolSpec => []SlotsAccountedFor
<1>1. PoolShape => SlotsAccountedFor
  <2>1. SUFFICES ASSUME PoolShape PROVE SlotsAccountedFor
    OBVIOUS
  <2>2. ASSUME NEW t \in Tasks
        PROVE  Cardinality(Held(t)) <= 1
    <3>1. CASE Held(t) = {}
      BY <3>1, FS_EmptySet
    <3>2. CASE Held(t) # {}
      <4>1. PICK s : s \in Held(t)
        BY <3>2
      <4>2. Held(t) = {s}
        BY <2>1, <4>1 DEF Held, PoolShape, Seated
      <4>3. Cardinality({s}) = 1
        BY FS_Singleton
      <4>4. QED
        BY <4>2, <4>3
    <3>3. QED
      BY <3>1, <3>2
  <2>3. \A k \in Links : conn[k] \in Tasks => at[conn[k]] = "channel" /\ lock = conn[k]
    BY <2>1 DEF PoolShape, Wired
  <2>4. QED
    BY <2>1, <2>2, <2>3 DEF PoolShape, Seated, Wired, SlotsAccountedFor
<1>2. QED
  BY <1>1, PoolShapeInvariant, PTL

\* teardown leaves nothing open, and nothing is opened after it: TeardownClosesAll.
THEOREM TeardownComplete == PoolSpec => []TeardownClosesAll
<1>1. PoolShape => TeardownClosesAll
  BY DEF PoolShape
<1>2. QED
  BY <1>1, PoolShapeInvariant, PTL

-----------------------------------------------------------------------------
(* What the tasks have sent. *)

Sent(t) == {f \in inflight \cup accepted : f.task = t}

\* The attempt has failed, or is bound to, while there is still another: after
\* teardown has begun there is none, since nobody acquires a channel any more.
Spent(t) ==
  /\ closing = "no"
  /\ at[t] = "sleep" \/ (at[t] = "confirm" /\ (~Usable(t) \/ Parcel(t) = {}))

\* Before an attempt sends, the event has fewer copies than attempts and no more than
\* there were mishaps; so it has when the attempt that sent it has failed.
Account(t) ==
  LET n == Cardinality(Sent(t))
  IN  /\ tries[t] <= Tries[t]
      /\ at[t] # "idle" => tries[t] > 0
      /\ ended[t] = "returned" => \E f \in accepted : f.task = t
      /\ at[t] = "idle" /\ ended[t] = "none" => Sent(t) = {}
      /\ n <= 1 + mishaps
      /\ n <= tries[t]
      /\ at[t] \in {"full", "lock", "dial", "channel", "declare"} => n < tries[t] /\ n <= mishaps
      /\ Spent(t) => n <= mishaps

Counted ==
  /\ IsFiniteSet(inflight) /\ IsFiniteSet(accepted) /\ acks \subseteq accepted
  /\ \A t \in Tasks : Account(t)

LEMMA SentFinite ==
  ASSUME IsFiniteSet(inflight), IsFiniteSet(accepted), NEW t
  PROVE  IsFiniteSet(Sent(t)) /\ Cardinality(Sent(t)) \in Nat
<1>1. IsFiniteSet(inflight \cup accepted)
  BY FS_Union
<1>2. Sent(t) \in SUBSET (inflight \cup accepted)
  BY DEF Sent
<1>3. QED
  BY <1>1, <1>2, FS_Subset, FS_CardinalityType

\* A step in which t sends nothing, and that keeps what its account says of it.
LEMMA AccountStays ==
  ASSUME PoolShape, Counted, NEW t \in Tasks, Sent(t)' \subseteq Sent(t), accepted \subseteq accepted',
         mishaps' \in Nat, mishaps <= mishaps',
         tries'[t] \in Nat, tries'[t] <= Tries[t], at'[t] # "idle" => tries'[t] > 0,
         ended'[t] = "returned" => ended[t] = "returned" \/ \E f \in accepted' : f.task = t,
         at'[t] = "idle" /\ ended'[t] = "none" => at[t] = "idle" /\ ended[t] = "none",
         Cardinality(Sent(t)) <= tries'[t],
         at'[t] \in {"full", "lock", "dial", "channel", "declare"} =>
           Cardinality(Sent(t)) < tries'[t] /\ Cardinality(Sent(t)) <= mishaps',
         Spent(t)' => Cardinality(Sent(t)) <= mishaps'
  PROVE  Account(t)'
<1>1. IsFiniteSet(Sent(t)) /\ Cardinality(Sent(t)) \in Nat
  BY SentFinite DEF Counted
<1>2. Sent(t)' \in SUBSET Sent(t)
  OBVIOUS
<1>3. /\ Cardinality(Sent(t)') \in Nat
      /\ Cardinality(Sent(t)') <= Cardinality(Sent(t))
  BY <1>1, <1>2, FS_Subset, FS_CardinalityType
<1>4. /\ Cardinality(Sent(t)) <= 1 + mishaps
      /\ ended[t] = "returned" => \E f \in accepted : f.task = t
      /\ at[t] = "idle" /\ ended[t] = "none" => Sent(t) = {}
  BY DEF Counted, Account
<1>5. mishaps \in Nat
  BY DEF PoolShape, PoolTypeOK
<1>6. /\ Cardinality(Sent(t)') <= 1 + mishaps'
      /\ Cardinality(Sent(t)') <= tries'[t]
      /\ at'[t] \in {"full", "lock", "dial", "channel", "declare"} =>
           Cardinality(Sent(t)') < tries'[t] /\ Cardinality(Sent(t)') <= mishaps'
      /\ Spent(t)' => Cardinality(Sent(t)') <= mishaps'
  BY <1>1, <1>3, <1>4, <1>5
<1>7. /\ ended'[t] = "returned" => \E f \in accepted' : f.task = t
      /\ at'[t] = "idle" /\ ended'[t] = "none" => Sent(t)' = {}
  BY <1>4
<1>8. QED
  BY <1>6, <1>7 DEF Account

LEMMA InitCounted == PoolInit => Counted
<1>1. SUFFICES ASSUME PoolInit PROVE Counted
  OBVIOUS
<1>2. IsFiniteSet({}) /\ Cardinality({}) = 0
  BY FS_EmptySet
<1>3. \A t \in Tasks : Sent(t) = {}
  BY <1>1 DEF PoolInit, Sent
<1>4. \A t \in Tasks : Cardinality(Sent(t)) = 0
  BY <1>2, <1>3
<1>5. \A t \in Tasks : at[t] = "idle" /\ tries[t] = 0 /\ ended[t] = "none" /\ Tries[t] \in Nat
  BY <1>1 DEF PoolInit
<1>6. mishaps = 0 /\ inflight = {} /\ accepted = {} /\ acks = {}
  BY <1>1 DEF PoolInit
<1>7. \A t \in Tasks : Account(t)
  BY <1>3, <1>4, <1>5, <1>6 DEF Account, Spent
<1>8. QED
  BY <1>2, <1>6, <1>7 DEF Counted

\* acquire() leaves a task waiting, with a channel, or with another failed attempt.
LEMMA AcquirePlace ==
  ASSUME PoolShape, NEW t \in Tasks, Acquire(t)
  PROVE  /\ at'[t] \in {"full", "lock", "declare", "sleep"}
         /\ at'[t] = "sleep" => closing # "no"
         /\ ended' = ended
BY DEF Acquire, TakeSlot, To, PoolShape, PoolTypeOK

\* An attempt that raises has either sent nothing or is spent, unless it costs a mishap.
LEMMA RaisesAccount ==
  ASSUME PoolShape, Counted, NEW t \in Tasks, at[t] \notin {"idle", "sleep"}, Raises(t),
         mishaps' \in Nat, UNCHANGED <<inflight, accepted>>,
         \/ mishaps' = mishaps /\ (closing = "no" => Cardinality(Sent(t)) <= mishaps)
         \/ mishaps' = mishaps + 1
  PROVE  Account(t)'
<1>1. /\ at'[t] = "sleep" /\ UNCHANGED <<tries, ended, closing>>
  BY DEF Raises, To, PoolShape, PoolTypeOK
<1>2. /\ tries[t] \in Nat /\ mishaps \in Nat /\ tries[t] <= Tries[t] /\ tries[t] > 0
      /\ Cardinality(Sent(t)) <= 1 + mishaps /\ Cardinality(Sent(t)) <= tries[t]
      /\ Cardinality(Sent(t)) \in Nat
  BY SentFinite DEF Counted, Account, PoolShape, PoolTypeOK
<1>3. Sent(t)' = Sent(t)
  BY DEF Sent
<1>4. Spent(t)' => Cardinality(Sent(t)) <= mishaps'
  BY <1>1, <1>2 DEF Spent
<1>5. mishaps <= mishaps'
  BY <1>2
<1>6. QED
  BY <1>1, <1>2, <1>3, <1>4, <1>5, AccountStays

\* exchange.publish: one parcel, on the connection of the channel the task holds.
LEMMA SendAccount ==
  ASSUME PoolShape, Counted, NEW t \in Tasks, SendParcel(t)
  PROVE  /\ Account(t)'
         /\ IsFiniteSet(inflight')
<1>1. /\ at[t] = "declare" /\ Usable(t) /\ at'[t] = "confirm"
      /\ UNCHANGED <<tries, slot, on, live, up, closing, accepted, acks, ended, mishaps>>
  BY DEF SendParcel, To, channelVars, PoolShape, PoolTypeOK
<1>2. PICK s : s \in Held(t)
  BY <1>1 DEF Usable
<1>3. Held(t) = {s}
  BY <1>2 DEF Held, PoolShape, Seated
<1> DEFINE g == [task |-> t, try |-> tries[t], link |-> on[s]]
<1>4. inflight' = inflight \cup {g}
  BY <1>3 DEF SendParcel
<1>5. IsFiniteSet(inflight')
  BY <1>4, FS_AddElement DEF Counted
<1>6. Sent(t)' = Sent(t) \cup {g}
  BY <1>1, <1>4 DEF Sent
<1>7. IsFiniteSet(Sent(t)) /\ Cardinality(Sent(t)) \in Nat
  BY SentFinite DEF Counted
<1>8. Cardinality(Sent(t) \cup {g}) \in {Cardinality(Sent(t)), Cardinality(Sent(t)) + 1}
  BY <1>7, FS_AddElement
<1>9. /\ Cardinality(Sent(t)) < tries[t] /\ Cardinality(Sent(t)) <= mishaps
      /\ tries[t] <= Tries[t] /\ tries[t] > 0 /\ tries[t] \in Nat /\ mishaps \in Nat
      /\ ended[t] = "returned" => \E f \in accepted : f.task = t
  BY <1>1 DEF Counted, Account, PoolShape, PoolTypeOK
<1>10. Cardinality(Sent(t)') <= tries[t] /\ Cardinality(Sent(t)') <= 1 + mishaps
  BY <1>6, <1>7, <1>8, <1>9
<1>11. ~ Spent(t)'
  <2>1. g \in Parcel(t)'
    BY <1>1, <1>4 DEF Parcel
  <2>2. Usable(t)'
    BY <1>1 DEF Usable, Held
  <2>3. QED
    BY <1>1, <2>1, <2>2 DEF Spent
<1>12. QED
  BY <1>1, <1>5, <1>9, <1>10, <1>11 DEF Account

\* What a task does keeps its own account.
LEMMA OwnAccount ==
  ASSUME PoolShape, Counted, NEW t \in Tasks, PublishCall(t) \/ TaskStep(t) \/ TimesOut(t) \/ Cancel(t)
  PROVE  Account(t)'
<1>0. PoolTypeOK /\ PoolTypeOK'
  BY TaskShape DEF PoolShape
<1>a. /\ tries[t] \in Nat /\ tries'[t] \in Nat /\ mishaps \in Nat /\ mishaps' \in Nat
      /\ Tries[t] \in Nat /\ Cardinality(Sent(t)) \in Nat
  BY <1>0, SentFinite DEF PoolTypeOK, Counted
<1>b. /\ tries[t] <= Tries[t]
      /\ at[t] # "idle" => tries[t] > 0
      /\ at[t] = "idle" /\ ended[t] = "none" => Sent(t) = {}
      /\ Cardinality(Sent(t)) <= 1 + mishaps
      /\ Cardinality(Sent(t)) <= tries[t]
      /\ at[t] \in {"full", "lock", "dial", "channel", "declare"} =>
           Cardinality(Sent(t)) < tries[t] /\ Cardinality(Sent(t)) <= mishaps
      /\ Spent(t) => Cardinality(Sent(t)) <= mishaps
  BY DEF Counted, Account
<1>c. UNCHANGED <<inflight, accepted>> => Sent(t)' = Sent(t)
  BY DEF Sent
<1>1. CASE PublishCall(t)
  <2>1. /\ at[t] = "idle" /\ ended[t] = "none"
        /\ UNCHANGED <<closing, inflight, accepted, mishaps>>
    BY <1>1 DEF PublishCall, wires
  <2>2. Sent(t) = {} /\ Cardinality({}) = 0
    BY <1>b, <2>1, FS_EmptySet
  <2>3. Cardinality(Sent(t)) = 0
    BY <2>2
  <2>4. CASE Tries[t] > 0 /\ tries' = [tries EXCEPT ![t] = 1] /\ Acquire(t)
    <3>1. tries'[t] = 1
      BY <1>0, <2>4 DEF PoolTypeOK
    <3>2. at'[t] \in {"full", "lock", "declare", "sleep"} /\ ended' = ended
      BY <2>4, AcquirePlace
    <3>3. QED
      BY <1>a, <1>c, <2>1, <2>3, <2>4, <3>1, <3>2, AccountStays
  <2>5. CASE Returns(t, "raised") /\ UNCHANGED <<tries, slot>>
    <3>1. at'[t] = "idle" /\ ended'[t] = "raised"
      BY <1>0, <2>5 DEF Returns, To, PoolTypeOK
    <3>2. ~ Spent(t)'
      BY <3>1 DEF Spent
    <3>3. QED
      BY <1>a, <1>b, <1>c, <2>1, <2>3, <2>5, <3>1, <3>2, AccountStays
  <2>6. QED
    BY <1>1, <2>4, <2>5 DEF PublishCall
<1>2. CASE Retry(t)
  <2>1. /\ at[t] = "sleep" /\ UNCHANGED <<closing, inflight, accepted, mishaps>>
    BY <1>2 DEF Retry, wires
  <2>2. CASE tries[t] < Tries[t] /\ tries' = [tries EXCEPT ![t] = @ + 1] /\ Acquire(t)
    <3>1. tries'[t] = tries[t] + 1
      BY <1>0, <2>2 DEF PoolTypeOK
    <3>2. /\ at'[t] \in {"full", "lock", "declare", "sleep"} /\ ended' = ended
          /\ at'[t] = "sleep" => closing # "no"
      BY <2>2, AcquirePlace
    <3>3. ~ Spent(t)'
      BY <2>1, <3>2 DEF Spent
    <3>4. closing = "no" => Cardinality(Sent(t)) <= mishaps
      BY <1>b, <2>1 DEF Spent
    <3>5. at'[t] \in {"full", "lock", "dial", "channel", "declare"} => closing = "no"
      BY <1>0, <2>2 DEF Acquire, TakeSlot, To, PoolTypeOK
    <3>6. tries'[t] <= Tries[t] /\ tries'[t] > 0 /\ Cardinality(Sent(t)) < tries'[t]
      BY <1>a, <1>b, <2>2, <3>1
    <3>7. at'[t] # "idle"
      BY <3>2
    <3>8. QED
      BY <1>a, <1>c, <2>1, <3>2, <3>3, <3>4, <3>5, <3>6, <3>7, AccountStays
  <2>3. CASE Returns(t, "raised") /\ UNCHANGED <<tries, slot>>
    <3>1. at'[t] = "idle" /\ ended'[t] = "raised"
      BY <1>0, <2>3 DEF Returns, To, PoolTypeOK
    <3>2. ~ Spent(t)'
      BY <3>1 DEF Spent
    <3>3. QED
      BY <1>a, <1>b, <1>c, <2>1, <2>3, <3>1, <3>2, AccountStays
  <2>4. QED
    BY <1>2, <2>2, <2>3 DEF Retry
<1>3. ASSUME at[t] \in {"full", "lock", "dial", "channel"},
             \/ at'[t] \in {"full", "lock", "dial", "channel", "declare"}
             \/ closing # "no" /\ at'[t] = "sleep",
             UNCHANGED <<tries, closing, inflight, accepted, ended, mishaps>>
      PROVE  Account(t)'
  <2>1. ~ Spent(t)'
    BY <1>3 DEF Spent
  <2>2. QED
    BY <1>a, <1>b, <1>c, <1>3, <2>1, AccountStays
<1>4. CASE EnterLock(t)
  <2>1. /\ at[t] = "lock" /\ UNCHANGED <<tries, closing, inflight, accepted, ended, mishaps>>
        /\ \/ To(t, "full") \/ To(t, "channel") \/ To(t, "dial")
           \/ closing # "no" /\ To(t, "sleep")
    BY <1>4 DEF EnterLock, wires
  <2>2. \/ at'[t] \in {"full", "channel", "dial"}
        \/ closing # "no" /\ at'[t] = "sleep"
    BY <1>0, <2>1 DEF To, PoolTypeOK
  <2>3. QED
    BY <1>3, <2>1, <2>2
<1>5. CASE GetReleased(t)
  <2>1. /\ at[t] = "full" /\ UNCHANGED <<tries, closing, inflight, accepted, ended, mishaps>>
        /\ at'[t] = "declare"
    BY <1>0, <1>5 DEF GetReleased, TakeSlot, To, wires, PoolTypeOK
  <2>2. QED
    BY <1>3, <2>1
<1>6. CASE Dial(t)
  <2>1. CASE Mishap /\ Raises(t)
    BY <1>a, <1>6, <2>1, RaisesAccount DEF Dial, Mishap, wires
  <2>2. CASE To(t, "channel") /\ UNCHANGED <<tries, channelVars, lock, closing, ended, mishaps>>
    <3>1. /\ at[t] = "dial" /\ UNCHANGED <<tries, closing, inflight, accepted, ended, mishaps>>
          /\ at'[t] = "channel"
      BY <1>0, <1>6, <2>2 DEF Dial, To, wires, PoolTypeOK
    <3>2. QED
      BY <1>3, <3>1
  <2>3. QED
    BY <1>6, <2>1, <2>2 DEF Dial
<1>7. CASE OpenSlot(t)
  <2>1. /\ at[t] = "channel" /\ UNCHANGED <<tries, closing, inflight, accepted, ended, mishaps>>
        /\ at'[t] = "declare"
    BY <1>0, <1>7 DEF OpenSlot, To, wires, PoolTypeOK
  <2>2. QED
    BY <1>3, <2>1
<1>8. CASE NoSlot(t)
  BY <1>a, <1>b, <1>8, RaisesAccount DEF NoSlot, wires
<1>9. CASE SendParcel(t)
  BY <1>9, SendAccount
<1>10. CASE PublishFails(t)
  <2>1. at[t] \in {"declare", "confirm"} /\ Raises(t) /\ UNCHANGED <<inflight, accepted, mishaps>>
    BY <1>10 DEF PublishFails, wires
  <2>2. closing = "no" => Cardinality(Sent(t)) <= mishaps
    BY <1>b, <1>10 DEF PublishFails, Spent
  <2>3. QED
    BY <1>a, <2>1, <2>2, RaisesAccount
<1>11. CASE Confirmed(t)
  <2>1. at[t] = "confirm" /\ UNCHANGED <<inflight, accepted, mishaps>>
    BY <1>11 DEF Confirmed
  <2>2. CASE closing # "no" /\ Raises(t)
    BY <1>a, <2>1, <2>2, RaisesAccount
  <2>3. CASE closing = "no" /\ Returns(t, "returned") /\ tries' = tries
    <3>1. at'[t] = "idle" /\ ended'[t] = "returned"
      BY <1>0, <2>3 DEF Returns, To, PoolTypeOK
    <3>2. \E f \in accepted : f.task = t
      BY <1>11 DEF Confirmed, Parcel, Counted
    <3>3. ~ Spent(t)'
      BY <3>1 DEF Spent
    <3>4. QED
      BY <1>a, <1>b, <1>c, <2>1, <2>3, <3>1, <3>2, <3>3, AccountStays
  <2>4. QED
    BY <1>11, <2>2, <2>3 DEF Confirmed
<1>12. CASE TimesOut(t)
  BY <1>a, <1>12, RaisesAccount DEF TimesOut, Mishap, wires
<1>13. CASE Cancel(t)
  <2>1. UNCHANGED <<tries, inflight, accepted>> /\ mishaps' = mishaps + 1 /\ Returns(t, "raised")
    BY <1>13 DEF Cancel, Mishap, wires
  <2>2. at'[t] = "idle" /\ ended'[t] = "raised"
    BY <1>0, <2>1 DEF Returns, To, PoolTypeOK
  <2>3. ~ Spent(t)'
    BY <2>2 DEF Spent
  <2>4. QED
    BY <1>a, <1>b, <1>c, <2>1, <2>2, <2>3, AccountStays
<1>14. QED
  BY <1>1, <1>2, <1>4, <1>5, <1>6, <1>7, <1>8, <1>9, <1>10, <1>11, <1>12, <1>13 DEF TaskStep

\* What a task does leaves the accounts of the others alone: it takes no channel,
\* no connection and no confirmation from them.
LEMMA OtherAccounts ==
  ASSUME PoolShape, Counted, NEW t \in Tasks, PublishCall(t) \/ TaskStep(t) \/ TimesOut(t) \/ Cancel(t)
  PROVE  /\ \A u \in Tasks \ {t} : Account(u)'
         /\ IsFiniteSet(inflight') /\ accepted' = accepted /\ acks' \subseteq acks
<1>0. PoolTypeOK /\ PoolTypeOK' /\ Seated
  BY TaskShape DEF PoolShape
<1>1. accepted' = accepted /\ acks' \subseteq acks /\ mishaps' \in {mishaps, mishaps + 1} /\ closing' = closing
  BY DEF PublishCall, TaskStep, Retry, EnterLock, GetReleased, Dial, OpenSlot, NoSlot, SendParcel,
         PublishFails, Confirmed, TimesOut, Cancel, Raises, Mishap, wires
<1>2. \/ UNCHANGED inflight
      \/ SendParcel(t)
  BY DEF PublishCall, TaskStep, Retry, EnterLock, GetReleased, Dial, OpenSlot, NoSlot,
         PublishFails, Confirmed, TimesOut, Cancel, wires
<1>3. IsFiniteSet(inflight')
  BY <1>2, SendAccount DEF Counted
<1>4. /\ inflight \subseteq inflight' /\ \A f \in inflight' \ inflight : f.task = t
      /\ \A f \in acks \ acks' : f.task = t
  <2>1. inflight \subseteq inflight' /\ \A f \in inflight' \ inflight : f.task = t
    BY <1>2 DEF SendParcel
  <2>2. acks' = acks \/ Confirmed(t)
    BY DEF PublishCall, TaskStep, Retry, EnterLock, GetReleased, Dial, OpenSlot, NoSlot, SendParcel,
           PublishFails, TimesOut, Cancel, wires
  <2>3. \A f \in acks \ acks' : f.task = t
    BY <2>2 DEF Confirmed, Parcel
  <2>4. QED
    BY <2>1, <2>3
<1>5. \A u \in Tasks \ {t} : at'[u] = at[u] /\ tries'[u] = tries[u] /\ ended'[u] = ended[u]
  BY <1>0 DEF PublishCall, TaskStep, Retry, EnterLock, GetReleased, Dial, OpenSlot, NoSlot,
         SendParcel, PublishFails, Confirmed, TimesOut, Cancel, Raises, Returns, Acquire, TakeSlot, To,
         PoolTypeOK
<1>6. up \subseteq up' /\ live \subseteq live'
  BY DEF PublishCall, TaskStep, Retry, EnterLock, GetReleased, Dial, OpenSlot, NoSlot,
         SendParcel, PublishFails, Confirmed, TimesOut, Cancel, Raises, channelVars
<1>7. \A s \in Slots : slot[s] \in Tasks \ {t} => slot'[s] = slot[s] /\ on'[s] = on[s]
  <2>1. CASE \/ slot' = slot
             \/ slot' = Released(t)
             \/ \E s \in Idle : slot' = [slot EXCEPT ![s] = t]
    <3>1. on' = on \/ OpenSlot(t)
      BY DEF PublishCall, TaskStep, Retry, EnterLock, GetReleased, Dial, NoSlot,
             SendParcel, PublishFails, Confirmed, TimesOut, Cancel, Raises, channelVars
    <3>2. ~ OpenSlot(t) => on' = on
      BY <3>1
    <3>3. \A s \in Slots : slot[s] \in Tasks \ {t} => slot'[s] = slot[s]
      BY <1>0, <2>1 DEF Released, Idle, PoolTypeOK
    <3>4. \A s \in Slots : slot[s] \in Tasks \ {t} => on'[s] = on[s]
      BY <1>0, <3>2 DEF OpenSlot, Unmade, PoolTypeOK
    <3>5. QED
      BY <3>3, <3>4
  <2>2. CASE OpenSlot(t)
    BY <1>0, <2>2 DEF OpenSlot, Unmade, PoolTypeOK
  <2>3. QED
    BY <2>1, <2>2
       DEF PublishCall, TaskStep, Retry, EnterLock, GetReleased, Dial, NoSlot, SendParcel,
           PublishFails, Confirmed, TimesOut, Cancel, Raises, Acquire, TakeSlot, channelVars
<1>8. ASSUME NEW u \in Tasks \ {t}
      PROVE  Account(u)'
  <2>1. Sent(u)' \subseteq Sent(u)
    BY <1>1, <1>4 DEF Sent
  <2>2. Parcel(u) \subseteq Parcel(u)'
    BY <1>4, <1>5 DEF Parcel
  <2>3. Usable(u) => Usable(u)'
    BY <1>6, <1>7 DEF Usable, Held
  <2>4. Spent(u)' => Spent(u)
    BY <1>1, <1>5, <2>2, <2>3 DEF Spent
  <2>5. mishaps \in Nat /\ mishaps' \in Nat /\ mishaps <= mishaps' /\ tries[u] \in Nat
    BY <1>0, <1>1 DEF PoolTypeOK
  <2>6. /\ tries[u] <= Tries[u] /\ (at[u] # "idle" => tries[u] > 0)
        /\ Cardinality(Sent(u)) \in Nat
        /\ Cardinality(Sent(u)) <= tries[u]
        /\ at[u] \in {"full", "lock", "dial", "channel", "declare"} =>
             Cardinality(Sent(u)) < tries[u] /\ Cardinality(Sent(u)) <= mishaps
        /\ Spent(u) => Cardinality(Sent(u)) <= mishaps
    BY SentFinite DEF Counted, Account
  <2>7. tries'[u] = tries[u] /\ at'[u] = at[u] /\ ended'[u] = ended[u]
    BY <1>5
  <2>8. QED
    BY <1>1, <2>1, <2>4, <2>5, <2>6, <2>7, AccountStays
<1>9. QED
  BY <1>1, <1>3, <1>8

\* What the broker, the network and teardown do costs a mishap, or spends no attempt.
LEMMA WorldAccounts ==
  ASSUME PoolShape, Counted,
         \/ \E f \in inflight : Accept(f) \/ Refuse(f)
         \/ \E k \in Links : Interrupt(k) \/ Restore(k)
         \/ CloseSlots \/ CloseLinks
  PROVE  Counted'
<1>0. PoolTypeOK
  BY DEF PoolShape
<1>1. /\ UNCHANGED <<at, tries, slot, on, ended>>
      /\ accepted \subseteq accepted' /\ inflight' \cup accepted' \subseteq inflight \cup accepted
      /\ inflight' \subseteq inflight /\ mishaps' \in {mishaps, mishaps + 1}
  BY DEF Accept, Refuse, Interrupt, Restore, CloseSlots, CloseLinks, Mishap, channelVars, wires
<1>2. IsFiniteSet(inflight') /\ IsFiniteSet(accepted') /\ acks' \subseteq accepted'
  <2>1. IsFiniteSet(inflight \cup accepted)
    BY FS_Union DEF Counted
  <2>2. IsFiniteSet(inflight') /\ IsFiniteSet(accepted')
    BY <1>1, <2>1, FS_Subset
  <2>3. QED
    BY <2>2 DEF Counted, Accept, Refuse, Interrupt, Restore, CloseSlots, CloseLinks, wires
<1>3. \/ mishaps' = mishaps + 1
      \/ closing' # "no"
      \/ /\ mishaps' = mishaps /\ closing' = closing /\ up \subseteq up' /\ live' = live
         /\ inflight \cup acks \subseteq inflight' \cup acks'
  BY DEF Accept, Refuse, Interrupt, Restore, CloseSlots, CloseLinks, Mishap, channelVars, wires
<1>4. ASSUME NEW t \in Tasks
      PROVE  Account(t)'
  <2>1. Sent(t)' \subseteq Sent(t)
    BY <1>1 DEF Sent
  <2>2. mishaps \in Nat /\ mishaps' \in Nat /\ mishaps <= mishaps' /\ tries[t] \in Nat
    BY <1>0, <1>1 DEF PoolTypeOK
  <2>3. /\ tries[t] <= Tries[t] /\ (at[t] # "idle" => tries[t] > 0)
        /\ Cardinality(Sent(t)) \in Nat
        /\ Cardinality(Sent(t)) <= tries[t] /\ Cardinality(Sent(t)) <= 1 + mishaps
        /\ at[t] \in {"full", "lock", "dial", "channel", "declare"} =>
             Cardinality(Sent(t)) < tries[t] /\ Cardinality(Sent(t)) <= mishaps
        /\ Spent(t) => Cardinality(Sent(t)) <= mishaps
    BY SentFinite DEF Counted, Account
  <2>4. Spent(t)' => Cardinality(Sent(t)) <= mishaps'
    <3>1. CASE mishaps' = mishaps + 1
      BY <2>2, <2>3, <3>1
    <3>2. CASE closing' # "no"
      BY <3>2 DEF Spent
    <3>3. CASE /\ mishaps' = mishaps /\ closing' = closing /\ up \subseteq up' /\ live' = live
               /\ inflight \cup acks \subseteq inflight' \cup acks'
      <4>1. Parcel(t) \subseteq Parcel(t)'
        BY <1>1, <3>3 DEF Parcel
      <4>2. Usable(t) => Usable(t)'
        BY <1>1, <3>3 DEF Usable, Held
      <4>3. Spent(t)' => Spent(t)
        BY <1>1, <3>3, <4>1, <4>2 DEF Spent
      <4>4. QED
        BY <2>3, <3>3, <4>3
    <3>4. QED
      BY <1>3, <3>1, <3>2, <3>3
  <2>5. QED
    BY <1>1, <2>1, <2>2, <2>3, <2>4, AccountStays
<1>5. QED
  BY <1>2, <1>4 DEF Counted

PoolIInv == PoolShape /\ Counted

LEMMA PoolInvNext == PoolIInv /\ [PoolNext]_poolVars => PoolIInv'
<1>1. ASSUME PoolIInv, UNCHANGED poolVars PROVE Counted'
  BY <1>1 DEF PoolIInv, Counted, Account, Sent, Spent, Usable, Held, Parcel, poolVars
<1>2. ASSUME PoolIInv, NEW t \in Tasks, PublishCall(t) \/ TaskStep(t) \/ TimesOut(t) \/ Cancel(t)
      PROVE  Counted'
  <2>1. Account(t)'
    BY <1>2, OwnAccount DEF PoolIInv
  <2>2. /\ \A u \in Tasks \ {t} : Account(u)'
        /\ IsFiniteSet(inflight') /\ accepted' = accepted /\ acks' \subseteq acks
    BY <1>2, OtherAccounts DEF PoolIInv
  <2>3. \A u \in Tasks : Account(u)'
    BY <2>1, <2>2
  <2>4. QED
    BY <1>2, <2>2, <2>3 DEF PoolIInv, Counted
<1>3. ASSUME PoolIInv, PoolNext PROVE Counted'
  BY <1>1, <1>2, <1>3, WorldAccounts DEF PoolIInv, PoolNext, PoolRest
<1>4. QED
  BY <1>1, <1>3, PoolShapeNext DEF PoolIInv

\* The inductive invariant: who holds what, and what the tasks have sent.
THEOREM PoolInvariance == PoolSpec => []PoolIInv
<1>1. PoolInit => PoolIInv
  BY PoolInitShape, InitCounted DEF PoolIInv
<1>2. QED
  BY <1>1, PoolInvNext, PTL DEF PoolSpec

\* publish returns only when the broker has stored the event, and whatever a caller
\* or aio_retry repeats, each further copy was paid for by a mishap, and a task
\* leaves at most `attempts` of them: ReturnedIsStored.
THEOREM PoolTellsTheTruth == PoolSpec => []ReturnedIsStored
<1>1. PoolIInv => ReturnedIsStored
  <2>1. SUFFICES ASSUME PoolIInv, NEW t \in Tasks
                 PROVE  /\ ended[t] = "returned" => \E f \in accepted : f.task = t
                        /\ Cardinality(Sent(t)) <= 1 + mishaps
                        /\ Cardinality(Sent(t)) <= Tries[t]
    BY DEF ReturnedIsStored, Sent
  <2>2. /\ Cardinality(Sent(t)) \in Nat /\ tries[t] \in Nat /\ Tries[t] \in Nat
    BY <2>1, SentFinite DEF PoolIInv, Counted, PoolShape, PoolTypeOK
  <2>3. QED
    BY <2>1, <2>2 DEF PoolIInv, Counted, Account
<1>2. QED
  BY <1>1, PoolInvariance, PTL
=============================================================================
