------------------------------- MODULE BusProofs -------------------------------
(***************************************************************************)
(* Theorems about Sessions for every value of its constants: any           *)
(* connections, any number of failures and of exceptions of the callback,  *)
(* and every class of consumer; and about MCBus, which composes Sessions   *)
(* with the two producers: each client behaves in it as its own module     *)
(* says, so that what is proved of the modules holds of the composition.   *)
(***************************************************************************)
EXTENDS MCBus, DjangoProducerProofs, AioProducerProofs

USE SessionAssumption

-----------------------------------------------------------------------------
(* The plan. *)

\* Whatever the class, the last request of the plan subscribes, and it is the only
\* one; the bindings are declared before it.
LEMMA PlanShape ==
  ASSUME class \in Classes
  PROVE  /\ Len(Plan) \in 4..8
         /\ DOMAIN Plan = 1..Len(Plan)
         /\ \A i \in 1..Len(Plan) : Plan[i] = "subscribe" <=> i = Len(Plan)
         /\ \E i \in 1..Len(Plan) - 1 : Plan[i] = "keys"
<1>1. CASE class \in {"aio", "base", "garbage"}
  <2>1. Plan = <<"qos", "queue", "keys", "subscribe">>
    BY <1>1 DEF Plan
  <2>2. QED
    BY <2>1
<1>2. CASE class = "aio garbage"
  <2> DEFINE p == <<"qos", "retry", "queue", "garbage", "keys", "garbage key", "retry key", "subscribe">>
  <2>1. Plan = p
    BY <1>2 DEF Plan
  <2>2. Len(p) = 8 /\ DOMAIN p = 1..8
    OBVIOUS
  <2>3. /\ p[1] = "qos" /\ p[2] = "retry" /\ p[3] = "queue" /\ p[4] = "garbage"
        /\ p[5] = "keys" /\ p[6] = "garbage key" /\ p[7] = "retry key" /\ p[8] = "subscribe"
    OBVIOUS
  <2> HIDE DEF p
  <2>4. ASSUME NEW i \in 1..8
        PROVE  p[i] = "subscribe" <=> i = 8
    <3>1. i \in {1, 2, 3, 4, 5, 6, 7, 8}
      BY <2>4
    <3>2. QED
      BY <2>3, <3>1
  <2>5. \E i \in 1..7 : p[i] = "keys"
    <3>1. 5 \in 1..7
      OBVIOUS
    <3>2. QED
      BY <2>3, <3>1
  <2>6. 8 \in 4..8 /\ 8 - 1 = 7
    OBVIOUS
  <2>7. /\ Len(p) \in 4..8 /\ DOMAIN p = 1..Len(p)
        /\ \A i \in 1..Len(p) : p[i] = "subscribe" <=> i = Len(p)
        /\ \E i \in 1..Len(p) - 1 : p[i] = "keys"
    BY <2>2, <2>4, <2>5, <2>6
  <2>8. QED
    BY <2>1, <2>7
<1>3. CASE class = "storing"
  <2> DEFINE p == <<"qos", "queue", "keys", "retry", "garbage", "garbage key", "retry key", "subscribe">>
  <2>1. Plan = p
    BY <1>3 DEF Plan
  <2>2. Len(p) = 8 /\ DOMAIN p = 1..8
    OBVIOUS
  <2>3. /\ p[1] = "qos" /\ p[2] = "queue" /\ p[3] = "keys" /\ p[4] = "retry"
        /\ p[5] = "garbage" /\ p[6] = "garbage key" /\ p[7] = "retry key" /\ p[8] = "subscribe"
    OBVIOUS
  <2> HIDE DEF p
  <2>4. ASSUME NEW i \in 1..8
        PROVE  p[i] = "subscribe" <=> i = 8
    <3>1. i \in {1, 2, 3, 4, 5, 6, 7, 8}
      BY <2>4
    <3>2. QED
      BY <2>3, <3>1
  <2>5. \E i \in 1..7 : p[i] = "keys"
    <3>1. 3 \in 1..7
      OBVIOUS
    <3>2. QED
      BY <2>3, <3>1
  <2>6. 8 \in 4..8 /\ 8 - 1 = 7
    OBVIOUS
  <2>7. /\ Len(p) \in 4..8 /\ DOMAIN p = 1..Len(p)
        /\ \A i \in 1..Len(p) : p[i] = "subscribe" <=> i = Len(p)
        /\ \E i \in 1..Len(p) - 1 : p[i] = "keys"
    BY <2>2, <2>4, <2>5, <2>6
  <2>8. QED
    BY <2>1, <2>7
<1>4. QED
  BY <1>1, <1>2, <1>3 DEF Classes

LEMMA PlanStays == class' = class => Plan' = Plan
BY DEF Plan

-----------------------------------------------------------------------------
(* The inductive invariant, in parts. *)

\* Where the consumer's own connection is: out of `with` it gives the asyncio client
\* and a producer still in its context nothing to consume on.
Anchored ==
  /\ entered \/ inContext => connection \in Conns
  /\ inContext => ~Asyncio
  /\ entered /\ ~Asyncio => inContext
  /\ ~entered /\ (Asyncio \/ inContext) => Dead(connection)
  /\ Asyncio => \A k \in Conns : status[k] # "lost" /\ (status[k] = "open" => k = connection)

\* What a running call works on: the connection of `with`, or one of its own, which
\* is alive; in a context it may turn out to be dead with the first request.
Calling ==
  /\ step \in 0..Len(Plan) + 1
  /\ step = 0 => mine = NoConn
  /\ step > 0 =>
       /\ mine \in Conns
       /\ mine = connection <=> Asyncio \/ inContext
       /\ ~inContext \/ step > 1 => ~Dead(mine)

\* Subscriptions but for the running one are those the callback's exceptions have left
\* inside of `with`.
Subscribed ==
  /\ \A k \in Conns : subs[k] > 0 /\ ~(Consuming /\ k = mine) =>
       k = connection /\ entered /\ inContext /\ subs[k] <= raises
  /\ Consuming => subs[mine] <= 1 + raises /\ (subs[mine] > 1 => inContext)

\* What the running call has been through is in place.
Planned ==
  /\ \A i \in 1..Len(Plan) : i < step =>
       /\ Plan[i] \in Declarations => Plan[i] \in topology
       /\ Plan[i] = "keys" => bound
  /\ SubscribedIsSetUp

\* Open connections that no call and no `with` will close.
Leaked == {k \in OpenConns : ~(k = connection /\ entered) /\ ~(k = mine /\ k # connection)}

SessionPaid == IsFiniteSet(Leaked) /\ Cardinality(Leaked) <= failures

SessionShape == SessionTypeOK /\ Anchored /\ Calling /\ Subscribed /\ Planned

LEMMA SessionInitShape == SessionInit => SessionShape
<1>1. SUFFICES ASSUME SessionInit PROVE SessionShape
  OBVIOUS
<1>2. /\ class \in Classes /\ entered = FALSE /\ inContext = FALSE /\ bound = FALSE
      /\ connection = NoConn /\ mine = NoConn /\ step = 0 /\ raises = 0 /\ failures = 0
      /\ \A k \in Conns : status[k] = "none" /\ chan[k] = "none" /\ subs[k] = 0
      /\ topology \subseteq Declarations
  BY <1>1 DEF SessionInit, Declarations
<1>3. Len(Plan) \in 4..8
  BY <1>2, PlanShape
<1>4. SessionTypeOK
  <2>1. 0 \in 0..MaxRaises + 1 /\ 0 \in 0..MaxRaises /\ 0 \in 0..MaxFailures
    OBVIOUS
  <2>2. subs \in [Conns -> 0..MaxRaises + 1]
    BY <1>1, <2>1 DEF SessionInit
  <2>3. status \in [Conns -> {"none", "open", "lost"}] /\ chan \in [Conns -> {"none", "open", "closed"}]
    BY <1>1 DEF SessionInit
  <2>4. {entered, inContext, bound} \subseteq BOOLEAN /\ {connection, mine} \subseteq Conns \cup {NoConn}
    BY <1>2
  <2>5. step \in 0..9 /\ raises \in 0..MaxRaises /\ failures \in 0..MaxFailures
    BY <1>2, <2>1
  <2>6. QED
    BY <1>2, <2>2, <2>3, <2>4, <2>5 DEF SessionTypeOK
<1>5. Anchored /\ Calling
  BY <1>2, <1>3 DEF Anchored, Calling, Dead
<1>6. Subscribed /\ Planned
  BY <1>2, <1>3 DEF Subscribed, Consuming, Planned, SubscribedIsSetUp
<1>7. QED
  BY <1>4, <1>5, <1>6 DEF SessionShape

-----------------------------------------------------------------------------
(* Types. *)

LEMMA BecomesEffect ==
  ASSUME SessionTypeOK, NEW k \in Conns, NEW s \in {"none", "open", "lost"},
         NEW c \in {"none", "open", "closed"}, NEW n \in 0..MaxRaises + 1, Becomes(k, s, c, n)
  PROVE  /\ status' \in [Conns -> {"none", "open", "lost"}]
         /\ chan' \in [Conns -> {"none", "open", "closed"}]
         /\ subs' \in [Conns -> 0..MaxRaises + 1]
         /\ status'[k] = s /\ chan'[k] = c /\ subs'[k] = n
         /\ \A j \in Conns : j # k => status'[j] = status[j] /\ chan'[j] = chan[j] /\ subs'[j] = subs[j]
BY DEF SessionTypeOK, Becomes

LEMMA FailsType ==
  ASSUME SessionTypeOK, Fails
  PROVE  failures' \in 0..MaxFailures /\ failures' = failures + 1
BY DEF SessionTypeOK, Fails

\* The connections after a step that resets one of them, or leaves them alone.
Lines(k) ==
  /\ status' \in [Conns -> {"none", "open", "lost"}]
  /\ chan' \in [Conns -> {"none", "open", "closed"}]
  /\ subs' \in [Conns -> 0..MaxRaises + 1]
  /\ \A j \in Conns : j # k => status'[j] = status[j] /\ chan'[j] = chan[j] /\ subs'[j] = subs[j]

LEMMA LinesReset ==
  ASSUME SessionTypeOK, NEW k \in Conns, NEW s \in {"none", "open", "lost"},
         NEW c \in {"none", "open", "closed"}, Becomes(k, s, c, 0)
  PROVE  Lines(k) /\ status'[k] = s /\ chan'[k] = c /\ subs'[k] = 0
<1>1. 0 \in 0..MaxRaises + 1
  OBVIOUS
<1>2. QED
  BY <1>1, BecomesEffect DEF Lines

\* What a failing request of the set-up does to the connection of the call: it is
\* paid for, or closed, or was dead and still is.
LEMMA SetUpFailsEffect ==
  ASSUME SessionShape, SetUpFails
  PROVE  /\ mine \in Conns /\ Lines(mine) /\ step' = 0 /\ mine' = NoConn
         /\ step \in 1..Len(Plan)
         /\ subs'[mine] \in {0, subs[mine]}
         /\ \/ UNCHANGED <<status, chan, subs>> /\ failures' = failures + 1 /\ ~Dead(mine)
            \/ status'[mine] = "open" /\ chan'[mine] = "closed" /\ failures' = failures + 1 /\ ~Dead(mine)
            \/ status'[mine] = "none" /\ failures' = failures + 1 /\ ~Dead(mine) /\ ~Asyncio
            \/ /\ Dead(mine) /\ failures' = failures /\ status'[mine] # "lost"
               /\ status'[mine] = "open" => status[mine] = "open" /\ chan'[mine] # "open"
         /\ failures' \in 0..MaxFailures
<1>0. SessionTypeOK /\ Len(Plan) \in 4..8
  BY PlanShape DEF SessionShape, SessionTypeOK
<1>1. mine \in Conns /\ step \in 1..Len(Plan) /\ step' = 0 /\ mine' = NoConn
  BY <1>0 DEF SetUpFails, SettingUp, CallOver, SessionShape, Calling
<1>2. CASE ~Dead(mine) /\ Fails /\ UNCHANGED lineVars
  BY <1>0, <1>1, <1>2, FailsType DEF lineVars, Lines, SessionTypeOK
<1>3. CASE ~Dead(mine) /\ Fails /\ Becomes(mine, "open", "closed", 0)
  BY <1>0, <1>1, <1>3, FailsType, LinesReset
<1>4. CASE ~Dead(mine) /\ ~Asyncio /\ Fails /\ Becomes(mine, "none", "none", 0)
  BY <1>0, <1>1, <1>4, FailsType, LinesReset
<1>5. CASE /\ Dead(mine) /\ UNCHANGED failures
           /\ Becomes(mine, IF status[mine] = "lost" THEN "none" ELSE status[mine],
                            IF chan[mine] = "open" THEN "none" ELSE chan[mine], 0)
  <2> DEFINE st == IF status[mine] = "lost" THEN "none" ELSE status[mine]
             ch == IF chan[mine] = "open" THEN "none" ELSE chan[mine]
  <2>1. st \in {"none", "open", "lost"} /\ ch \in {"none", "open", "closed"}
    BY <1>0, <1>1 DEF SessionTypeOK
  <2>2. Lines(mine) /\ status'[mine] = st /\ chan'[mine] = ch /\ subs'[mine] = 0
    BY <1>0, <1>1, <1>5, <2>1, LinesReset
  <2>3. QED
    BY <1>0, <1>1, <1>5, <2>2 DEF SessionTypeOK
<1>6. QED
  BY <1>2, <1>3, <1>4, <1>5 DEF SetUpFails

-----------------------------------------------------------------------------
(* The shape is kept. *)

\* A step that ends between two calls, and subscribes to nothing.
LEMMA RestShape ==
  ASSUME SessionShape, SessionTypeOK', Anchored', UNCHANGED <<class, topology, bound>>,
         step' = 0, mine' = NoConn,
         \A k \in Conns : subs'[k] > 0 =>
           subs[k] > 0 /\ k = connection' /\ entered' /\ inContext' /\ subs'[k] <= raises'
  PROVE  SessionShape'
<1>1. Plan' = Plan /\ Len(Plan) \in 4..8
  BY PlanStays, PlanShape DEF SessionShape, SessionTypeOK
<1>2. Calling'
  BY <1>1 DEF Calling
<1>3. Subscribed'
  BY <1>1 DEF Subscribed, Consuming
<1>4. Planned'
  BY <1>1 DEF SessionShape, Planned, SubscribedIsSetUp
<1>5. QED
  BY <1>2, <1>3, <1>4 DEF SessionShape

\* Between two calls only what `with` has open is subscribed; before the running
\* call subscribes, neither is it.
LEMMA RestSubs ==
  ASSUME SessionShape
  PROVE  /\ Len(Plan) \in 4..8 /\ step \in Nat /\ raises \in Nat
         /\ ~Consuming => \A k \in Conns : subs[k] > 0 =>
                            k = connection /\ entered /\ inContext /\ subs[k] <= raises
         /\ step = 0 => ~Consuming /\ mine = NoConn
         /\ \A k \in Conns : subs[k] \in 0..MaxRaises + 1
<1>0. SessionTypeOK
  BY DEF SessionShape
<1>1. Len(Plan) \in 4..8 /\ step \in Nat /\ raises \in Nat
  <2>1. class \in Classes /\ step \in 0..9 /\ raises \in 0..MaxRaises
    BY <1>0 DEF SessionTypeOK
  <2>2. Len(Plan) \in 4..8
    BY <2>1, PlanShape
  <2>3. step \in Nat /\ raises \in Nat
    BY <2>1
  <2>4. QED
    BY <2>2, <2>3
<1>2. step = 0 => ~Consuming /\ mine = NoConn
  BY <1>1 DEF Consuming, SessionShape, Calling
<1>3. \A k \in Conns : subs[k] \in 0..MaxRaises + 1
  BY DEF SessionShape, SessionTypeOK
<1>4. ~Consuming => \A k \in Conns : subs[k] > 0 => k = connection /\ entered /\ inContext /\ subs[k] <= raises
  BY DEF SessionShape, Subscribed
<1>5. QED
  BY <1>1, <1>2, <1>3, <1>4

LEMMA OpenSessionShape ==
  ASSUME SessionShape, OpenSession
  PROVE  SessionShape'
<1>0. SessionTypeOK /\ Anchored
  BY DEF SessionShape
<1>1. PICK k \in Conns :
        /\ IF Asyncio /\ connection # NoConn /\ status[connection] = "open"
             THEN k = connection ELSE k \in Unused
        /\ Becomes(k, "open", "open", subs[k])
        /\ connection' = k
  BY DEF OpenSession
<1>2. /\ step = 0 /\ ~entered /\ entered' = TRUE /\ inContext' = ~Asyncio /\ raises' = 0
      /\ UNCHANGED <<class, mine, bound, topology, step, failures>>
  BY DEF OpenSession, AtRest
<1>3. \A j \in Conns : subs[j] = 0
  BY <1>2, RestSubs
<1>4. /\ Lines(k) /\ status'[k] = "open" /\ subs'[k] = 0
  BY <1>0, <1>1, <1>3, LinesReset
<1>5. SessionTypeOK'
  <2>1. {entered', inContext', bound'} \subseteq BOOLEAN
    BY <1>0, <1>2 DEF SessionTypeOK, Asyncio
  <2>2. QED
    BY <1>0, <1>1, <1>2, <1>4, <2>1 DEF SessionTypeOK, Lines
<1>6. Anchored'
  BY <1>0, <1>1, <1>2, <1>4 DEF Anchored, Asyncio, Lines
<1>7. \A j \in Conns : subs'[j] = 0
  BY <1>3, <1>4 DEF Lines
<1>8. QED
  BY <1>2, <1>5, <1>6, <1>7, RestSubs, RestShape

LEMMA OpenSessionFailsShape ==
  ASSUME SessionShape, OpenSessionFails
  PROVE  SessionShape'
<1>0. SessionTypeOK /\ Anchored
  BY DEF SessionShape
<1>1. /\ step = 0 /\ ~entered /\ failures' \in 0..MaxFailures
      /\ UNCHANGED <<class, entered, inContext, mine, bound, topology, step, raises>>
  BY <1>0, FailsType DEF OpenSessionFails, AtRest
<1>2. \A j \in Conns : subs[j] = 0
  BY <1>1, RestSubs
<1>3. CASE UNCHANGED <<connection, lineVars>>
  <2>1. SessionTypeOK' /\ Anchored'
    BY <1>0, <1>1, <1>3 DEF SessionTypeOK, Anchored, Asyncio, Dead, lineVars
  <2>2. QED
    BY <1>1, <1>2, <1>3, <2>1, RestSubs, RestShape DEF lineVars
<1>4. ASSUME NEW k \in Conns,
             IF Asyncio /\ connection # NoConn /\ status[connection] = "open"
               THEN k = connection /\ chan[k] # "open" ELSE k \in Unused,
             Becomes(k, "open", "none", 0), connection' = k
      PROVE  SessionShape'
  <2>1. Lines(k) /\ status'[k] = "open" /\ chan'[k] = "none" /\ subs'[k] = 0
    BY <1>0, <1>4, LinesReset
  <2>2. SessionTypeOK'
    BY <1>0, <1>1, <1>4, <2>1 DEF SessionTypeOK, Lines
  <2>3. Anchored'
    BY <1>0, <1>1, <1>4, <2>1 DEF Anchored, Asyncio, Dead, Lines
  <2>4. \A j \in Conns : subs'[j] = 0
    BY <1>2, <2>1 DEF Lines
  <2>5. QED
    BY <1>1, <2>2, <2>3, <2>4, RestSubs, RestShape
<1>5. QED
  BY <1>3, <1>4 DEF OpenSessionFails

LEMMA CloseSessionShape ==
  ASSUME SessionShape, CloseSession \/ CloseSessionFails
  PROVE  SessionShape'
<1>0. SessionTypeOK /\ Anchored
  BY DEF SessionShape
<1>1. /\ step = 0 /\ entered /\ entered' = FALSE /\ connection \in Conns
      /\ UNCHANGED <<class, connection, mine, bound, topology, step, raises>>
  BY <1>0 DEF CloseSession, CloseSessionFails, AtRest, Anchored
<1>2. /\ Lines(connection) /\ subs'[connection] = 0 /\ Dead(connection)'
      /\ status'[connection] # "lost"
  <2>1. CASE CloseSession
    BY <1>0, <1>1, <2>1, LinesReset DEF CloseSession, Dead
  <2>2. CASE CloseSessionFails
    BY <1>0, <1>1, <2>2, LinesReset DEF CloseSessionFails, Dead
  <2>3. QED
    BY <2>1, <2>2
<1>3. /\ inContext' \in BOOLEAN
      /\ inContext' => ~Asyncio
      /\ failures' \in 0..MaxFailures
  <2>1. CASE CloseSession
    BY <1>0, <1>1, <2>1 DEF CloseSession, SessionTypeOK, Anchored
  <2>2. CASE CloseSessionFails
    BY <1>0, <1>1, <2>2, FailsType DEF CloseSessionFails, SessionTypeOK, Anchored
  <2>3. QED
    BY <2>1, <2>2
<1>4. SessionTypeOK'
  BY <1>0, <1>1, <1>2, <1>3 DEF SessionTypeOK, Lines
<1>5. Anchored'
  BY <1>0, <1>1, <1>2, <1>3 DEF Anchored, Asyncio, Lines
<1>6. \A j \in Conns : subs'[j] = 0
  BY <1>1, <1>2, RestSubs DEF Lines
<1>7. QED
  BY <1>1, <1>4, <1>5, <1>6, RestSubs, RestShape

LEMMA StartConsumingShape ==
  ASSUME SessionShape, StartConsuming
  PROVE  SessionShape'
<1>0. SessionTypeOK /\ Anchored /\ Planned
  BY DEF SessionShape
<1>1. /\ step = 0 /\ step' = 1 /\ bound' \in {bound, TRUE}
      /\ UNCHANGED <<class, entered, inContext, connection, topology, raises, failures>>
  BY DEF StartConsuming, AtRest
<1>2. Plan' = Plan /\ Len(Plan) \in 4..8
  BY <1>1, PlanStays, RestSubs
<1>3. \A k \in Conns : subs[k] > 0 => k = connection /\ entered /\ inContext /\ subs[k] <= raises
  BY <1>1, RestSubs
<1>4. PICK k \in Conns :
        /\ mine' = k /\ Lines(k)
        /\ k = connection <=> Asyncio \/ inContext
        /\ inContext \/ (status'[k] = "open" /\ chan'[k] = "open")
        /\ subs'[k] \in {0, subs[k]}
        /\ Asyncio \/ inContext => UNCHANGED <<status, chan, subs>>
  <2>1. CASE (Asyncio \/ inContext) /\ mine' = connection /\ UNCHANGED lineVars /\ (inContext \/ ~Dead(connection))
    <3>1. connection \in Conns
      BY <1>0, <2>1 DEF Dead, SessionTypeOK, Anchored
    <3>2. QED
      BY <1>0, <2>1, <3>1 DEF lineVars, Lines, SessionTypeOK, Dead
  <2>2. ASSUME ~Asyncio, ~inContext, NEW k \in Unused, mine' = k, Becomes(k, "open", "open", 0)
        PROVE  \E j \in Conns :
                 /\ mine' = j /\ Lines(j)
                 /\ j = connection <=> Asyncio \/ inContext
                 /\ inContext \/ (status'[j] = "open" /\ chan'[j] = "open")
                 /\ subs'[j] \in {0, subs[j]}
                 /\ Asyncio \/ inContext => UNCHANGED <<status, chan, subs>>
    <3>1. k \in Conns /\ k # connection
      BY <2>2 DEF Unused
    <3>2. Lines(k) /\ status'[k] = "open" /\ chan'[k] = "open" /\ subs'[k] = 0
      BY <1>0, <2>2, <3>1, LinesReset
    <3>3. QED
      BY <2>2, <3>1, <3>2
  <2>3. QED
    BY <2>1, <2>2 DEF StartConsuming
<1>5. SessionTypeOK'
  <2>1. {entered', inContext', bound'} \subseteq BOOLEAN
    BY <1>0, <1>1 DEF SessionTypeOK
  <2>2. QED
    BY <1>0, <1>1, <1>4, <2>1 DEF SessionTypeOK, Lines
<1>6. Anchored'
  BY <1>0, <1>1, <1>4 DEF Anchored, Asyncio, Dead, Lines, SessionTypeOK
<1>7. Calling'
  <2>1. step' \in 0..Len(Plan') + 1 /\ step' = 1
    BY <1>1, <1>2
  <2>2. /\ mine' \in Conns /\ (mine' = connection' <=> Asyncio' \/ inContext')
        /\ inContext' \/ (status'[mine'] = "open" /\ chan'[mine'] = "open" /\ mine' # NoConn)
    BY <1>1, <1>4 DEF Asyncio
  <2>3. QED
    BY <2>1, <2>2 DEF Calling, Dead
<1>8. \A j \in Conns : subs'[j] > 0 =>
        subs[j] > 0 /\ j = connection' /\ entered' /\ inContext' /\ subs'[j] <= raises'
  BY <1>1, <1>3, <1>4, RestSubs DEF Lines
<1>9. Subscribed'
  <2>1. ~Consuming'
    <3>1. Consuming' <=> step' = Len(Plan) + 1
      BY <1>2 DEF Consuming
    <3>2. Len(Plan) \in 4..8 /\ step' = 1
      BY <1>1, <1>2
    <3>3. QED
      BY <3>1, <3>2
  <2>2. QED
    BY <1>8, <2>1 DEF Subscribed
<1>10. Planned'
  <2>1. \A i \in 1..Len(Plan') : ~(i < step')
    BY <1>1, <1>2
  <2>2. SubscribedIsSetUp'
    <3>1. bound => bound'
      BY <1>0, <1>1 DEF SessionTypeOK
    <3>2. SubscribedIsSetUp
      BY <1>0 DEF Planned
    <3>3. QED
      BY <1>1, <1>2, <1>8, <3>1, <3>2 DEF SubscribedIsSetUp
  <2>3. QED
    BY <2>1, <2>2 DEF Planned
<1>11. QED
  BY <1>5, <1>6, <1>7, <1>9, <1>10 DEF SessionShape

LEMMA SetUpShape ==
  ASSUME SessionShape, SetUp
  PROVE  SessionShape'
<1>0. SessionTypeOK /\ Anchored /\ Calling /\ Subscribed /\ Planned
  BY DEF SessionShape
<1>a. Len(Plan) \in 4..8
  BY RestSubs
<1>b. DOMAIN Plan = 1..Len(Plan) /\ \E i \in 1..Len(Plan) - 1 : Plan[i] = "keys"
  BY <1>0, PlanShape DEF SessionTypeOK
<1>c. Plan' = Plan
  BY PlanStays DEF SetUp
<1>1. step \in 1..Len(Plan) /\ step' = step + 1
  BY <1>a DEF SetUp, SettingUp
<1>d. Plan[step] = "subscribe" <=> step = Len(Plan)
  BY <1>0, <1>1, PlanShape DEF SessionTypeOK
<1>2. /\ ~Dead(mine)
      /\ Plan[step] = "keys" => bound
      /\ topology' = topology \cup ({Plan[step]} \cap Declarations)
      /\ subs' = [subs EXCEPT ![mine] = @ + (IF Plan[step] = "subscribe" THEN 1 ELSE 0)]
      /\ UNCHANGED <<class, entered, inContext, connection, mine, status, chan, bound, raises, failures>>
  BY DEF SetUp, Request
<1>e. mine \in Conns /\ (mine = connection <=> Asyncio \/ inContext)
  BY <1>0, <1>a, <1>1 DEF Calling
<1>3. ~Consuming /\ \A k \in Conns : subs[k] > 0 => k = connection /\ entered /\ inContext /\ subs[k] <= raises
  <2>1. ~Consuming
    BY <1>a, <1>1 DEF Consuming
  <2>2. QED
    BY <2>1, RestSubs
<1>4. /\ \A k \in Conns : subs[k] \in Nat /\ (k # mine => subs'[k] = subs[k])
      /\ subs'[mine] = subs[mine] + (IF step = Len(Plan) THEN 1 ELSE 0)
      /\ subs[mine] <= raises /\ (subs[mine] > 0 => inContext) /\ raises \in 0..MaxRaises
  <2>1. raises \in 0..MaxRaises /\ \A k \in Conns : subs[k] \in Nat
    BY <1>0 DEF SessionTypeOK
  <2>2. subs'[mine] = subs[mine] + (IF step = Len(Plan) THEN 1 ELSE 0)
    BY <1>0, <1>2, <1>d, <1>e DEF SessionTypeOK
  <2>3. \A k \in Conns : k # mine => subs'[k] = subs[k]
    BY <1>0, <1>2 DEF SessionTypeOK
  <2>4. subs[mine] <= raises /\ (subs[mine] > 0 => inContext)
    BY <1>3, <1>e, <2>1
  <2>5. QED
    BY <2>1, <2>2, <2>3, <2>4
<1>5. SessionTypeOK'
  <2>1. subs' \in [Conns -> 0..MaxRaises + 1]
    <3>1. DOMAIN subs' = Conns /\ subs' = [k \in Conns |-> subs'[k]]
      BY <1>0, <1>2 DEF SessionTypeOK
    <3>2. \A k \in Conns : subs'[k] \in 0..MaxRaises + 1
      BY <1>0, <1>4, <1>e DEF SessionTypeOK
    <3>3. QED
      BY <3>1, <3>2
  <2>2. topology' \subseteq Declarations /\ step' \in 0..9
    <3>1. topology' \subseteq Declarations
      BY <1>0, <1>2 DEF SessionTypeOK
    <3>2. \A n \in 4..8 : \A i \in 1..n : i + 1 \in 0..9
      OBVIOUS
    <3>3. step + 1 \in 0..9
      BY <1>1, <1>a, <3>2
    <3>4. QED
      BY <1>1, <3>1, <3>3
  <2>3. QED
    BY <1>0, <1>2, <1>e, <2>1, <2>2 DEF SessionTypeOK
<1>6. Anchored'
  BY <1>0, <1>2 DEF Anchored, Asyncio, Dead
<1>7. Calling'
  <2>1. step' \in 0..Len(Plan') + 1 /\ step' > 0
    BY <1>a, <1>c, <1>1
  <2>2. (mine' = connection' <=> Asyncio' \/ inContext') /\ ~Dead(mine)' /\ mine' \in Conns
    BY <1>2, <1>e DEF Asyncio, Dead
  <2>3. QED
    BY <1>2, <2>1, <2>2 DEF Calling, Dead
<1>8. Consuming' <=> step = Len(Plan)
  BY <1>a, <1>c, <1>1 DEF Consuming
<1>9. Subscribed'
  <2>1. ASSUME NEW k \in Conns, subs'[k] > 0, ~(Consuming' /\ k = mine')
        PROVE  k = connection' /\ entered' /\ inContext' /\ subs'[k] <= raises'
    <3>1. subs'[k] = subs[k]
      BY <1>1, <1>2, <1>4, <1>8, <1>e, <2>1
    <3>2. QED
      BY <1>2, <1>3, <2>1, <3>1
  <2>2. subs'[mine'] <= 1 + raises' /\ (subs'[mine'] > 1 => inContext')
    BY <1>2, <1>4, <1>e
  <2>3. QED
    BY <2>1, <2>2 DEF Subscribed
<1>10. \A i \in 1..Len(Plan) : i < step' =>
         /\ Plan[i] \in Declarations => Plan[i] \in topology'
         /\ Plan[i] = "keys" => bound'
  <2>1. SUFFICES ASSUME NEW i \in 1..Len(Plan), i < step'
                 PROVE  /\ Plan[i] \in Declarations => Plan[i] \in topology'
                        /\ Plan[i] = "keys" => bound'
    OBVIOUS
  <2>2. CASE i = step
    BY <1>2, <2>2
  <2>3. CASE i < step
    BY <1>0, <1>2, <2>3 DEF Planned
  <2>4. i = step \/ i < step
    BY <1>a, <1>1, <2>1
  <2>5. QED
    BY <2>2, <2>3, <2>4
<1>11. SubscribedIsSetUp'
  <2>1. SUFFICES ASSUME NEW k \in Conns, subs'[k] > 0
                 PROVE  bound' /\ \A i \in 1..Len(Plan) : Plan[i] \in Declarations => Plan[i] \in topology'
    BY <1>b, <1>c DEF SubscribedIsSetUp
  <2>2. CASE subs[k] > 0
    BY <1>0, <1>b, <1>2, <2>2 DEF Planned, SubscribedIsSetUp
  <2>3. CASE ~(subs[k] > 0)
    <3>1. step = Len(Plan)
      BY <1>4, <1>e, <2>1, <2>3
    <3>2. PICK i \in 1..Len(Plan) - 1 : Plan[i] = "keys"
      BY <1>b
    <3>3. i \in 1..Len(Plan) /\ i < step'
      BY <1>a, <1>1, <3>1, <3>2
    <3>4. bound'
      BY <1>10, <3>2, <3>3
    <3>5. \A j \in 1..Len(Plan) : j < step'
      BY <1>a, <1>1, <3>1
    <3>6. QED
      BY <1>10, <3>4, <3>5
  <2>4. QED
    BY <2>2, <2>3
<1>12. QED
  BY <1>c, <1>5, <1>6, <1>7, <1>9, <1>10, <1>11 DEF SessionShape, Planned

\* A call that ends leaves every other connection as it was, and its own dead if it
\* was, without a subscription but the one an exception leaves inside of `with`.
LEMMA CallOverShape ==
  ASSUME SessionShape, step # 0, CallOver, Lines(mine), status'[mine] # "lost",
         Dead(mine) => ~(status'[mine] = "open" /\ chan'[mine] = "open"),
         UNCHANGED <<class, entered, inContext, connection, bound, topology>>,
         raises' \in 0..MaxRaises, raises <= raises', failures' \in 0..MaxFailures,
         subs'[mine] > 0 =>
           subs[mine] > 0 /\ mine = connection /\ entered /\ inContext /\ subs'[mine] <= raises'
  PROVE  SessionShape'
<1>0. SessionTypeOK /\ Anchored
  BY DEF SessionShape
<1>1. mine \in Conns /\ (mine = connection <=> Asyncio \/ inContext) /\ raises \in Nat
  <2>1. step > 0
    BY <1>0 DEF SessionTypeOK
  <2>2. QED
    BY <2>1, RestSubs DEF SessionShape, Calling
<1>2. step' = 0 /\ mine' = NoConn
  BY DEF CallOver
<1>3. SessionTypeOK'
  <2>1. {entered', inContext', bound'} \subseteq BOOLEAN
    BY <1>0 DEF SessionTypeOK
  <2>2. QED
    BY <1>0, <1>2, <2>1 DEF SessionTypeOK, Lines
<1>4. Anchored'
  <2>1. Asyncio' <=> Asyncio
    BY DEF Asyncio
  <2>2. entered' \/ inContext' => connection' \in Conns
    BY <1>0 DEF Anchored
  <2>3. (inContext' => ~Asyncio') /\ (entered' /\ ~Asyncio' => inContext')
    BY <1>0, <2>1 DEF Anchored
  <2>4. ~entered' /\ (Asyncio' \/ inContext') => Dead(connection)'
    BY <1>0, <1>1, <2>1 DEF Anchored, Dead
  <2>5. Asyncio' => \A k \in Conns : status'[k] # "lost" /\ (status'[k] = "open" => k = connection')
    BY <1>0, <1>1, <2>1 DEF Anchored, Lines
  <2>6. QED
    BY <2>2, <2>3, <2>4, <2>5 DEF Anchored
<1>5. ASSUME NEW j \in Conns, subs'[j] > 0
      PROVE  subs[j] > 0 /\ j = connection' /\ entered' /\ inContext' /\ subs'[j] <= raises'
  <2>1. CASE j = mine
    BY <1>5, <2>1
  <2>2. CASE j # mine
    <3>1. subs'[j] = subs[j] /\ subs[j] \in 0..MaxRaises + 1
      BY <2>2, RestSubs DEF Lines
    <3>2. j = connection /\ entered /\ inContext /\ subs[j] <= raises
      BY <1>5, <2>2, <3>1 DEF SessionShape, Subscribed
    <3>3. QED
      BY <1>1, <1>5, <3>1, <3>2
  <2>3. QED
    BY <2>1, <2>2
<1>6. QED
  BY <1>2, <1>3, <1>4, <1>5, RestShape

\* While it consumes, the channel of the call is alive; in a context that is the one
\* of `with`.
LEMMA ConsumingFacts ==
  ASSUME SessionShape, Consuming
  PROVE  /\ step # 0 /\ mine \in Conns /\ ~Dead(mine)
         /\ mine = connection <=> Asyncio \/ inContext
         /\ subs[mine] <= 1 + raises /\ (inContext => entered)
<1>1. step # 0 /\ step > 0 /\ step > 1
  <2>1. Len(Plan) \in 4..8
    BY RestSubs
  <2>2. step = Len(Plan) + 1
    BY DEF Consuming
  <2>3. QED
    BY <2>1, <2>2
<1>2. mine \in Conns /\ ~Dead(mine) /\ (mine = connection <=> Asyncio \/ inContext)
  BY <1>1 DEF SessionShape, Calling
<1>3. subs[mine] <= 1 + raises
  BY DEF SessionShape, Subscribed
<1>4. inContext => entered
  <2>1. inContext /\ ~entered => Dead(connection)
    BY DEF SessionShape, Anchored
  <2>2. QED
    BY <1>2, <2>1
<1>5. QED
  BY <1>1, <1>2, <1>3, <1>4

LEMMA SetUpFailsShape ==
  ASSUME SessionShape, SetUpFails
  PROVE  SessionShape'
<1>1. /\ Lines(mine) /\ CallOver /\ mine \in Conns /\ step \in 1..Len(Plan)
      /\ subs'[mine] \in {0, subs[mine]} /\ failures' \in 0..MaxFailures
  BY SetUpFailsEffect DEF CallOver
<1>2. UNCHANGED <<class, entered, inContext, connection, bound, topology, raises>>
  BY DEF SetUpFails
<1>3. step # 0 /\ ~Consuming
  BY <1>1, RestSubs DEF Consuming
<1>4. status'[mine] # "lost" /\ (Dead(mine) => ~(status'[mine] = "open" /\ chan'[mine] = "open"))
  BY SetUpFailsEffect DEF Dead
<1>5. raises' \in 0..MaxRaises /\ raises <= raises'
  BY <1>2 DEF SessionShape, SessionTypeOK
<1>6. subs'[mine] > 0 =>
        subs[mine] > 0 /\ mine = connection /\ entered /\ inContext /\ subs'[mine] <= raises'
  BY <1>1, <1>2, <1>3, RestSubs
<1>7. QED
  BY <1>1, <1>2, <1>3, <1>4, <1>5, <1>6, CallOverShape

\* The ends of a running call.
LEMMA ConsumingEnds ==
  ASSUME SessionShape,
         StopListening \/ ListeningFails \/ CallbackRaises \/ ChannelClosed
           \/ (ConnectionLost /\ Consuming)
  PROVE  /\ Consuming /\ CallOver /\ Lines(mine) /\ status'[mine] \in {"none", "open"}
         /\ UNCHANGED <<class, entered, inContext, connection, bound, topology>>
         /\ raises' \in 0..MaxRaises /\ raises <= raises' /\ failures' \in 0..MaxFailures
         /\ subs'[mine] = 0 \/ (subs'[mine] = subs[mine] /\ inContext /\ raises' = raises + 1)
         /\ \/ failures' = failures + 1
            \/ /\ failures' = failures
               /\ (Asyncio /\ status'[mine] = "open") \/ status'[mine] = "none"
                    \/ (inContext /\ UNCHANGED status)
<1>0. SessionTypeOK /\ raises \in 0..MaxRaises /\ failures \in 0..MaxFailures
  BY DEF SessionShape, SessionTypeOK
<1>1. CASE StopListening
  <2>1. Consuming /\ Becomes(mine, "open", "open", 0)
    BY <1>1 DEF StopListening
  <2>2. Lines(mine) /\ status'[mine] = "open" /\ subs'[mine] = 0
    BY <1>0, <2>1, ConsumingFacts, LinesReset
  <2>3. QED
    BY <1>0, <1>1, <2>2 DEF StopListening
<1>2. CASE ListeningFails
  <2>1. Consuming /\ Becomes(mine, "open", "closed", 0)
    BY <1>2 DEF ListeningFails
  <2>2. Lines(mine) /\ status'[mine] = "open" /\ subs'[mine] = 0
    BY <1>0, <2>1, ConsumingFacts, LinesReset
  <2>3. QED
    BY <1>0, <1>2, <2>2, FailsType DEF ListeningFails
<1>3. CASE CallbackRaises /\ inContext
  <2>1. mine \in Conns /\ ~Dead(mine) /\ raises' = raises + 1 /\ raises' \in 0..MaxRaises
    BY <1>0, <1>3, ConsumingFacts DEF CallbackRaises
  <2>2. Lines(mine) /\ UNCHANGED <<status, chan, subs>>
    BY <1>0, <1>3 DEF CallbackRaises, lineVars, Lines, SessionTypeOK
  <2>3. QED
    BY <1>0, <1>3, <2>1, <2>2 DEF CallbackRaises, Dead
<1>4. CASE CallbackRaises /\ ~inContext
  <2>1. Consuming /\ Becomes(mine, "none", "none", 0)
    BY <1>4 DEF CallbackRaises
  <2>2. Lines(mine) /\ status'[mine] = "none" /\ subs'[mine] = 0
    BY <1>0, <2>1, ConsumingFacts, LinesReset
  <2>3. QED
    BY <1>0, <1>4, <2>2 DEF CallbackRaises
<1>5. CASE ChannelClosed
  <2> DEFINE st == IF inContext \/ class # "base" THEN "open" ELSE "none"
  <2>1. Consuming /\ Becomes(mine, st, "closed", 0)
    BY <1>5 DEF ChannelClosed
  <2>2. Lines(mine) /\ status'[mine] = st /\ subs'[mine] = 0
    BY <1>0, <2>1, ConsumingFacts, LinesReset
  <2>3. QED
    BY <1>0, <1>5, <2>2, FailsType DEF ChannelClosed
<1>6. CASE ConnectionLost /\ Consuming
  <2>1. Becomes(mine, "none", "none", 0) /\ CallOver
    <3>1. ~AtRest
      BY <1>6, ConsumingFacts DEF AtRest
    <3>2. QED
      BY <1>6, <3>1 DEF ConnectionLost
  <2>2. Lines(mine) /\ status'[mine] = "none" /\ subs'[mine] = 0
    BY <1>0, <1>6, <2>1, ConsumingFacts, LinesReset
  <2>3. QED
    BY <1>0, <1>6, <2>1, <2>2, FailsType DEF ConnectionLost
<1>7. QED
  BY <1>1, <1>2, <1>3, <1>4, <1>5, <1>6

LEMMA ConsumingEndsShape ==
  ASSUME SessionShape,
         StopListening \/ ListeningFails \/ CallbackRaises \/ ChannelClosed
           \/ (ConnectionLost /\ Consuming)
  PROVE  SessionShape'
<1>1. /\ Consuming /\ CallOver /\ Lines(mine) /\ status'[mine] \in {"none", "open"}
      /\ UNCHANGED <<class, entered, inContext, connection, bound, topology>>
      /\ raises' \in 0..MaxRaises /\ raises <= raises' /\ failures' \in 0..MaxFailures
      /\ subs'[mine] = 0 \/ (subs'[mine] = subs[mine] /\ inContext /\ raises' = raises + 1)
  BY ConsumingEnds
<1>2. /\ step # 0 /\ mine \in Conns /\ ~Dead(mine)
      /\ mine = connection <=> Asyncio \/ inContext
      /\ subs[mine] <= 1 + raises /\ (inContext => entered)
  BY <1>1, ConsumingFacts
<1>3. subs'[mine] > 0 =>
        subs[mine] > 0 /\ mine = connection /\ entered /\ inContext /\ subs'[mine] <= raises'
  BY <1>1, <1>2, RestSubs
<1>4. QED
  BY <1>1, <1>2, <1>3, CallOverShape

\* Steps between two calls of the blocking client that reset a connection.
LEMMA RestStepShape ==
  ASSUME SessionShape, step = 0, ~Asyncio, NEW k \in Conns, Lines(k), subs'[k] = 0,
         k = connection /\ inContext => status'[k] # "open",
         UNCHANGED <<class, entered, inContext, connection, mine, step, bound, topology, raises>>,
         failures' \in 0..MaxFailures
  PROVE  SessionShape'
<1>0. SessionTypeOK /\ Anchored
  BY DEF SessionShape
<1>1. SessionTypeOK'
  <2>1. {entered', inContext', bound'} \subseteq BOOLEAN
    BY <1>0 DEF SessionTypeOK
  <2>2. QED
    BY <1>0, <2>1 DEF SessionTypeOK, Lines
<1>2. Anchored'
  <2>1. Asyncio' <=> Asyncio
    BY DEF Asyncio
  <2>2. ~entered /\ inContext => Dead(connection)'
    BY <1>0 DEF Anchored, Dead, Lines
  <2>3. QED
    BY <1>0, <2>1, <2>2 DEF Anchored, Dead
<1>3. ASSUME NEW j \in Conns, subs'[j] > 0
      PROVE  subs[j] > 0 /\ j = connection' /\ entered' /\ inContext' /\ subs'[j] <= raises'
  <2>1. subs'[j] = subs[j]
    BY <1>3 DEF Lines
  <2>2. QED
    BY <1>3, <2>1, RestSubs
<1>4. step' = 0 /\ mine' = NoConn
  BY RestSubs
<1>5. QED
  BY <1>1, <1>2, <1>3, <1>4, RestShape

LEMMA StartConsumingFailsShape ==
  ASSUME SessionShape, StartConsumingFails
  PROVE  SessionShape'
<1>0. SessionTypeOK
  BY DEF SessionShape
<1>1. /\ step = 0 /\ ~Asyncio /\ ~inContext /\ failures' \in 0..MaxFailures
      /\ UNCHANGED <<class, entered, inContext, connection, mine, bound, topology, step, raises>>
  BY <1>0, FailsType DEF StartConsumingFails, AtRest
<1>2. CASE UNCHANGED lineVars
  <2>1. \A j \in Conns : subs[j] > 0 => inContext
    BY <1>1, RestSubs
  <2>2. SessionTypeOK' /\ Anchored'
    BY <1>0, <1>1, <1>2 DEF SessionTypeOK, Anchored, Asyncio, Dead, lineVars, SessionShape
  <2>3. QED
    BY <1>1, <1>2, <2>1, <2>2, RestSubs, RestShape DEF lineVars
<1>3. ASSUME NEW k \in Unused, Becomes(k, "open", "none", 0)
      PROVE  SessionShape'
  <2>1. k \in Conns
    BY <1>3 DEF Unused
  <2>2. Lines(k) /\ subs'[k] = 0
    BY <1>0, <1>3, <2>1, LinesReset
  <2>3. QED
    BY <1>1, <2>1, <2>2, RestStepShape
<1>4. QED
  BY <1>2, <1>3 DEF StartConsumingFails

LEMMA ConnectionLostShape ==
  ASSUME SessionShape, ConnectionLost
  PROVE  SessionShape'
<1>1. CASE Consuming
  BY <1>1, ConsumingEndsShape
<1>2. CASE ~Consuming
  <2>0. SessionTypeOK
    BY DEF SessionShape
  <2>1. /\ step = 0 /\ ~Asyncio /\ failures' \in 0..MaxFailures
        /\ UNCHANGED <<class, entered, inContext, connection, mine, bound, topology, step, raises>>
    BY <1>2, <2>0, FailsType DEF ConnectionLost, AtRest
  <2>2. PICK k \in Conns :
          Becomes(k, IF k = connection THEN "lost" ELSE "none", chan[k], 0)
    BY <1>2 DEF ConnectionLost
  <2> DEFINE st == IF k = connection THEN "lost" ELSE "none"
  <2>3. st \in {"none", "open", "lost"} /\ st # "open" /\ chan[k] \in {"none", "open", "closed"}
    BY <2>0 DEF SessionTypeOK
  <2>4. Lines(k) /\ status'[k] = st /\ subs'[k] = 0
    BY <2>0, <2>2, <2>3, LinesReset
  <2>5. QED
    BY <2>1, <2>3, <2>4, RestStepShape
<1>3. QED
  BY <1>1, <1>2

LEMMA ExchangeDeclaredShape ==
  ASSUME SessionShape, ExchangeDeclared
  PROVE  SessionShape'
<1>1. /\ topology' = topology \cup {"exchange"}
      /\ UNCHANGED <<class, entered, inContext, connection, mine, bound, step, raises, failures>>
      /\ UNCHANGED <<status, chan, subs>>
  BY DEF ExchangeDeclared, lineVars
<1>2. Plan' = Plan
  BY <1>1, PlanStays
<1>3. SessionTypeOK'
  BY <1>1 DEF SessionShape, SessionTypeOK, Declarations
<1>4. Anchored'
  BY <1>1 DEF SessionShape, Anchored, Asyncio, Dead
<1>5. Calling'
  BY <1>1, <1>2 DEF SessionShape, Calling, Asyncio, Dead
<1>6. Subscribed'
  BY <1>1, <1>2 DEF SessionShape, Subscribed, Consuming
<1>7. Planned'
  BY <1>1, <1>2 DEF SessionShape, Planned, SubscribedIsSetUp
<1>8. QED
  BY <1>3, <1>4, <1>5, <1>6, <1>7 DEF SessionShape

LEMMA SessionShapeNext == SessionShape /\ [SessionNext]_sessionVars => SessionShape'
<1>1. SUFFICES ASSUME SessionShape, [SessionNext]_sessionVars PROVE SessionShape'
  OBVIOUS
<1>2. CASE OpenSession
  BY <1>1, <1>2, OpenSessionShape
<1>3. CASE OpenSessionFails
  BY <1>1, <1>3, OpenSessionFailsShape
<1>4. CASE CloseSession \/ CloseSessionFails
  BY <1>1, <1>4, CloseSessionShape
<1>5. CASE StartConsuming
  BY <1>1, <1>5, StartConsumingShape
<1>6. CASE StartConsumingFails
  BY <1>1, <1>6, StartConsumingFailsShape
<1>7. CASE SetUp
  BY <1>1, <1>7, SetUpShape
<1>8. CASE SetUpFails
  BY <1>1, <1>8, SetUpFailsShape
<1>9. CASE StopListening \/ ListeningFails \/ CallbackRaises \/ ChannelClosed
  BY <1>1, <1>9, ConsumingEndsShape
<1>10. CASE ConnectionLost
  BY <1>1, <1>10, ConnectionLostShape
<1>11. CASE ExchangeDeclared
  BY <1>1, <1>11, ExchangeDeclaredShape
<1>12. CASE UNCHANGED sessionVars
  <2>1. /\ UNCHANGED <<class, entered, inContext, connection, mine, bound, topology, step>>
        /\ UNCHANGED <<status, chan, subs, raises, failures>>
    BY <1>12 DEF sessionVars
  <2>2. Plan' = Plan
    BY <2>1, PlanStays
  <2>3. SessionTypeOK'
    BY <1>1, <2>1 DEF SessionShape, SessionTypeOK
  <2>4. Anchored'
    BY <1>1, <2>1 DEF SessionShape, Anchored, Asyncio, Dead
  <2>5. Calling'
    BY <1>1, <2>1, <2>2 DEF SessionShape, Calling, Asyncio, Dead
  <2>6. Subscribed'
    BY <1>1, <2>1, <2>2 DEF SessionShape, Subscribed, Consuming
  <2>7. Planned'
    BY <1>1, <2>1, <2>2 DEF SessionShape, Planned, SubscribedIsSetUp
  <2>8. QED
    BY <2>3, <2>4, <2>5, <2>6, <2>7 DEF SessionShape
<1>13. QED
  BY <1>1, <1>2, <1>3, <1>4, <1>5, <1>6, <1>7, <1>8, <1>9, <1>10, <1>11, <1>12 DEF SessionNext

-----------------------------------------------------------------------------
(* Theorems about the subscriptions. *)

\* In every reachable state the consumer's connections, its running call, its
\* subscriptions and the topology fit together.
THEOREM SessionShapeInvariant == SessionSpec => []SessionShape
<1>1. SessionInit => SessionShape
  BY SessionInitShape
<1>2. SessionShape /\ [SessionNext]_sessionVars => SessionShape'
  BY SessionShapeNext
<1>3. QED
  BY <1>1, <1>2, PTL DEF SessionSpec

\* Every variable keeps its type: there are no more subscriptions to a queue than
\* exceptions of the callback allow, and the set-up never leaves its plan.
THEOREM SessionTypeCorrect == SessionSpec => []SessionTypeOK
<1>1. SessionShape => SessionTypeOK
  BY DEF SessionShape
<1>2. QED
  BY <1>1, SessionShapeInvariant, PTL

\* start_consuming and consume: whatever failed half-way before, a subscription
\* only exists when the queue, its bindings and its garbage queue do.
THEOREM SetUpBeforeSubscribed == SessionSpec => []SubscribedIsSetUp
<1>1. SessionShape => SubscribedIsSetUp
  BY DEF SessionShape, Planned
<1>2. QED
  BY <1>1, SessionShapeInvariant, PTL

\* A connection that neither `with` nor a running call holds has no subscription,
\* and a channel has at most one more than its callback has raised inside of `with`.
THEOREM NoForgottenSubscription == SessionSpec => []SubscriptionsOwned
<1>1. SessionShape => SubscriptionsOwned
  <2>1. SUFFICES ASSUME SessionShape, NEW k \in Conns, subs[k] > 0
                 PROVE  /\ k = mine \/ (k = connection /\ entered)
                        /\ subs[k] <= 1 + raises
                        /\ subs[k] > 1 => inContext
    BY DEF SubscriptionsOwned
  <2>2. raises \in Nat /\ subs[k] \in 0..MaxRaises + 1
    BY <2>1, RestSubs
  <2>3. CASE Consuming /\ k = mine
    BY <2>1, <2>3 DEF SessionShape, Subscribed
  <2>4. CASE ~(Consuming /\ k = mine)
    <3>1. k = connection /\ entered /\ inContext /\ subs[k] <= raises
      BY <2>1, <2>4 DEF SessionShape, Subscribed
    <3>2. QED
      BY <2>2, <3>1
  <2>5. QED
    BY <2>3, <2>4
<1>2. QED
  BY <1>1, SessionShapeInvariant, PTL

-----------------------------------------------------------------------------
(* The connections that are left open. *)

LEMMA PaidSame ==
  ASSUME SessionPaid, failures \in Nat, failures' \in Nat, failures <= failures', Leaked' \subseteq Leaked
  PROVE  SessionPaid'
<1>1. IsFiniteSet(Leaked) /\ Cardinality(Leaked) <= failures
  BY DEF SessionPaid
<1>2. IsFiniteSet(Leaked') /\ Cardinality(Leaked') <= Cardinality(Leaked)
  BY <1>1, FS_Subset
<1>3. Cardinality(Leaked) \in Nat /\ Cardinality(Leaked') \in Nat
  BY <1>1, <1>2, FS_CardinalityType
<1>4. Cardinality(Leaked') <= failures'
  BY <1>1, <1>2, <1>3
<1>5. QED
  BY <1>2, <1>4 DEF SessionPaid

LEMMA PaidMore ==
  ASSUME SessionPaid, failures \in Nat, failures' = failures + 1, NEW x, Leaked' \subseteq Leaked \cup {x}
  PROVE  SessionPaid'
<1>1. IsFiniteSet(Leaked) /\ Cardinality(Leaked) <= failures
  BY DEF SessionPaid
<1>2. /\ IsFiniteSet(Leaked \cup {x})
      /\ Cardinality(Leaked \cup {x}) = Cardinality(Leaked)
           \/ Cardinality(Leaked \cup {x}) = Cardinality(Leaked) + 1
  BY <1>1, FS_AddElement
<1>3. IsFiniteSet(Leaked') /\ Cardinality(Leaked') <= Cardinality(Leaked \cup {x})
  BY <1>2, FS_Subset
<1>4. Cardinality(Leaked) \in Nat /\ Cardinality(Leaked') \in Nat
  BY <1>1, <1>3, FS_CardinalityType
<1>5. Cardinality(Leaked') <= failures'
  BY <1>1, <1>2, <1>3, <1>4
<1>6. QED
  BY <1>3, <1>5 DEF SessionPaid

\* A step that resets the connection k and names no other one leaks k at most.
LEMMA LeakedLines ==
  ASSUME NEW k, Lines(k),
         connection' # connection => ~entered /\ mine = NoConn,
         entered => entered' \/ connection = k,
         mine # NoConn => mine = connection \/ mine' = mine \/ mine = k,
         NoConn \notin Conns
  PROVE  Leaked' \subseteq Leaked \cup {k}
<1>1. SUFFICES ASSUME NEW j \in Conns, j # k, j \in Leaked' PROVE j \in Leaked
  BY DEF Leaked, OpenConns
<1>2. status[j] = "open"
  BY <1>1 DEF Leaked, OpenConns, Lines
<1>3. ~(j = connection' /\ entered') /\ ~(j = mine' /\ j # connection')
  BY <1>1 DEF Leaked
<1>4. ~(j = connection /\ entered)
  BY <1>1, <1>3
<1>5. ~(j = mine /\ j # connection)
  BY <1>1, <1>3
<1>6. QED
  BY <1>2, <1>4, <1>5 DEF Leaked, OpenConns

\* The steps that leave one more connection open have failed at something.
LEMMA PaidFailure ==
  ASSUME SessionShape, SessionPaid,
         OpenSessionFails \/ CloseSessionFails \/ StartConsumingFails
  PROVE  SessionPaid'
<1>0. SessionTypeOK /\ failures \in Nat /\ NoConn \notin Conns /\ (step = 0 => mine = NoConn)
  <2>1. failures \in Nat
    BY DEF SessionShape, SessionTypeOK
  <2>2. QED
    BY <2>1, RestSubs DEF SessionShape
<1>1. /\ failures' = failures + 1 /\ step = 0 /\ UNCHANGED mine
      /\ ~entered \/ CloseSessionFails \/ connection' = connection
      /\ entered' = entered \/ CloseSessionFails
  BY <1>0, FailsType DEF OpenSessionFails, CloseSessionFails, StartConsumingFails, AtRest
<1>2. CASE UNCHANGED <<connection, lineVars>> /\ ~CloseSessionFails
  <2>1. UNCHANGED <<connection, mine, status, entered>>
    BY <1>1, <1>2 DEF lineVars
  <2>2. Leaked' = Leaked
    BY <2>1 DEF Leaked, OpenConns
  <2>3. QED
    BY <1>0, <1>1, <2>2, PaidSame
<1>3. ASSUME NEW k \in Conns, Becomes(k, "open", "none", 0), OpenSessionFails \/ StartConsumingFails
      PROVE  SessionPaid'
  <2>1. Lines(k)
    BY <1>0, <1>3, LinesReset
  <2>2. (connection' # connection => ~entered) /\ (entered => entered')
    BY <1>3 DEF OpenSessionFails, StartConsumingFails
  <2>3. Leaked' \subseteq Leaked \cup {k}
    BY <1>0, <1>1, <2>1, <2>2, LeakedLines
  <2>4. QED
    BY <1>0, <1>1, <2>3, PaidMore
<1>4. CASE CloseSessionFails
  <2>1. connection \in Conns /\ UNCHANGED connection /\ Becomes(connection, "open", "closed", 0)
    BY <1>4 DEF CloseSessionFails, SessionShape, Anchored
  <2>2. Lines(connection)
    BY <1>0, <2>1, LinesReset
  <2>3. Leaked' \subseteq Leaked \cup {connection}
    BY <1>0, <1>1, <2>1, <2>2, LeakedLines
  <2>4. QED
    BY <1>0, <1>1, <2>3, PaidMore
<1>5. CASE OpenSessionFails
  BY <1>2, <1>3, <1>4, <1>5 DEF OpenSessionFails
<1>6. CASE StartConsumingFails
  <2>1. UNCHANGED connection /\ \A k \in Unused : k \in Conns
    BY <1>6 DEF StartConsumingFails, Unused
  <2>2. UNCHANGED lineVars => UNCHANGED <<connection, lineVars>>
    BY <2>1
  <2>3. QED
    BY <1>2, <1>3, <1>4, <1>6, <2>1, <2>2 DEF StartConsumingFails
<1>7. QED
  BY <1>4, <1>5, <1>6

LEMMA PaidOpen ==
  ASSUME SessionShape, SessionPaid, OpenSession
  PROVE  SessionPaid'
<1>0. SessionTypeOK /\ failures \in Nat /\ NoConn \notin Conns
  BY DEF SessionShape, SessionTypeOK
<1>1. PICK k \in Conns : Becomes(k, "open", "open", subs[k]) /\ connection' = k
  BY DEF OpenSession
<1>2. step = 0 /\ ~entered /\ entered' = TRUE /\ failures' = failures /\ UNCHANGED mine
  BY DEF OpenSession, AtRest
<1>3. Lines(k) /\ mine = NoConn
  <2>1. subs[k] = 0
    BY <1>2, RestSubs
  <2>2. QED
    BY <1>0, <1>1, <1>2, <2>1, LinesReset, RestSubs
<1>4. Leaked' \subseteq Leaked \cup {k}
  BY <1>0, <1>1, <1>2, <1>3, LeakedLines
<1>5. k \notin Leaked'
  BY <1>1, <1>2 DEF Leaked
<1>6. Leaked' \subseteq Leaked
  BY <1>4, <1>5
<1>7. QED
  BY <1>0, <1>2, <1>6, PaidSame

LEMMA PaidClose ==
  ASSUME SessionShape, SessionPaid, CloseSession
  PROVE  SessionPaid'
<1>0. SessionTypeOK /\ failures \in Nat /\ NoConn \notin Conns
  BY DEF SessionShape, SessionTypeOK
<1>1. /\ connection \in Conns /\ UNCHANGED <<connection, mine, failures>>
      /\ Becomes(connection, "none", "none", 0)
  BY DEF CloseSession, SessionShape, Anchored
<1>2. Lines(connection) /\ status'[connection] = "none"
  BY <1>0, <1>1, LinesReset
<1>3. Leaked' \subseteq Leaked \cup {connection}
  BY <1>0, <1>1, <1>2, LeakedLines
<1>4. connection \notin Leaked'
  BY <1>2 DEF Leaked, OpenConns
<1>5. Leaked' \subseteq Leaked
  BY <1>3, <1>4
<1>6. QED
  BY <1>0, <1>1, <1>5, PaidSame

LEMMA PaidStart ==
  ASSUME SessionShape, SessionPaid, StartConsuming
  PROVE  SessionPaid'
<1>0. SessionTypeOK /\ failures \in Nat /\ NoConn \notin Conns
  BY DEF SessionShape, SessionTypeOK
<1>1. step = 0 /\ UNCHANGED <<class, entered, inContext, connection, failures>> /\ mine = NoConn
  <2>1. step = 0 /\ UNCHANGED <<class, entered, inContext, connection, failures>>
    BY DEF StartConsuming, AtRest
  <2>2. QED
    BY <2>1, RestSubs
<1>2. CASE mine' = connection /\ UNCHANGED lineVars
  <2>1. Leaked' = Leaked
    BY <1>0, <1>1, <1>2 DEF Leaked, OpenConns, lineVars
  <2>2. QED
    BY <1>0, <1>1, <2>1, PaidSame
<1>3. ASSUME NEW k \in Unused, mine' = k, Becomes(k, "open", "open", 0)
      PROVE  SessionPaid'
  <2>1. k \in Conns /\ k # connection
    BY <1>3 DEF Unused
  <2>2. Lines(k)
    BY <1>0, <1>3, <2>1, LinesReset
  <2>3. Leaked' \subseteq Leaked \cup {k}
    BY <1>0, <1>1, <2>2, LeakedLines
  <2>4. k \notin Leaked'
    BY <1>1, <1>3, <2>1 DEF Leaked
  <2>5. Leaked' \subseteq Leaked
    BY <2>3, <2>4
  <2>6. QED
    BY <1>0, <1>1, <2>5, PaidSame
<1>4. QED
  BY <1>2, <1>3 DEF StartConsuming

LEMMA PaidSetUpFails ==
  ASSUME SessionShape, SessionPaid, SetUpFails
  PROVE  SessionPaid'
<1>0. SessionTypeOK /\ failures \in Nat /\ NoConn \notin Conns
  BY DEF SessionShape, SessionTypeOK
<1>1. /\ mine \in Conns /\ Lines(mine) /\ mine' = NoConn /\ step \in 1..Len(Plan)
      /\ UNCHANGED <<class, entered, inContext, connection>>
  BY SetUpFailsEffect DEF SetUpFails
<1>2. Leaked' \subseteq Leaked \cup {mine}
  BY <1>0, <1>1, LeakedLines
<1>3. CASE failures' = failures + 1
  BY <1>0, <1>2, <1>3, PaidMore
<1>4. CASE Dead(mine) /\ failures' = failures /\ (status'[mine] = "open" => status[mine] = "open")
  <2>1. mine = connection
    <3>1. step > 0
      BY <1>1, RestSubs
    <3>2. QED
      BY <1>4, <3>1 DEF SessionShape, Calling
  <2>2. mine \in Leaked' => mine \in Leaked
    BY <1>1, <1>4, <2>1 DEF Leaked, OpenConns
  <2>3. Leaked' \subseteq Leaked
    BY <1>2, <2>2
  <2>4. QED
    BY <1>0, <1>4, <2>3, PaidSame
<1>5. QED
  BY <1>3, <1>4, SetUpFailsEffect

LEMMA PaidConsumingEnds ==
  ASSUME SessionShape, SessionPaid,
         StopListening \/ ListeningFails \/ CallbackRaises \/ ChannelClosed
           \/ (ConnectionLost /\ Consuming)
  PROVE  SessionPaid'
<1>0. SessionTypeOK /\ failures \in Nat /\ NoConn \notin Conns
  BY DEF SessionShape, SessionTypeOK
<1>1. /\ Consuming /\ Lines(mine) /\ mine' = NoConn
      /\ UNCHANGED <<class, entered, inContext, connection>>
      /\ \/ failures' = failures + 1
         \/ /\ failures' = failures
            /\ (Asyncio /\ status'[mine] = "open") \/ status'[mine] = "none"
                 \/ (inContext /\ UNCHANGED status)
  BY ConsumingEnds DEF CallOver
<1>2. /\ mine \in Conns /\ ~Dead(mine)
      /\ mine = connection <=> Asyncio \/ inContext
      /\ inContext => entered
  BY <1>1, ConsumingFacts
<1>3. Leaked' \subseteq Leaked \cup {mine}
  BY <1>0, <1>1, LeakedLines
<1>4. CASE failures' = failures + 1
  BY <1>0, <1>3, <1>4, PaidMore
<1>5. CASE failures' = failures
  <2>1. Asyncio => entered
    <3>1. Asyncio /\ ~entered => Dead(connection)
      BY DEF SessionShape, Anchored
    <3>2. QED
      BY <1>2, <3>1
  <2>2. mine \notin Leaked'
    <3>1. CASE status'[mine] = "none"
      BY <3>1 DEF Leaked, OpenConns
    <3>2. CASE Asyncio \/ inContext
      BY <1>1, <1>2, <2>1, <3>2 DEF Leaked
    <3>3. QED
      BY <1>0, <1>1, <1>2, <1>5, <3>1, <3>2
  <2>3. Leaked' \subseteq Leaked
    BY <1>3, <2>2
  <2>4. QED
    BY <1>0, <1>5, <2>3, PaidSame
<1>6. QED
  BY <1>1, <1>4, <1>5

LEMMA PaidConnectionLost ==
  ASSUME SessionShape, SessionPaid, ConnectionLost
  PROVE  SessionPaid'
<1>0. SessionTypeOK /\ failures \in Nat /\ NoConn \notin Conns
  BY DEF SessionShape, SessionTypeOK
<1>1. CASE Consuming
  BY <1>1, PaidConsumingEnds
<1>2. CASE ~Consuming
  <2>1. UNCHANGED <<entered, connection, mine>> /\ failures' = failures + 1
    BY <1>0, <1>2, FailsType DEF ConnectionLost
  <2>2. PICK k \in Conns :
          Becomes(k, IF k = connection THEN "lost" ELSE "none", chan[k], 0)
    BY <1>2 DEF ConnectionLost
  <2> DEFINE st == IF k = connection THEN "lost" ELSE "none"
  <2>3. st \in {"none", "open", "lost"} /\ chan[k] \in {"none", "open", "closed"}
    BY <1>0 DEF SessionTypeOK
  <2>4. Lines(k)
    BY <1>0, <2>2, <2>3, LinesReset
  <2>5. Leaked' \subseteq Leaked \cup {k}
    BY <1>0, <2>1, <2>4, LeakedLines
  <2>6. QED
    BY <1>0, <2>1, <2>5, PaidMore
<1>3. QED
  BY <1>1, <1>2

LEMMA SessionPaidNext == SessionShape /\ SessionPaid /\ [SessionNext]_sessionVars => SessionPaid'
<1>1. SUFFICES ASSUME SessionShape, SessionPaid, [SessionNext]_sessionVars PROVE SessionPaid'
  OBVIOUS
<1>2. CASE OpenSession
  BY <1>1, <1>2, PaidOpen
<1>3. CASE OpenSessionFails \/ CloseSessionFails \/ StartConsumingFails
  BY <1>1, <1>3, PaidFailure
<1>4. CASE CloseSession
  BY <1>1, <1>4, PaidClose
<1>5. CASE StartConsuming
  BY <1>1, <1>5, PaidStart
<1>6. CASE SetUpFails
  BY <1>1, <1>6, PaidSetUpFails
<1>7. CASE StopListening \/ ListeningFails \/ CallbackRaises \/ ChannelClosed
  BY <1>1, <1>7, PaidConsumingEnds
<1>8. CASE ConnectionLost
  BY <1>1, <1>8, PaidConnectionLost
<1>9. CASE SetUp \/ ExchangeDeclared \/ UNCHANGED sessionVars
  <2>1. UNCHANGED <<entered, connection, mine, status, failures>>
    BY <1>9 DEF SetUp, ExchangeDeclared, sessionVars, lineVars
  <2>2. Leaked' = Leaked /\ failures \in Nat
    BY <1>1, <2>1 DEF Leaked, OpenConns, SessionShape, SessionTypeOK
  <2>3. QED
    BY <1>1, <2>1, <2>2, PaidSame
<1>10. QED
  BY <1>1, <1>2, <1>3, <1>4, <1>5, <1>6, <1>7, <1>8, <1>9 DEF SessionNext

-----------------------------------------------------------------------------
(* Theorems about the connections. *)

\* The inductive invariant: the shape, and a failure for every connection that is
\* left open.
THEOREM SessionInvariance == SessionSpec => [](SessionShape /\ SessionPaid)
<1>1. SessionInit => SessionShape /\ SessionPaid
  <2>1. SUFFICES ASSUME SessionInit PROVE SessionPaid
    BY SessionInitShape
  <2>2. Leaked = {} /\ failures = 0
    BY <2>1 DEF SessionInit, Leaked, OpenConns
  <2>3. IsFiniteSet({}) /\ Cardinality({}) = 0
    BY FS_EmptySet
  <2>4. QED
    BY <2>2, <2>3 DEF SessionPaid
<1>2. SessionShape /\ SessionPaid /\ [SessionNext]_sessionVars => (SessionShape /\ SessionPaid)'
  BY SessionShapeNext, SessionPaidNext
<1>3. QED
  BY <1>1, <1>2, PTL DEF SessionSpec

\* start_consuming and consume leave no connection open but for a failure on the
\* way; the asyncio client never forgets the one it has.
THEOREM LeaksArePaidFor == SessionSpec => []LeaksCostFailures
<1>1. SessionShape /\ SessionPaid => LeaksCostFailures
  <2>1. SUFFICES ASSUME SessionShape, SessionPaid PROVE LeaksCostFailures
    OBVIOUS
  <2>2. Abandoned \subseteq Leaked
    BY DEF Abandoned, Leaked
  <2>3. IsFiniteSet(Leaked) /\ Cardinality(Leaked) <= failures /\ failures \in Nat
    BY <2>1 DEF SessionPaid, SessionShape, SessionTypeOK
  <2>4. Cardinality(Abandoned) <= failures
    <3>1. IsFiniteSet(Abandoned) /\ Cardinality(Abandoned) <= Cardinality(Leaked)
      BY <2>2, <2>3, FS_Subset
    <3>2. Cardinality(Abandoned) \in Nat /\ Cardinality(Leaked) \in Nat
      BY <2>3, <3>1, FS_CardinalityType
    <3>3. QED
      BY <2>3, <3>1, <3>2
  <2>5. Asyncio => Abandoned = {}
    BY <2>1 DEF Abandoned, OpenConns, SessionShape, Anchored
  <2>6. ASSUME failures = 0, AtRest, ~entered PROVE OpenConns = {}
    <3>1. mine = NoConn
      BY <2>1, <2>6, RestSubs DEF AtRest
    <3>2. Leaked = OpenConns
      BY <2>6, <3>1 DEF Leaked, OpenConns
    <3>3. Cardinality(Leaked) = 0
      BY <2>3, <2>6, FS_CardinalityType
    <3>4. Leaked = {}
      BY <2>3, <3>3, FS_EmptySet
    <3>5. QED
      BY <3>2, <3>4
  <2>7. QED
    BY <2>4, <2>5, <2>6 DEF LeaksCostFailures
<1>2. QED
  BY <1>1, SessionInvariance, PTL

-----------------------------------------------------------------------------
(* The clients of the bus together. *)

\* A program that is not a client of one kind leaves that client's variables alone, and
\* the fairness of the composition is the fairness of its parts: BusSpec implements
\* the specification of the blocking producer, of the asyncio producer, and of the
\* connections of a consumer.
THEOREM ClientsImplemented == BusSpec => FairSpec /\ PoolSpec /\ SessionSpec
<1>1. BusInit => Init /\ PoolInit /\ SessionInit
  BY DEF BusInit
<1>2. [BusNext]_allVars => [Next]_vars
  BY DEF BusNext, allVars
<1>3. [BusNext]_allVars => [PoolNext]_poolVars
  BY DEF BusNext, allVars
<1>4. [BusNext]_allVars => [SessionNext]_sessionVars
  BY DEF BusNext, allVars
<1>5. QED
  BY <1>1, <1>2, <1>3, <1>4, PTL DEF BusSpec, BusFairness, FairSpec, Spec, PoolSpec, SessionSpec

\* The variables of all the clients have their types, whichever of them runs.
THEOREM AllTypesCorrect == BusSpec => []TypesOK
<1>1. TypeOK /\ PoolTypeOK /\ SessionTypeOK => TypesOK
  BY DEF TypesOK
<1>2. QED
  BY <1>1, ClientsImplemented, TypeCorrect, PoolTypeCorrect, SessionTypeCorrect, PTL DEF FairSpec

\* What the run bus checks of the clients, each from the theorem about its module.
THEOREM ClientsCorrect ==
  BusSpec => /\ [](ReportedIsSent /\ CopiesCostFaults /\ ConnectionsGivenBack)
             /\ [](SlotsAccountedFor /\ ReturnedIsStored /\ TeardownClosesAll)
             /\ [](SubscribedIsSetUp /\ SubscriptionsOwned /\ LeaksCostFailures)
             /\ RaisesForAReason
<1>1. Spec => [](ReportedIsSent /\ CopiesCostFaults /\ ConnectionsGivenBack)
  BY ReturnTellsTheTruth, CopiesBounded, LeaksPaidFor, PTL
<1>2. PoolSpec => [](SlotsAccountedFor /\ ReturnedIsStored /\ TeardownClosesAll)
  BY PoolsAccountedFor, PoolTellsTheTruth, TeardownComplete, PTL
<1>3. SessionSpec => [](SubscribedIsSetUp /\ SubscriptionsOwned /\ LeaksCostFailures)
  BY SetUpBeforeSubscribed, NoForgottenSubscription, LeaksArePaidFor, PTL
<1>4. QED
  BY <1>1, <1>2, <1>3, ClientsImplemented, RaisesExplained, PTL DEF FairSpec
=============================================================================
