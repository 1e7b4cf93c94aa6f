------------------------- MODULE DjangoProducerProofs -------------------------
(***************************************************************************)
(* Theorems about DjangoProducer for every value of its constants: any     *)
(* events and connections, any number of attempts, of channels of a        *)
(* connection and of faults.                                               *)
(***************************************************************************)
EXTENDS DjangoProducer, FiniteSetTheorems, TLAPS

USE ProducerAssumption

-----------------------------------------------------------------------------
(* The inductive invariant, in parts. *)

\* publish has a connection, or is between connections.
Busy == pc \in {"channel", "send", "finally"}

\* The attempt's channel has been closed by the broker, the connection is open.
Unchanneled ==
  pc = "finally" /\ ~inCtx /\ link[own] = "open" /\ channels[own] = 0

\* A fault has reached the connection this attempt has made, so that its
\* `finally` may raise.
Troubled == Busy /\ ~inCtx /\ (link[own] = "broken" \/ Unchanneled)

On(k) == {f \in wire : f.on = k}

\* Which connection publish works on, and on which the context has: the one it was
\* entered with, until its __exit__, and after that only a dead one.
Attached ==
  /\ inCtx <=> ctx # Nothing
  /\ inWith => inCtx
  /\ inCtx /\ ~inWith => link[ctx] = "shut"
  /\ IF Busy THEN own \in Connections /\ (inCtx => own = ctx) ELSE own = Nothing
  /\ IF pc = "idle" THEN event = Nothing
     ELSE event \in Events /\ outcome[event] = "none" /\ attempt >= 1
  /\ Busy /\ ~inCtx => link[own] # "shut"
  /\ pc = "channel" /\ ~inCtx => channels[own] = 0
  /\ since <= faults

\* Each frame on the wire, and publish about to send one, has a channel of its own
\* on an open connection: the broker never closes a channel that is not there.
Room ==
  /\ IsFiniteSet(wire)
  /\ \A f \in wire : link[f.on] = "open"
  /\ \A k \in Connections :
       /\ Cardinality(On(k)) <= channels[k]
       /\ pc = "send" /\ own = k /\ link[k] = "open" => Cardinality(On(k)) < channels[k]

Shape == TypeOK /\ Attached /\ Room

-----------------------------------------------------------------------------
(* Types and connections. *)

LEMMA InitShape == Init => Shape
<1>1. SUFFICES ASSUME Init PROVE Shape
  OBVIOUS
<1>2. TypeOK
  <2>1. 0 \in 0..Attempts /\ 0 \in 0..ChannelMax /\ 0 \in 0..MaxFaults
    OBVIOUS
  <2>2. QED
    BY <1>1, <2>1 DEF Init, TypeOK, Steps
<1>3. Attached
  BY <1>1 DEF Init, Attached, Busy
<1>4. \A k \in Connections : On(k) = {} /\ channels[k] = 0
  BY <1>1 DEF Init, On
<1>5. IsFiniteSet({}) /\ Cardinality({}) = 0
  BY FS_EmptySet
<1>6. \A k \in Connections : Cardinality(On(k)) <= channels[k]
  BY <1>4, <1>5
<1>7. Room
  BY <1>1, <1>5, <1>6 DEF Init, Room
<1>8. QED
  BY <1>2, <1>3, <1>7 DEF Shape

\* What is on the wire of one connection can be counted.
LEMMA OnFinite ==
  ASSUME Room, NEW k
  PROVE  IsFiniteSet(On(k)) /\ Cardinality(On(k)) \in Nat
<1>1. On(k) \in SUBSET wire
  BY DEF On
<1>2. QED
  BY <1>1, FS_Subset, FS_CardinalityType DEF Room

\* A connection with a frame under way has a channel.
LEMMA FrameHasChannel ==
  ASSUME Shape, NEW f \in wire
  PROVE  f.on \in Connections /\ link[f.on] = "open" /\ channels[f.on] \in 1..ChannelMax
<1>1. f.on \in Connections
  BY DEF Shape, TypeOK, Frames
<1>2. f \in On(f.on)
  BY DEF On
<1>3. Cardinality(On(f.on)) # 0
  BY <1>2, OnFinite, FS_EmptySet DEF Shape
<1>4. QED
  BY <1>1, <1>3, OnFinite DEF Shape, Room, TypeOK

LEMMA FaultType ==
  ASSUME Shape, Fault
  PROVE  /\ since' \in 0..MaxFaults /\ faults' \in 0..MaxFaults
         /\ since' <= faults' /\ faults \in Nat
         /\ faults' = faults + 1 /\ since' = since + 1 /\ since \in Nat
BY DEF Shape, TypeOK, Attached, Fault

LEMMA SetLinkType ==
  ASSUME TypeOK, NEW k \in Connections, NEW s \in {"none", "open", "broken", "shut"},
         NEW n \in 0..ChannelMax, SetLink(k, s, n)
  PROVE  /\ link' \in [Connections -> {"none", "open", "broken", "shut"}]
         /\ channels' \in [Connections -> 0..ChannelMax]
         /\ link'[k] = s /\ channels'[k] = n
         /\ \A c \in Connections : c # k => link'[c] = link[c] /\ channels'[c] = channels[c]
BY DEF TypeOK, SetLink

\* Each step keeps the types, and the connections attached.
LEMMA TypeNext ==
  ASSUME Shape, Next
  PROVE  TypeOK' /\ Attached'
<1>0. TypeOK /\ Attached /\ Room
  BY DEF Shape
<1>1. CASE Enter
  BY <1>0, <1>1 DEF Enter, TypeOK, Attached, Busy, Steps, callVars, wireVars, historyVars
<1>2. CASE Exit
  <2>1. ctx \in Connections
    BY <1>0, <1>2 DEF Exit, TypeOK, Attached
  <2>2. CASE (link[ctx] = "open" /\ Quiescent(ctx)) \/ link[ctx] = "shut"
    <3>1. SetLink(ctx, "none", 0) /\ inCtx' = FALSE /\ ctx' = Nothing
      BY <1>2, <2>2 DEF Exit
    <3>2. /\ link' \in [Connections -> {"none", "open", "broken", "shut"}]
          /\ channels' \in [Connections -> 0..ChannelMax]
      BY <1>0, <2>1, <3>1, SetLinkType
    <3>3. TypeOK'
      BY <1>0, <1>2, <3>1, <3>2 DEF Exit, TypeOK, Steps, callVars, wireVars, historyVars
    <3>4. QED
      BY <1>0, <1>2, <3>1, <3>3 DEF Exit, Attached, Busy, callVars, historyVars
  <2>3. CASE link[ctx] = "broken"
    <3>1. SetLink(ctx, "shut", 0) /\ UNCHANGED <<inCtx, ctx>>
      BY <1>2, <2>3 DEF Exit
    <3>2. /\ link' \in [Connections -> {"none", "open", "broken", "shut"}]
          /\ channels' \in [Connections -> 0..ChannelMax]
          /\ link'[ctx] = "shut"
      BY <1>0, <2>1, <3>1, SetLinkType
    <3>3. TypeOK'
      BY <1>0, <1>2, <3>1, <3>2 DEF Exit, TypeOK, Steps, callVars, wireVars, historyVars
    <3>4. QED
      BY <1>0, <1>2, <3>1, <3>2, <3>3 DEF Exit, Attached, Busy, callVars, historyVars
  <2>4. QED
    BY <1>2, <2>2, <2>3 DEF Exit
<1>3. ASSUME NEW e \in Events, Call(e)
      PROVE  TypeOK' /\ Attached'
  BY <1>0, <1>3 DEF Call, TypeOK, Attached, Busy, Steps, linkVars, wireVars
<1>4. CASE TakeConnection
  BY <1>0, <1>4 DEF TakeConnection, SetLink, TypeOK, Attached, Busy, Steps, wireVars, historyVars
<1>5. CASE ConnectFails
  BY <1>0, <1>5, FaultType
     DEF ConnectFails, AttemptFails, TypeOK, Attached, Busy, Steps, linkVars, wireVars
<1>6. CASE OpenChannel
  BY <1>0, <1>6 DEF OpenChannel, SetLink, TypeOK, Attached, Busy, Steps, wireVars, historyVars
<1>7. CASE ChannelFails
  BY <1>0, <1>7
     DEF ChannelFails, AttemptFails, Noticed, SetLink, TypeOK, Attached, Busy, Steps, wireVars, historyVars
<1>8. CASE Send
  BY <1>0, <1>8
     DEF Send, Noticed, SetLink, TypeOK, Attached, Busy, Steps, Frames
<1>9. CASE KeepOpen
  BY <1>0, <1>9 DEF KeepOpen, CallEnds, TypeOK, Attached, Busy, Steps, linkVars, wireVars, historyVars
<1>10. CASE CloseOwn
  BY <1>0, <1>10
     DEF CloseOwn, CallEnds, SetLink, TypeOK, Attached, Busy, Steps, wireVars, historyVars
<1>11. CASE CloseRaises
  BY <1>0, <1>11
     DEF CloseRaises, AttemptFails, SetLink, TypeOK, Attached, Busy, Steps, wireVars, historyVars
<1>12. CASE Wake
  BY <1>0, <1>12
     DEF Wake, Again, CallEnds, TypeOK, Attached, Busy, Steps, linkVars, wireVars, historyVars
<1>13. ASSUME NEW f \in wire, Route(f)
       PROVE  TypeOK' /\ Attached'
  BY <1>0, <1>13 DEF Route, TypeOK, Attached, Busy, Steps, linkVars, callVars, historyVars
<1>14. ASSUME NEW f \in wire, CloseChannel(f)
       PROVE  TypeOK' /\ Attached'
  <2>1. f.on \in Connections /\ channels[f.on] \in 1..ChannelMax /\ f.event \in Events
    BY <1>0, FrameHasChannel DEF TypeOK, Frames
  <2>2. since' \in 0..MaxFaults /\ faults' \in 0..MaxFaults /\ since' <= faults'
    BY <1>14, FaultType DEF CloseChannel
  <2>3. channels' \in [Connections -> 0..ChannelMax]
    BY <1>0, <1>14, <2>1 DEF CloseChannel, TypeOK
  <2>4. TypeOK'
    BY <1>0, <1>14, <2>1, <2>2, <2>3 DEF CloseChannel, TypeOK, Steps, callVars
  <2>5. pc = "channel" /\ ~inCtx => channels'[own] = 0
    BY <1>0, <1>14, <2>1 DEF CloseChannel, Attached, Busy, TypeOK
  <2>6. QED
    BY <1>0, <1>14, <2>2, <2>4, <2>5 DEF CloseChannel, Attached, Busy, callVars
<1>15. ASSUME NEW k \in Connections, Lose(k)
       PROVE  TypeOK' /\ Attached'
  <2>1. since' \in 0..MaxFaults /\ faults' \in 0..MaxFaults /\ since' <= faults'
    BY <1>15, FaultType DEF Lose
  <2>2. {f.event : f \in wire \ wire'} \subseteq Events
    BY <1>0 DEF TypeOK, Frames
  <2>3. /\ link' \in [Connections -> {"none", "open", "broken", "shut"}]
        /\ channels' \in [Connections -> 0..ChannelMax]
        /\ channels'[k] = 0
        /\ k = own => link'[k] = "broken"
        /\ \A c \in Connections : c # k => link'[c] = link[c] /\ channels'[c] = channels[c]
    BY <1>0, <1>15, SetLinkType DEF Lose
  <2>4. TypeOK'
    BY <1>0, <1>15, <2>1, <2>2, <2>3 DEF Lose, TypeOK, Steps, callVars
  <2>5. QED
    BY <1>0, <1>15, <2>1, <2>3, <2>4 DEF Lose, Attached, Busy, callVars, TypeOK
<1>16. QED
  BY <1>1, <1>2, <1>3, <1>4, <1>5, <1>6, <1>7, <1>8, <1>9, <1>10, <1>11, <1>12, <1>13,
     <1>14, <1>15 DEF Next, PublishStep

-----------------------------------------------------------------------------
(* Channels. *)

\* A connection that is not open, or has been drained, has nothing on the wire.
LEMMA NothingOn ==
  ASSUME Shape, NEW k, link[k] # "open" \/ Quiescent(k)
  PROVE  On(k) = {} /\ Cardinality(On(k)) = 0
<1>1. On(k) = {}
  BY DEF Shape, Room, On, Quiescent
<1>2. QED
  BY <1>1, FS_EmptySet

\* Frames that leave the wire take nothing from the others.
LEMMA OnShrinks ==
  ASSUME Shape, wire' \subseteq wire
  PROVE  /\ IsFiniteSet(wire')
         /\ \A k : /\ Cardinality(On(k)') <= Cardinality(On(k))
                   /\ Cardinality(On(k)') \in Nat /\ Cardinality(On(k)) \in Nat
<1>1. IsFiniteSet(wire')
  BY FS_Subset DEF Shape, Room
<1>2. ASSUME NEW k
      PROVE  /\ Cardinality(On(k)') <= Cardinality(On(k))
             /\ Cardinality(On(k)') \in Nat /\ Cardinality(On(k)) \in Nat
  <2>1. On(k)' \in SUBSET On(k)
    BY DEF On
  <2>2. QED
    BY <2>1, OnFinite, FS_Subset, FS_CardinalityType DEF Shape
<1>3. QED
  BY <1>1, <1>2

\* A step that puts nothing on the wire and leaves the connections alone.
LEMMA RoomStays ==
  ASSUME Shape, wire' \subseteq wire, UNCHANGED <<link, channels>>,
         pc' = "send" => pc = "send" /\ own' = own
  PROVE  Room'
<1>1. /\ IsFiniteSet(wire') /\ \A f \in wire' : link'[f.on] = "open"
      /\ \A k \in Connections : channels[k] \in Nat
  BY OnShrinks DEF Shape, Room, TypeOK
<1>2. ASSUME NEW k \in Connections
      PROVE  /\ Cardinality(On(k)') <= channels'[k]
             /\ pc' = "send" /\ own' = k /\ link'[k] = "open" => Cardinality(On(k)') < channels'[k]
  <2>1. /\ Cardinality(On(k)') <= Cardinality(On(k))
        /\ Cardinality(On(k)') \in Nat /\ Cardinality(On(k)) \in Nat
    BY OnShrinks
  <2>2. /\ Cardinality(On(k)) <= channels[k]
        /\ pc = "send" /\ own = k /\ link[k] = "open" => Cardinality(On(k)) < channels[k]
    BY DEF Shape, Room
  <2>3. QED
    BY <1>1, <2>1, <2>2
<1>3. QED
  BY <1>1, <1>2 DEF Room

\* A step that opens, breaks or forgets connections on which nothing is under way.
LEMMA RoomElsewhere ==
  ASSUME Shape, wire' \subseteq wire, channels' \in [Connections -> 0..ChannelMax],
         \A k \in Connections :
           \/ link'[k] = link[k] /\ channels'[k] = channels[k]
           \/ On(k)' = {},
         pc' = "send" => FALSE
  PROVE  Room'
<1>1. IsFiniteSet(wire') /\ \A k \in Connections : channels[k] \in Nat /\ channels'[k] \in Nat
  BY OnShrinks DEF Shape, TypeOK
<1>2. \A f \in wire' : link'[f.on] = "open"
  <2>1. SUFFICES ASSUME NEW f \in wire' PROVE link'[f.on] = "open"
    OBVIOUS
  <2>2. f \in On(f.on)' /\ f.on \in Connections /\ link[f.on] = "open"
    BY <2>1 DEF On, Shape, Room, TypeOK, Frames
  <2>3. QED
    BY <2>2
<1>3. ASSUME NEW k \in Connections
      PROVE  Cardinality(On(k)') <= channels'[k]
  <2>1. CASE On(k)' = {}
    <3>1. Cardinality({}) = 0
      BY FS_EmptySet
    <3>2. QED
      BY <1>1, <2>1, <3>1
  <2>2. CASE channels'[k] = channels[k]
    <3>1. /\ Cardinality(On(k)') <= Cardinality(On(k))
          /\ Cardinality(On(k)') \in Nat /\ Cardinality(On(k)) \in Nat
      BY OnShrinks
    <3>2. Cardinality(On(k)) <= channels[k]
      BY DEF Shape, Room
    <3>3. QED
      BY <1>1, <2>2, <3>1, <3>2
  <2>3. QED
    BY <2>1, <2>2
<1>4. QED
  BY <1>1, <1>2, <1>3 DEF Room

\* Setting one connection on which nothing is under way.
LEMMA RoomSet ==
  ASSUME Shape, wire' = wire, NEW k \in Connections, On(k) = {},
         NEW s \in {"none", "open", "broken", "shut"}, NEW n \in 0..ChannelMax,
         SetLink(k, s, n), pc' # "send"
  PROVE  Room'
<1>1. /\ channels' \in [Connections -> 0..ChannelMax]
      /\ \A c \in Connections : c # k => link'[c] = link[c] /\ channels'[c] = channels[c]
  BY SetLinkType DEF Shape
<1>2. On(k)' = {}
  BY DEF On
<1>3. QED
  BY <1>1, <1>2, RoomElsewhere

\* Frames and channels stay matched whatever publish, the broker and the network do.
LEMMA RoomNext ==
  ASSUME Shape, Next
  PROVE  Room'
<1>0. TypeOK /\ Attached /\ Room
  BY DEF Shape
<1>1. CASE Enter
  <2>1. PICK k \in Connections :
          /\ link[k] = "none"
          /\ link' = [c \in Connections |-> IF c = k THEN "open"
                                            ELSE IF c = ctx THEN "none" ELSE link[c]]
          /\ channels' = [channels EXCEPT ![k] = 1]
    BY <1>1 DEF Enter
  <2>2. pc' = "idle" /\ wire' = wire
    BY <1>1 DEF Enter, callVars, wireVars
  <2>3. On(k) = {} /\ (ctx \in Connections => On(ctx) = {})
    BY <1>0, <1>1, <2>1, NothingOn DEF Enter, Attached, TypeOK
  <2>4. \A c : On(c)' = On(c)
    BY <2>2 DEF On
  <2>5. channels' \in [Connections -> 0..ChannelMax]
    BY <1>0, <2>1 DEF TypeOK
  <2>6. \A c \in Connections :
          \/ link'[c] = link[c] /\ channels'[c] = channels[c]
          \/ On(c)' = {}
    BY <1>0, <2>1, <2>3, <2>4 DEF TypeOK
  <2>7. QED
    BY <2>2, <2>5, <2>6, RoomElsewhere
<1>2. CASE Exit
  <2>1. ctx \in Connections /\ wire' = wire /\ pc' = "idle"
    BY <1>0, <1>2 DEF Exit, TypeOK, Attached, callVars, wireVars
  <2>2. On(ctx) = {}
    BY <1>2, NothingOn DEF Exit
  <2>3. SetLink(ctx, "none", 0) \/ SetLink(ctx, "shut", 0)
    BY <1>2 DEF Exit
  <2>4. QED
    BY <2>1, <2>2, <2>3, RoomSet
<1>3. ASSUME NEW e \in Events, Call(e)
      PROVE  Room'
  BY <1>3, RoomStays DEF Call, linkVars, wireVars
<1>4. CASE TakeConnection
  <2>1. CASE UNCHANGED <<link, channels>>
    BY <1>4, <2>1, RoomStays DEF TakeConnection, wireVars
  <2>2. ASSUME NEW k \in Connections, link[k] = "none", SetLink(k, "open", 0)
        PROVE  Room'
    <3>1. On(k) = {}
      BY <2>2, NothingOn
    <3>2. QED
      BY <1>4, <2>2, <3>1, RoomSet DEF TakeConnection, wireVars
  <2>3. QED
    BY <1>4, <2>1, <2>2 DEF TakeConnection
<1>5. CASE ConnectFails
  BY <1>5, RoomStays DEF ConnectFails, AttemptFails, linkVars, wireVars
<1>6. CASE OpenChannel
  <2>1. own \in Connections /\ link[own] = "open" /\ wire' = wire /\ own' = own
    BY <1>0, <1>6 DEF OpenChannel, Attached, Busy, wireVars
  <2>2. /\ \A c \in Connections : channels[c] \in Nat
        /\ link' = link
        /\ channels' = [channels EXCEPT ![own] = @ + 1]
    BY <1>0, <1>6, <2>1 DEF OpenChannel, SetLink, TypeOK
  <2>3. ASSUME NEW c \in Connections
        PROVE  /\ Cardinality(On(c)') <= channels'[c]
               /\ own' = c => Cardinality(On(c)') < channels'[c]
    <3>1. On(c)' = On(c)
      BY <2>1 DEF On
    <3>2. Cardinality(On(c)) <= channels[c] /\ Cardinality(On(c)) \in Nat
      BY <1>0, OnFinite DEF Room
    <3>3. channels'[c] = IF c = own THEN channels[c] + 1 ELSE channels[c]
      BY <1>0, <2>2 DEF TypeOK
    <3>4. QED
      BY <2>1, <2>2, <3>1, <3>2, <3>3
  <2>4. QED
    BY <1>0, <2>1, <2>2, <2>3 DEF Room
<1>7. CASE ChannelFails
  <2>1. own \in Connections /\ wire' = wire /\ pc' = "sleep"
    BY <1>0, <1>7 DEF ChannelFails, AttemptFails, Attached, Busy, wireVars
  <2>2. CASE UNCHANGED <<link, channels>>
    BY <2>1, <2>2, RoomStays
  <2>3. CASE link[own] \in {"broken", "shut"} /\ SetLink(own, Noticed(own), 0)
    <3>1. On(own) = {}
      BY <2>3, NothingOn
    <3>2. Noticed(own) \in {"none", "shut"}
      BY DEF Noticed
    <3>3. QED
      BY <2>1, <2>3, <3>1, <3>2, RoomSet
  <2>4. QED
    BY <1>7, <2>2, <2>3 DEF ChannelFails
<1>8. CASE Send
  <2>1. own \in Connections /\ pc' = "finally" /\ pc = "send"
    BY <1>0, <1>8 DEF Send, Attached, Busy
  <2>2. CASE wire' = wire /\ UNCHANGED <<link, channels>>
    BY <2>1, <2>2, RoomStays
  <2>3. CASE wire' = wire /\ link[own] = "broken" /\ SetLink(own, Noticed(own), 0)
    <3>1. On(own) = {}
      BY <2>3, NothingOn
    <3>2. Noticed(own) \in {"none", "shut"}
      BY DEF Noticed
    <3>3. QED
      BY <2>1, <2>3, <3>1, <3>2, RoomSet
  <2>4. CASE /\ link[own] = "open"
             /\ wire' = wire \cup {[event |-> event, try |-> attempt, on |-> own]}
             /\ UNCHANGED <<link, channels>>
    <3> DEFINE g == [event |-> event, try |-> attempt, on |-> own]
    <3>1. IsFiniteSet(wire') /\ \A f \in wire' : link'[f.on] = "open"
      <4>1. IsFiniteSet(wire) /\ \A f \in wire : link[f.on] = "open"
        BY <1>0 DEF Room
      <4>2. IsFiniteSet(wire \cup {g}) /\ g.on = own
        BY <4>1, FS_AddElement
      <4>3. QED
        BY <2>4, <4>1, <4>2
    <3>2. ASSUME NEW c \in Connections
          PROVE  Cardinality(On(c)') <= channels'[c]
      <4>1. On(c)' = IF c = own THEN On(c) \cup {g} ELSE On(c)
        BY <2>4 DEF On
      <4>2. IsFiniteSet(On(c)) /\ Cardinality(On(c)) \in Nat
        BY <1>0, OnFinite
      <4>3. Cardinality(On(c) \cup {g}) \in {Cardinality(On(c)), Cardinality(On(c)) + 1}
        BY <4>2, FS_AddElement
      <4>4. /\ Cardinality(On(c)) <= channels[c] /\ channels[c] \in Nat
            /\ c = own => Cardinality(On(c)) < channels[c]
        BY <1>0, <2>1, <2>4 DEF Room, TypeOK
      <4>5. QED
        BY <2>4, <4>1, <4>2, <4>3, <4>4
    <3>3. QED
      BY <2>1, <3>1, <3>2 DEF Room
  <2>5. QED
    BY <1>8, <2>2, <2>3, <2>4 DEF Send
<1>9. CASE KeepOpen
  BY <1>9, RoomStays DEF KeepOpen, CallEnds, linkVars, wireVars
<1>10. CASE CloseOwn
  <2>1. own \in Connections /\ wire' = wire /\ pc' = "idle"
    BY <1>0, <1>10 DEF CloseOwn, CallEnds, Attached, Busy, wireVars
  <2>2. On(own) = {}
    BY <1>10, NothingOn DEF CloseOwn
  <2>3. QED
    BY <1>10, <2>1, <2>2, RoomSet DEF CloseOwn
<1>11. CASE CloseRaises
  <2>1. own \in Connections /\ wire' = wire /\ pc' = "sleep"
    BY <1>0, <1>11 DEF CloseRaises, AttemptFails, Attached, Busy, wireVars
  <2>2. On(own) = {}
    BY <1>11, NothingOn DEF CloseRaises
  <2>3. QED
    BY <1>11, <2>1, <2>2, RoomSet, RoomStays DEF CloseRaises
<1>12. CASE Wake
  BY <1>12, RoomStays DEF Wake, Again, CallEnds, linkVars, wireVars
<1>13. ASSUME NEW f \in wire, Route(f)
       PROVE  Room'
  BY <1>13, RoomStays DEF Route, linkVars, callVars
<1>14. ASSUME NEW f \in wire, CloseChannel(f)
       PROVE  Room'
  <2>1. f.on \in Connections /\ wire' = wire \ {f} /\ UNCHANGED <<link, pc, own>>
    BY <1>14, FrameHasChannel DEF CloseChannel, callVars
  <2>2. IsFiniteSet(wire') /\ \A g \in wire' : link'[g.on] = "open"
    BY <1>0, <2>1, OnShrinks DEF Room
  <2>3. ASSUME NEW c \in Connections
        PROVE  /\ Cardinality(On(c)') <= channels'[c]
               /\ pc = "send" /\ own = c /\ link[c] = "open" => Cardinality(On(c)') < channels'[c]
    <3>1. On(c)' = (IF c = f.on THEN On(c) \ {f} ELSE On(c)) /\ (c = f.on => f \in On(c))
      BY <2>1, <1>14 DEF On
    <3>2. IsFiniteSet(On(c)) /\ Cardinality(On(c)) \in Nat
      BY <1>0, OnFinite
    <3>3. f \in On(c) => Cardinality(On(c) \ {f}) = Cardinality(On(c)) - 1
      BY <3>2, FS_RemoveElement
    <3>4. channels'[c] = (IF c = f.on THEN channels[c] - 1 ELSE channels[c]) /\ channels[c] \in Nat
      BY <1>0, <1>14 DEF CloseChannel, TypeOK
    <3>5. /\ Cardinality(On(c)) <= channels[c]
          /\ pc = "send" /\ own = c /\ link[c] = "open" => Cardinality(On(c)) < channels[c]
      BY <1>0 DEF Room
    <3>6. QED
      BY <3>1, <3>2, <3>3, <3>4, <3>5
  <2>4. QED
    BY <2>1, <2>2, <2>3 DEF Room
<1>15. ASSUME NEW k \in Connections, Lose(k)
       PROVE  Room'
  <2>1. On(k)' = {} /\ wire' \subseteq wire /\ UNCHANGED <<pc, own>>
    BY <1>15 DEF Lose, On, callVars
  <2>2. /\ channels' \in [Connections -> 0..ChannelMax]
        /\ link'[k] # "open"
        /\ \A c \in Connections : c # k => link'[c] = link[c] /\ channels'[c] = channels[c]
    BY <1>0, <1>15, SetLinkType DEF Lose
  <2>3. /\ IsFiniteSet(wire')
        /\ \A c \in Connections : channels[c] \in Nat /\ channels'[c] \in Nat
    BY <1>0, <2>1, <2>2, OnShrinks DEF TypeOK
  <2>4. \A f \in wire' : link'[f.on] = "open"
    <3>1. SUFFICES ASSUME NEW f \in wire' PROVE link'[f.on] = "open"
      OBVIOUS
    <3>2. f \in On(f.on)' /\ f.on \in Connections /\ link[f.on] = "open"
      BY <1>0, <2>1, <3>1 DEF On, Room, TypeOK, Frames
    <3>3. QED
      BY <2>1, <2>2, <3>2
  <2>5. ASSUME NEW c \in Connections
        PROVE  /\ Cardinality(On(c)') <= channels'[c]
               /\ pc = "send" /\ own = c /\ link'[c] = "open" => Cardinality(On(c)') < channels'[c]
    <3>1. CASE c = k
      <4>1. Cardinality({}) = 0
        BY FS_EmptySet
      <4>2. QED
        BY <2>1, <2>2, <2>3, <3>1, <4>1
    <3>2. CASE c # k
      <4>1. /\ Cardinality(On(c)') <= Cardinality(On(c))
            /\ Cardinality(On(c)') \in Nat /\ Cardinality(On(c)) \in Nat
        BY <2>1, OnShrinks
      <4>2. /\ Cardinality(On(c)) <= channels[c]
            /\ pc = "send" /\ own = c /\ link[c] = "open" => Cardinality(On(c)) < channels[c]
        BY <1>0 DEF Room
      <4>3. QED
        BY <2>2, <2>3, <3>2, <4>1, <4>2
    <3>3. QED
      BY <3>1, <3>2
  <2>6. QED
    BY <2>1, <2>3, <2>4, <2>5 DEF Room
<1>16. QED
  BY <1>1, <1>2, <1>3, <1>4, <1>5, <1>6, <1>7, <1>8, <1>9, <1>10, <1>11, <1>12, <1>13,
     <1>14, <1>15 DEF Next, PublishStep

LEMMA ShapeNext == Shape /\ [Next]_vars => Shape'
<1>1. ASSUME Shape, UNCHANGED vars PROVE Shape'
  BY <1>1 DEF Shape, TypeOK, Attached, Busy, Room, On, vars, linkVars, callVars, wireVars, historyVars
<1>2. QED
  BY <1>1, TypeNext, RoomNext DEF Shape

\* The inductive invariant that all the theorems about publish rest on.
THEOREM ShapeInvariant == Spec => []Shape
BY InitShape, ShapeNext, PTL DEF Spec

\* Attempts, channels and faults stay within their bounds, and no frame, connection
\* or event is named that is not there: TypeOK.
THEOREM TypeCorrect == Spec => []TypeOK
<1>1. Shape => TypeOK
  BY DEF Shape
<1>2. QED
  BY <1>1, ShapeInvariant, PTL

-----------------------------------------------------------------------------
(* Copies of an event. *)

\* Before its attempt sends, an event has fewer copies than attempts and no more
\* than there were faults: the last attempt that sent it has seen one.
Tally ==
  /\ IsFiniteSet(stored)
  /\ \A e \in Events : /\ Cardinality(Copies(e)) <= Attempts
                       /\ Cardinality(Copies(e)) <= 1 + faults
                       /\ outcome[e] = "none" /\ e # event => Copies(e) = {}
  /\ pc \in {"start", "channel", "send"} => /\ Cardinality(Copies(event)) < attempt
                                            /\ Cardinality(Copies(event)) <= faults
  /\ pc \in {"finally", "sleep"} => Cardinality(Copies(event)) <= attempt
  /\ pc = "sleep" \/ Troubled => Cardinality(Copies(event)) <= faults

LEMMA InitTally == Init => Tally
<1>1. SUFFICES ASSUME Init PROVE Tally
  OBVIOUS
<1>2. IsFiniteSet({}) /\ Cardinality({}) = 0
  BY FS_EmptySet
<1>3. \A e \in Events : Copies(e) = {}
  BY <1>1 DEF Init, Copies
<1>4. pc = "idle" /\ stored = {} /\ faults = 0
  BY <1>1 DEF Init
<1>5. \A e \in Events : Cardinality(Copies(e)) = 0
  BY <1>2, <1>3
<1>6. QED
  BY <1>2, <1>3, <1>4, <1>5 DEF Tally, Troubled, Busy

LEMMA CopiesFinite ==
  ASSUME Room, IsFiniteSet(stored), NEW e
  PROVE  IsFiniteSet(Copies(e)) /\ Cardinality(Copies(e)) \in Nat
<1>1. IsFiniteSet(wire \cup stored)
  BY FS_Union DEF Room
<1>2. Copies(e) \in SUBSET (wire \cup stored)
  BY DEF Copies
<1>3. QED
  BY <1>1, <1>2, FS_Subset, FS_CardinalityType

\* Steps that send nothing make no copy.
LEMMA CopiesShrink ==
  ASSUME Room, IsFiniteSet(stored), IsFiniteSet(stored'), wire' \cup stored' \subseteq wire \cup stored
  PROVE  \A e : /\ Copies(e)' \subseteq Copies(e)
                /\ Cardinality(Copies(e)') <= Cardinality(Copies(e))
                /\ Cardinality(Copies(e)') \in Nat /\ Cardinality(Copies(e)) \in Nat
<1>1. SUFFICES ASSUME NEW e
               PROVE  /\ Copies(e)' \subseteq Copies(e)
                      /\ Cardinality(Copies(e)') <= Cardinality(Copies(e))
                      /\ Cardinality(Copies(e)') \in Nat /\ Cardinality(Copies(e)) \in Nat
  OBVIOUS
<1>2. Copies(e)' \in SUBSET Copies(e)
  BY DEF Copies
<1>3. QED
  BY <1>2, CopiesFinite, FS_Subset, FS_CardinalityType

\* A step that sends nothing keeps the tally, if it keeps what the tally says of
\* the event that is being published.
LEMMA TallyStays ==
  ASSUME Shape, Tally, IsFiniteSet(stored'), wire' \cup stored' \subseteq wire \cup stored,
         faults' \in Nat, faults <= faults',
         \A e \in Events : outcome'[e] = "none" /\ e # event' => outcome[e] = "none" /\ e # event,
         pc' \in {"start", "channel", "send"} =>
           /\ Cardinality(Copies(event')) < attempt'
           /\ Cardinality(Copies(event')) <= faults',
         pc' \in {"finally", "sleep"} => Cardinality(Copies(event')) <= attempt',
         pc' = "sleep" \/ Troubled' => Cardinality(Copies(event')) <= faults',
         attempt' \in Nat
  PROVE  Tally'
<1>1. \A e : /\ Copies(e)' \subseteq Copies(e)
             /\ Cardinality(Copies(e)') <= Cardinality(Copies(e))
             /\ Cardinality(Copies(e)') \in Nat /\ Cardinality(Copies(e)) \in Nat
  BY CopiesShrink DEF Shape, Tally
<1>2. faults \in Nat
  BY DEF Shape, TypeOK
<1>3. ASSUME NEW e \in Events
      PROVE  /\ Cardinality(Copies(e)') <= Attempts
             /\ Cardinality(Copies(e)') <= 1 + faults'
             /\ outcome'[e] = "none" /\ e # event' => Copies(e)' = {}
  <2>1. /\ Cardinality(Copies(e)) <= Attempts
        /\ Cardinality(Copies(e)) <= 1 + faults
        /\ outcome[e] = "none" /\ e # event => Copies(e) = {}
    BY DEF Tally
  <2>2. /\ Copies(e)' \subseteq Copies(e)
        /\ Cardinality(Copies(e)') <= Cardinality(Copies(e))
        /\ Cardinality(Copies(e)') \in Nat /\ Cardinality(Copies(e)) \in Nat
    BY <1>1
  <2>3. QED
    BY <1>2, <2>1, <2>2
<1>4. DEFINE n == Cardinality(Copies(event)')  o == Cardinality(Copies(event'))
<1>5. n <= o /\ n \in Nat /\ o \in Nat
  <2>1. \A e : /\ Cardinality({f \in wire' \cup stored' : f.event = e}) <= Cardinality(Copies(e))
               /\ Cardinality({f \in wire' \cup stored' : f.event = e}) \in Nat
               /\ Cardinality(Copies(e)) \in Nat
    BY <1>1 DEF Copies
  <2>2. n = Cardinality({f \in wire' \cup stored' : f.event = event'})
    BY DEF Copies
  <2>3. QED
    BY <2>1, <2>2
<1>6. /\ pc' \in {"start", "channel", "send"} => n < attempt' /\ n <= faults'
      /\ pc' \in {"finally", "sleep"} => n <= attempt'
      /\ pc' = "sleep" \/ Troubled' => n <= faults'
  BY <1>5
<1>7. QED
  BY <1>3, <1>6 DEF Tally

\* json.dumps and basic_publish make at most one copy, and none on a broken connection.
LEMMA TallySend ==
  ASSUME Shape, Tally, Send
  PROVE  Tally'
<1>1. /\ own \in Connections /\ event \in Events /\ pc = "send" /\ pc' = "finally"
      /\ UNCHANGED <<inCtx, event, attempt, own, stored, outcome, faults>>
      /\ attempt \in 1..Attempts /\ faults \in Nat
  BY DEF Send, Shape, Attached, Busy, TypeOK
<1>2. Cardinality(Copies(event)) < attempt /\ Cardinality(Copies(event)) <= faults
  BY <1>1 DEF Tally
<1>3. IsFiniteSet(Copies(event)) /\ Cardinality(Copies(event)) \in Nat
  BY CopiesFinite DEF Shape, Tally
<1>4. CASE wire' = wire
  BY <1>1, <1>2, <1>3, <1>4, TallyStays DEF Shape, Tally
<1>5. CASE /\ link[own] = "open" /\ UNCHANGED <<link, channels>>
           /\ wire' = wire \cup {[event |-> event, try |-> attempt, on |-> own]}
  <2> DEFINE g == [event |-> event, try |-> attempt, on |-> own]
  <2>1. \A e : Copies(e)' = IF e = event THEN Copies(e) \cup {g} ELSE Copies(e)
    BY <1>1, <1>5 DEF Copies
  <2>2. Cardinality(Copies(event) \cup {g}) \in {Cardinality(Copies(event)), Cardinality(Copies(event)) + 1}
    BY <1>3, FS_AddElement
  <2>3. Cardinality(Copies(event) \cup {g}) <= attempt /\ Cardinality(Copies(event) \cup {g}) <= 1 + faults
    BY <1>1, <1>2, <1>3, <2>2
  <2>4. channels[own] # 0
    <3>1. Cardinality(On(own)) < channels[own] /\ Cardinality(On(own)) \in Nat /\ channels[own] \in Nat
      BY <1>1, <1>5, OnFinite DEF Shape, Room, TypeOK
    <3>2. QED
      BY <3>1
  <2>5. ~ Troubled'
    BY <1>1, <1>5, <2>4 DEF Troubled, Unchanneled
  <2>6. ASSUME NEW e \in Events
        PROVE  /\ Cardinality(Copies(e)') <= Attempts
               /\ Cardinality(Copies(e)') <= 1 + faults
               /\ outcome[e] = "none" /\ e # event => Copies(e)' = {}
    <3>1. CASE e = event
      <4>1. Copies(e)' = Copies(event) \cup {g}
        BY <2>1, <3>1
      <4>2. Cardinality(Copies(event) \cup {g}) <= Attempts
        BY <1>1, <1>3, <2>2, <2>3
      <4>3. QED
        BY <2>3, <3>1, <4>1, <4>2
    <3>2. CASE e # event
      BY <2>1, <3>2 DEF Tally
    <3>3. QED
      BY <3>1, <3>2
  <2>7. Cardinality(Copies(event)') <= attempt
    <3>1. Copies(event)' = Copies(event) \cup {g}
      BY <1>1, <1>5 DEF Copies
    <3>2. QED
      BY <2>3, <3>1
  <2>8. QED
    BY <1>1, <2>5, <2>6, <2>7 DEF Tally
<1>6. QED
  BY <1>4, <1>5 DEF Send

LEMMA TallyNext ==
  ASSUME Shape, Tally, Next
  PROVE  Tally'
<1>0. TypeOK /\ Attached /\ Room
  BY DEF Shape
<1>a. Attached' /\ TypeOK'
  BY TypeNext
<1>b. \A e \in Events : Cardinality(Copies(e)) \in Nat
  BY <1>0, CopiesFinite DEF Tally
<1>c. attempt' \in Nat /\ faults' \in Nat /\ attempt \in Nat /\ faults \in Nat
  BY <1>0, <1>a DEF TypeOK
<1>1. CASE Enter \/ Exit
  <2>1. UNCHANGED <<pc, event, attempt, wire, stored, outcome, faults>> /\ pc = "idle"
    BY <1>1 DEF Enter, Exit, callVars, wireVars, historyVars
  <2>2. QED
    BY <1>c, <2>1, TallyStays DEF Tally, Troubled, Busy
<1>2. ASSUME NEW e \in Events, Call(e)
      PROVE  Tally'
  <2>1. /\ pc = "idle" /\ event = Nothing /\ outcome[e] = "none"
        /\ pc' = "start" /\ event' = e /\ attempt' = 1
        /\ UNCHANGED <<wire, stored, outcome, faults>>
    BY <1>0, <1>2 DEF Call, Attached, wireVars
  <2>2. Copies(e) = {} /\ Cardinality({}) = 0
    BY <2>1, FS_EmptySet DEF Tally
  <2>3. Cardinality(Copies(event')) = 0
    BY <2>1, <2>2
  <2>4. ~ Troubled'
    BY <2>1 DEF Troubled, Busy
  <2>5. QED
    BY <1>c, <2>1, <2>3, <2>4, TallyStays DEF Tally
<1>3. CASE TakeConnection
  <2>1. /\ pc = "start" /\ pc' = "channel"
        /\ UNCHANGED <<inCtx, event, attempt, wire, stored, outcome, faults>>
        /\ event \in Events
    BY <1>0, <1>3 DEF TakeConnection, Attached, wireVars, historyVars
  <2>2. ~ Troubled'
    BY <1>0, <1>3, <2>1 DEF TakeConnection, SetLink, Troubled, Unchanneled, TypeOK
  <2>3. QED
    BY <1>c, <2>1, <2>2, TallyStays DEF Tally
<1>4. CASE ConnectFails
  <2>1. /\ pc = "start" /\ pc' = "sleep" /\ faults' = faults + 1
        /\ UNCHANGED <<event, attempt, wire, stored, outcome>> /\ event \in Events
    BY <1>0, <1>4 DEF ConnectFails, AttemptFails, Fault, Attached, wireVars
  <2>2. QED
    BY <1>b, <1>c, <2>1, TallyStays DEF Tally
<1>5. CASE OpenChannel
  <2>1. /\ pc = "channel" /\ pc' = "send" /\ own \in Connections
        /\ UNCHANGED <<event, attempt, wire, stored, outcome, faults>> /\ event \in Events
        /\ link' = [link EXCEPT ![own] = "open"] /\ own' = own
    BY <1>0, <1>5 DEF OpenChannel, SetLink, Attached, Busy, wireVars, historyVars
  <2>2. ~ Troubled'
    BY <1>0, <2>1 DEF Troubled, Unchanneled, TypeOK
  <2>3. QED
    BY <1>c, <2>1, <2>2, TallyStays DEF Tally
<1>6. CASE ChannelFails
  <2>1. /\ pc = "channel" /\ pc' = "sleep" /\ event \in Events
        /\ UNCHANGED <<event, attempt, wire, stored, outcome, faults>>
    BY <1>0, <1>6 DEF ChannelFails, AttemptFails, Attached, wireVars, historyVars
  <2>2. QED
    BY <1>b, <1>c, <2>1, TallyStays DEF Tally
<1>7. CASE Send
  BY <1>7, TallySend
<1>8. CASE KeepOpen \/ CloseOwn
  <2>1. /\ pc' = "idle" /\ event' = Nothing /\ outcome' = [outcome EXCEPT ![event] = "returned"]
        /\ UNCHANGED <<wire, stored, faults>> /\ event \in Events
    BY <1>0, <1>8 DEF KeepOpen, CloseOwn, CallEnds, Attached, wireVars, historyVars
  <2>2. \A e \in Events : outcome'[e] = "none" => outcome[e] = "none" /\ e # event
    BY <1>0, <2>1 DEF TypeOK
  <2>3. ~ Troubled'
    BY <2>1 DEF Troubled, Busy
  <2>4. QED
    BY <1>c, <2>1, <2>2, <2>3, TallyStays DEF Tally
<1>9. CASE CloseRaises
  <2>1. /\ pc = "finally" /\ pc' = "sleep" /\ event \in Events
        /\ UNCHANGED <<event, attempt, wire, stored, outcome, faults>>
    BY <1>0, <1>9 DEF CloseRaises, AttemptFails, Attached, wireVars, historyVars
  <2>2. Troubled
    BY <1>9 DEF CloseRaises, Troubled, Unchanneled, Busy
  <2>3. QED
    BY <1>b, <1>c, <2>1, <2>2, TallyStays DEF Tally
<1>10. CASE Wake
  <2>1. /\ pc = "sleep" /\ UNCHANGED <<wire, stored, faults>> /\ event \in Events
    BY <1>0, <1>10 DEF Wake, Attached, wireVars, historyVars
  <2>2. CASE Again(attempt + 1)
    <3>1. pc' = "start" /\ attempt' = attempt + 1 /\ UNCHANGED <<event, outcome>>
      BY <2>2 DEF Again
    <3>2. QED
      BY <1>b, <1>c, <2>1, <3>1, TallyStays DEF Tally, Troubled, Busy
  <2>3. CASE CallEnds("raised")
    <3>1. pc' = "idle" /\ event' = Nothing /\ outcome' = [outcome EXCEPT ![event] = "raised"]
      BY <2>3 DEF CallEnds
    <3>2. \A e \in Events : outcome'[e] = "none" => outcome[e] = "none" /\ e # event
      BY <1>0, <2>1, <3>1 DEF TypeOK
    <3>3. QED
      BY <1>c, <2>1, <3>1, <3>2, TallyStays DEF Tally, Troubled, Busy
  <2>4. QED
    BY <1>10, <2>2, <2>3 DEF Wake
<1>11. ASSUME NEW f \in wire, Route(f)
       PROVE  Tally'
  <2>1. /\ UNCHANGED <<link, channels, inCtx, pc, event, attempt, own, outcome, faults>>
        /\ wire' = wire \ {f} /\ stored' = stored \cup {f}
    BY <1>11 DEF Route, linkVars, callVars, historyVars
  <2>2. IsFiniteSet(stored') /\ wire' \cup stored' \subseteq wire \cup stored
    BY <2>1, FS_AddElement DEF Tally
  <2>3. Troubled' <=> Troubled
    BY <2>1 DEF Troubled, Unchanneled, Busy
  <2>4. QED
    BY <1>c, <2>1, <2>2, <2>3, TallyStays DEF Tally
<1>12. ASSUME NEW f \in wire, CloseChannel(f)
       PROVE  Tally'
  <2>1. /\ UNCHANGED <<link, inCtx, pc, event, attempt, own, outcome, stored>>
        /\ wire' \subseteq wire /\ faults' = faults + 1
    BY <1>12 DEF CloseChannel, callVars, Fault
  <2>2. pc # "idle" => event \in Events
    BY <1>0 DEF Attached
  <2>3. Troubled' => pc # "idle"
    BY <2>1 DEF Troubled, Busy
  <2>4. pc # "idle" => Cardinality(Copies(event)) <= 1 + faults
    BY <2>2 DEF Tally
  <2>5. QED
    BY <1>b, <1>c, <2>1, <2>2, <2>3, <2>4, TallyStays DEF Tally
<1>13. ASSUME NEW k \in Connections, Lose(k)
       PROVE  Tally'
  <2>1. /\ UNCHANGED <<inCtx, pc, event, attempt, own, outcome, stored>>
        /\ wire' \subseteq wire /\ faults' = faults + 1
    BY <1>13 DEF Lose, callVars, Fault
  <2>2. pc # "idle" => event \in Events
    BY <1>0 DEF Attached
  <2>3. Troubled' => pc # "idle"
    BY <2>1 DEF Troubled, Busy
  <2>4. pc # "idle" => Cardinality(Copies(event)) <= 1 + faults
    BY <2>2 DEF Tally
  <2>5. QED
    BY <1>b, <1>c, <2>1, <2>2, <2>3, <2>4, TallyStays DEF Tally
<1>14. QED
  BY <1>1, <1>2, <1>3, <1>4, <1>5, <1>6, <1>7, <1>8, <1>9, <1>10, <1>11, <1>12, <1>13
     DEF Next, PublishStep

-----------------------------------------------------------------------------
(* What calls leave behind, and what they report. *)

\* Each connection nobody will close any more was paid for by a fault, and so is
\* the one that publish is about to leave behind because its channel is closed.
Paid ==
  /\ IsFiniteSet(Forgotten)
  /\ Cardinality(Forgotten) <= faults
  /\ Unchanneled => Cardinality(Forgotten) < faults

\* The faults a call may lay its failure on: outside of a context one for each
\* attempt that is over, or as good as over.
Blame ==
  /\ ~inCtx /\ pc # "idle" => since >= attempt - 1
  /\ ~inCtx /\ (pc = "sleep" \/ Troubled) => since >= attempt
  /\ inCtx /\ pc = "sleep" => since > 0 \/ link[ctx] # "open" \/ channels[ctx] = ChannelMax

\* An event that could be sent and that no fault took is on its way when publish
\* has only to return.
Reported ==
  /\ pc = "finally" /\ event \notin Unencodable \cup hit => Copies(event) # {}
  /\ ReportedIsSent

IInv == Shape /\ Tally /\ Paid /\ Blame /\ Reported

LEMMA BlameNext ==
  ASSUME Shape, Blame, Next
  PROVE  Blame'
<1>0. TypeOK /\ Attached /\ Room
  BY DEF Shape
<1>a. attempt \in Nat /\ since \in Nat /\ (pc # "idle" => attempt >= 1)
  BY <1>0 DEF TypeOK, Attached
<1>1. CASE Enter \/ Exit
  BY <1>1 DEF Enter, Exit, callVars, Blame, Troubled, Busy
<1>2. ASSUME NEW e \in Events, Call(e)
      PROVE  Blame'
  BY <1>2 DEF Call, linkVars, Blame, Troubled, Busy
<1>3. CASE TakeConnection
  BY <1>0, <1>3, <1>a
     DEF TakeConnection, SetLink, historyVars, Blame, Troubled, Unchanneled, Busy, TypeOK
<1>4. CASE ConnectFails
  BY <1>4, <1>a DEF ConnectFails, Fault, AttemptFails, linkVars, Blame, Troubled, Busy
<1>5. CASE OpenChannel
  BY <1>0, <1>5, <1>a
     DEF OpenChannel, SetLink, historyVars, Blame, Troubled, Unchanneled, Busy, TypeOK, Attached
<1>6. CASE ChannelFails
  <2>1. /\ pc = "channel" /\ pc' = "sleep" /\ own \in Connections
        /\ UNCHANGED <<inCtx, ctx, attempt, since>>
    BY <1>0, <1>6 DEF ChannelFails, AttemptFails, Attached, Busy, historyVars
  <2>2. CASE inCtx
    <3>1. own = ctx
      BY <1>0, <2>1, <2>2 DEF Attached, Busy
    <3>2. link'[ctx] # "open" \/ channels'[ctx] = ChannelMax
      BY <1>0, <1>6, <2>1, <3>1 DEF ChannelFails, SetLink, Noticed, TypeOK
    <3>3. QED
      BY <2>1, <2>2, <3>2 DEF Blame
  <2>3. CASE ~inCtx
    <3>1. channels[own] = 0 /\ link[own] # "shut"
      BY <1>0, <2>1, <2>3 DEF Attached, Busy
    <3>2. link[own] = "broken"
      BY <1>6, <3>1 DEF ChannelFails
    <3>3. since >= attempt
      BY <2>1, <2>3, <3>2 DEF Blame, Troubled, Busy
    <3>4. QED
      BY <1>a, <2>1, <2>3, <3>3 DEF Blame
  <2>4. QED
    BY <2>2, <2>3
<1>7. CASE Send
  <2>1. /\ pc = "send" /\ pc' = "finally" /\ own \in Connections /\ own' = own
        /\ UNCHANGED <<inCtx, attempt, since>>
    BY <1>0, <1>7 DEF Send, Attached, Busy
  <2>2. link[own] = "open" => channels[own] # 0
    <3>1. Cardinality(On(own)) \in Nat /\ channels[own] \in Nat
      BY <1>0, <2>1, OnFinite DEF TypeOK
    <3>2. link[own] = "open" => Cardinality(On(own)) < channels[own]
      BY <1>0, <2>1 DEF Room
    <3>3. QED
      BY <3>1, <3>2
  <2>3. ~inCtx /\ Troubled' => link[own] = "broken"
    <3>1. CASE UNCHANGED <<link, channels>>
      BY <2>1, <2>2, <3>1 DEF Troubled, Unchanneled
    <3>2. CASE link[own] = "broken"
      BY <3>2
    <3>3. QED
      BY <1>7, <3>1, <3>2 DEF Send
  <2>4. QED
    BY <1>a, <2>1, <2>3 DEF Blame, Troubled, Busy
<1>8. CASE KeepOpen \/ CloseOwn
  BY <1>8 DEF KeepOpen, CloseOwn, CallEnds, Blame, Troubled, Busy
<1>9. CASE CloseRaises
  <2>1. Troubled
    BY <1>9 DEF CloseRaises, Troubled, Unchanneled, Busy
  <2>2. QED
    BY <1>9, <1>a, <2>1 DEF CloseRaises, AttemptFails, historyVars, Blame
<1>10. CASE Wake
  BY <1>10, <1>a DEF Wake, Again, CallEnds, linkVars, historyVars, Blame, Troubled, Busy
<1>11. ASSUME NEW f \in wire, Route(f)
       PROVE  Blame'
  BY <1>11 DEF Route, linkVars, callVars, historyVars, Blame, Troubled, Unchanneled, Busy
<1>12. ASSUME NEW f \in wire, CloseChannel(f)
       PROVE  Blame'
  <2>1. UNCHANGED <<inCtx, pc, attempt>> /\ since' = since + 1
    BY <1>12 DEF CloseChannel, Fault, callVars
  <2>2. Troubled' => pc # "idle"
    BY <2>1 DEF Troubled, Busy
  <2>3. QED
    BY <1>a, <2>1, <2>2 DEF Blame
<1>13. ASSUME NEW k \in Connections, Lose(k)
       PROVE  Blame'
  <2>1. UNCHANGED <<inCtx, pc, attempt>> /\ since' = since + 1
    BY <1>13 DEF Lose, Fault, callVars
  <2>2. Troubled' => pc # "idle"
    BY <2>1 DEF Troubled, Busy
  <2>3. QED
    BY <1>a, <2>1, <2>2 DEF Blame
<1>14. QED
  BY <1>1, <1>2, <1>3, <1>4, <1>5, <1>6, <1>7, <1>8, <1>9, <1>10, <1>11, <1>12, <1>13
     DEF Next, PublishStep

LEMMA ReportedNext ==
  ASSUME Shape, Reported, Next
  PROVE  Reported'
<1>0. TypeOK /\ Attached
  BY DEF Shape
<1>1. CASE Enter \/ Exit \/ \E e \in Events : Call(e)
  BY <1>0, <1>1
     DEF Enter, Exit, Call, callVars, wireVars, linkVars, historyVars, Reported, ReportedIsSent, Copies, Attached
<1>2. CASE TakeConnection \/ ConnectFails \/ OpenChannel \/ ChannelFails \/ CloseRaises
  BY <1>2
     DEF TakeConnection, ConnectFails, OpenChannel, ChannelFails, CloseRaises, AttemptFails, Fault,
         wireVars, historyVars, Reported, ReportedIsSent, Copies
<1>3. CASE Send
  <2>1. /\ pc' = "finally" /\ UNCHANGED <<event, stored, outcome>>
        /\ wire \subseteq wire' /\ hit \subseteq hit'
    BY <1>3 DEF Send
  <2>2. ASSUME event \notin Unencodable \cup hit'
        PROVE  Copies(event)' # {}
    <3>1. [event |-> event, try |-> attempt, on |-> own] \in wire'
      BY <1>3, <2>2 DEF Send
    <3>2. QED
      BY <2>1, <3>1 DEF Copies
  <2>3. \A e \in Events : Copies(e) \subseteq Copies(e)'
    BY <2>1 DEF Copies
  <2>4. ReportedIsSent'
    BY <2>1, <2>3 DEF Reported, ReportedIsSent
  <2>5. QED
    BY <2>1, <2>2, <2>4 DEF Reported
<1>4. CASE KeepOpen \/ CloseOwn
  <2>1. /\ pc = "finally" /\ pc' = "idle" /\ UNCHANGED <<wire, stored, hit>>
        /\ outcome' = [outcome EXCEPT ![event] = "returned"] /\ event \in Events
    BY <1>0, <1>4 DEF KeepOpen, CloseOwn, CallEnds, wireVars, historyVars, Attached
  <2>2. \A e : Copies(e)' = Copies(e)
    BY <2>1 DEF Copies
  <2>3. QED
    BY <1>0, <2>1, <2>2 DEF Reported, ReportedIsSent, TypeOK
<1>5. CASE Wake
  <2>1. /\ pc' # "finally" /\ UNCHANGED <<wire, stored, hit>> /\ event \in Events
        /\ outcome' = outcome \/ outcome' = [outcome EXCEPT ![event] = "raised"]
    BY <1>0, <1>5 DEF Wake, Again, CallEnds, wireVars, historyVars, Attached
  <2>2. \A e : Copies(e)' = Copies(e)
    BY <2>1 DEF Copies
  <2>3. QED
    BY <1>0, <2>1, <2>2 DEF Reported, ReportedIsSent, TypeOK
<1>6. ASSUME NEW f \in wire, Route(f)
      PROVE  Reported'
  <2>1. \A e : Copies(e)' = Copies(e)
    BY <1>6 DEF Route, Copies
  <2>2. UNCHANGED <<pc, event, outcome, hit>>
    BY <1>6 DEF Route, callVars, historyVars
  <2>3. Copies(event)' = Copies(event)
    BY <1>6 DEF Route, Copies, callVars
  <2>4. QED
    BY <2>1, <2>2, <2>3 DEF Reported, ReportedIsSent
<1>7. ASSUME wire' \subseteq wire, UNCHANGED <<stored, pc, event, outcome>>, hit \subseteq hit',
             \A f \in wire \ wire' : f.event \in hit'
      PROVE  Reported'
  <2>1. \A e : e \notin hit' => Copies(e)' = Copies(e)
    BY <1>7 DEF Copies
  <2>2. event \notin hit' => Copies(event)' = Copies(event)
    BY <1>7 DEF Copies
  <2>3. QED
    BY <1>7, <2>1, <2>2 DEF Reported, ReportedIsSent
<1>8. ASSUME NEW f \in wire, CloseChannel(f)
      PROVE  Reported'
  BY <1>7, <1>8 DEF CloseChannel, callVars
<1>9. ASSUME NEW k \in Connections, Lose(k)
      PROVE  Reported'
  BY <1>7, <1>9 DEF Lose, callVars
<1>10. QED
  BY <1>1, <1>2, <1>3, <1>4, <1>5, <1>6, <1>8, <1>9 DEF Next, PublishStep

LEMMA ForgottenShrinks ==
  ASSUME Paid, TypeOK, Forgotten' \subseteq Forgotten
  PROVE  /\ IsFiniteSet(Forgotten')
         /\ Cardinality(Forgotten') <= Cardinality(Forgotten)
         /\ Cardinality(Forgotten') \in Nat /\ Cardinality(Forgotten) \in Nat
         /\ faults \in Nat
<1>1. Forgotten' \in SUBSET Forgotten
  OBVIOUS
<1>2. QED
  BY <1>1, FS_Subset, FS_CardinalityType DEF Paid, TypeOK

\* A step that abandons no connection, nor the channel of the attempt's own.
LEMMA PaidStays ==
  ASSUME Shape, Paid, Forgotten' \subseteq Forgotten, faults' = faults, Unchanneled' => Unchanneled
  PROVE  Paid'
BY ForgottenShrinks DEF Paid, Shape

\* A fault pays for whatever it does to the connections.
LEMMA PaidFault ==
  ASSUME Shape, Paid, Forgotten' \subseteq Forgotten, faults' = faults + 1
  PROVE  Paid'
BY ForgottenShrinks DEF Paid, Shape

LEMMA PaidNext ==
  ASSUME Shape, Paid, Next
  PROVE  Paid'
<1>0. TypeOK /\ Attached /\ Room
  BY DEF Shape
<1>1. CASE Enter
  <2>1. Forgotten' \subseteq Forgotten
    BY <1>0, <1>1 DEF Enter, callVars, Forgotten, TypeOK
  <2>2. QED
    BY <1>1, <2>1, PaidStays DEF Enter, callVars, historyVars, Unchanneled
<1>2. CASE Exit
  <2>1. ctx \in Connections /\ own = Nothing /\ own' = own /\ pc' # "finally" /\ faults' = faults
    BY <1>0, <1>2 DEF Exit, Attached, TypeOK, Busy, callVars, historyVars
  <2>2. \/ SetLink(ctx, "none", 0)
        \/ SetLink(ctx, "shut", 0) /\ ctx' = ctx
    BY <1>2 DEF Exit
  <2>3. Forgotten' \subseteq Forgotten
    BY <1>0, <2>1, <2>2, SetLinkType DEF Forgotten
  <2>4. QED
    BY <2>1, <2>3, PaidStays DEF Unchanneled
<1>3. ASSUME NEW e \in Events, Call(e)
      PROVE  Paid'
  <2>1. own = Nothing /\ own' = own /\ UNCHANGED <<link, ctx, faults>> /\ pc' = "start"
    BY <1>0, <1>3 DEF Call, Attached, Busy, linkVars
  <2>2. QED
    BY <2>1, PaidStays DEF Forgotten, Unchanneled
<1>4. CASE TakeConnection
  <2>1. own = Nothing /\ UNCHANGED <<ctx, faults>> /\ pc' = "channel"
    BY <1>0, <1>4 DEF TakeConnection, Attached, Busy, historyVars
  <2>2. Forgotten' \subseteq Forgotten
    BY <1>0, <1>4, <2>1 DEF TakeConnection, SetLink, Forgotten, TypeOK
  <2>3. QED
    BY <2>1, <2>2, PaidStays DEF Unchanneled
<1>5. CASE ConnectFails
  <2>1. own = Nothing /\ own' = own /\ UNCHANGED <<link, ctx>> /\ faults' = faults + 1
    BY <1>0, <1>5 DEF ConnectFails, Fault, AttemptFails, Attached, Busy, linkVars
  <2>2. QED
    BY <2>1, PaidFault DEF Forgotten
<1>6. CASE OpenChannel
  <2>1. /\ own \in Connections /\ own' = own /\ UNCHANGED <<ctx, faults>> /\ pc' = "send"
        /\ \A k \in Connections : k # own => link'[k] = link[k]
    BY <1>0, <1>6 DEF OpenChannel, SetLink, Attached, Busy, historyVars, TypeOK
  <2>2. QED
    BY <2>1, PaidStays DEF Forgotten, Unchanneled
<1>7. CASE ChannelFails
  <2>1. /\ pc = "channel" /\ pc' = "sleep" /\ own \in Connections /\ own' = Nothing
        /\ UNCHANGED <<inCtx, ctx, faults>> /\ (inCtx => own = ctx)
    BY <1>0, <1>7 DEF ChannelFails, AttemptFails, Attached, Busy, historyVars
  <2>2. CASE UNCHANGED <<link, channels>> /\ channels[own] = ChannelMax
    <3>1. inCtx
      BY <1>0, <2>1, <2>2 DEF Attached
    <3>2. QED
      BY <2>1, <2>2, <3>1, PaidStays DEF Forgotten, Unchanneled
  <2>3. CASE SetLink(own, Noticed(own), 0)
    <3>1. Noticed(own) \in {"none", "shut"} /\ (own # ctx => Noticed(own) = "none")
      BY DEF Noticed
    <3>2. /\ link'[own] = Noticed(own)
          /\ \A k \in Connections : k # own => link'[k] = link[k]
      BY <1>0, <2>1, <2>3, <3>1, SetLinkType
    <3>3. Forgotten' \subseteq Forgotten
      BY <2>1, <3>1, <3>2 DEF Forgotten
    <3>4. QED
      BY <2>1, <3>3, PaidStays DEF Unchanneled
  <2>4. QED
    BY <1>7, <2>2, <2>3 DEF ChannelFails
<1>8. CASE Send
  <2>1. /\ pc = "send" /\ own \in Connections /\ own' = own /\ UNCHANGED <<inCtx, ctx, faults>>
    BY <1>0, <1>8 DEF Send, Attached, Busy
  <2>2. link[own] = "open" => channels[own] # 0
    <3>1. Cardinality(On(own)) \in Nat /\ channels[own] \in Nat
      BY <1>0, <2>1, OnFinite DEF TypeOK
    <3>2. link[own] = "open" => Cardinality(On(own)) < channels[own]
      BY <1>0, <2>1 DEF Room
    <3>3. QED
      BY <3>1, <3>2
  <2>3. CASE UNCHANGED <<link, channels>>
    BY <2>1, <2>2, <2>3, PaidStays DEF Forgotten, Unchanneled
  <2>4. CASE SetLink(own, Noticed(own), 0)
    <3>1. Noticed(own) \in {"none", "shut"}
      BY DEF Noticed
    <3>2. /\ link'[own] = Noticed(own)
          /\ \A k \in Connections : k # own => link'[k] = link[k]
      BY <1>0, <2>1, <2>4, <3>1, SetLinkType
    <3>3. QED
      BY <2>1, <3>1, <3>2, PaidStays DEF Forgotten, Unchanneled
  <2>5. QED
    BY <1>8, <2>3, <2>4 DEF Send
<1>9. CASE KeepOpen
  <2>1. /\ own = ctx /\ own' = Nothing /\ pc' = "idle" /\ UNCHANGED <<link, ctx, faults>>
    BY <1>0, <1>9 DEF KeepOpen, CallEnds, Attached, Busy, linkVars, historyVars
  <2>2. QED
    BY <2>1, PaidStays DEF Forgotten, Unchanneled
<1>10. CASE CloseOwn
  <2>1. /\ own \in Connections /\ own' = Nothing /\ pc' = "idle" /\ UNCHANGED <<ctx, faults>>
        /\ SetLink(own, "none", 0)
    BY <1>0, <1>10 DEF CloseOwn, CallEnds, Attached, Busy, historyVars
  <2>2. link'[own] = "none" /\ \A k \in Connections : k # own => link'[k] = link[k]
    BY <1>0, <2>1, SetLinkType
  <2>3. QED
    BY <2>1, <2>2, PaidStays DEF Forgotten, Unchanneled
<1>11. CASE CloseRaises
  <2>1. /\ pc = "finally" /\ own \in Connections /\ own' = Nothing /\ pc' = "sleep"
        /\ ~inCtx /\ UNCHANGED <<ctx, faults>>
    BY <1>0, <1>11 DEF CloseRaises, AttemptFails, Attached, Busy, historyVars
  <2>2. CASE SetLink(own, "none", 0)
    <3>1. link'[own] = "none" /\ \A k \in Connections : k # own => link'[k] = link[k]
      BY <1>0, <2>1, <2>2, SetLinkType
    <3>2. QED
      BY <2>1, <3>1, PaidStays DEF Forgotten, Unchanneled
  <2>3. CASE link[own] = "open" /\ channels[own] = 0 /\ UNCHANGED <<link, channels>>
    <3>1. Unchanneled
      BY <2>1, <2>3 DEF Unchanneled
    <3>2. IsFiniteSet(Forgotten) /\ Cardinality(Forgotten) \in Nat /\ Cardinality(Forgotten) < faults
      BY <3>1, FS_CardinalityType DEF Paid
    <3>3. Forgotten' \in SUBSET (Forgotten \cup {own})
      BY <2>1, <2>3 DEF Forgotten
    <3>4. /\ IsFiniteSet(Forgotten \cup {own})
          /\ Cardinality(Forgotten \cup {own}) \in {Cardinality(Forgotten), Cardinality(Forgotten) + 1}
      BY <3>2, FS_AddElement
    <3>5. /\ IsFiniteSet(Forgotten') /\ Cardinality(Forgotten') \in Nat
          /\ Cardinality(Forgotten') <= Cardinality(Forgotten \cup {own})
      BY <3>3, <3>4, FS_Subset, FS_CardinalityType
    <3>6. faults \in Nat
      BY <1>0 DEF TypeOK
    <3>7. Cardinality(Forgotten') <= faults'
      BY <2>1, <3>2, <3>4, <3>5, <3>6
    <3>8. QED
      BY <2>1, <3>5, <3>7 DEF Paid, Unchanneled
  <2>4. QED
    BY <1>11, <2>2, <2>3 DEF CloseRaises
<1>12. CASE Wake
  <2>1. own = Nothing /\ own' = own /\ UNCHANGED <<link, ctx, faults>> /\ pc' # "finally"
    BY <1>0, <1>12 DEF Wake, Again, CallEnds, Attached, Busy, linkVars, historyVars
  <2>2. QED
    BY <2>1, PaidStays DEF Forgotten, Unchanneled
<1>13. ASSUME NEW f \in wire, Route(f)
       PROVE  Paid'
  BY <1>13, PaidStays DEF Route, linkVars, callVars, historyVars, Forgotten, Unchanneled
<1>14. ASSUME NEW f \in wire, CloseChannel(f)
       PROVE  Paid'
  BY <1>14, PaidFault DEF CloseChannel, Fault, callVars, Forgotten
<1>15. ASSUME NEW k \in Connections, Lose(k)
       PROVE  Paid'
  <2>1. UNCHANGED <<own, ctx>> /\ faults' = faults + 1
    BY <1>15 DEF Lose, Fault, callVars
  <2>2. /\ link'[k] = (IF k \in {own, ctx} THEN "broken" ELSE "none")
        /\ \A c \in Connections : c # k => link'[c] = link[c]
    BY <1>0, <1>15 DEF Lose, SetLink, TypeOK
  <2>3. QED
    BY <2>1, <2>2, PaidFault DEF Forgotten
<1>16. QED
  BY <1>1, <1>2, <1>3, <1>4, <1>5, <1>6, <1>7, <1>8, <1>9, <1>10, <1>11, <1>12, <1>13,
     <1>14, <1>15 DEF Next, PublishStep

-----------------------------------------------------------------------------
(* The theorems. *)

LEMMA InvInit == Init => IInv
<1>1. SUFFICES ASSUME Init PROVE IInv
  OBVIOUS
<1>2. Shape /\ Tally
  BY <1>1, InitShape, InitTally
<1>3. Forgotten = {} /\ IsFiniteSet({}) /\ Cardinality({}) = 0
  <2>1. Forgotten = {}
    BY <1>1 DEF Init, Forgotten
  <2>2. QED
    BY <2>1, FS_EmptySet
<1>4. pc = "idle" /\ faults = 0 /\ \A e \in Events : outcome[e] = "none"
  BY <1>1 DEF Init
<1>5. Paid
  BY <1>3, <1>4 DEF Paid, Unchanneled
<1>6. Blame /\ Reported
  BY <1>4 DEF Blame, Troubled, Busy, Reported, ReportedIsSent
<1>7. QED
  BY <1>2, <1>5, <1>6 DEF IInv

LEMMA InvNext == IInv /\ [Next]_vars => IInv'
<1>1. ASSUME IInv, UNCHANGED vars PROVE IInv'
  BY <1>1
     DEF IInv, Shape, TypeOK, Attached, Busy, Room, On, Tally, Troubled, Unchanneled, Copies, Paid,
         Forgotten, Blame, Reported, ReportedIsSent, vars, linkVars, callVars, wireVars, historyVars
<1>2. ASSUME IInv, Next PROVE IInv'
  BY <1>2, ShapeNext, TallyNext, PaidNext, BlameNext, ReportedNext DEF IInv
<1>3. QED
  BY <1>1, <1>2

\* The inductive invariant: shape, tally, payment, blame and report.
THEOREM Invariance == Spec => []IInv
BY InvInit, InvNext, PTL DEF Spec

\* publish swallows its exceptions, and yet an event it has returned for was sent,
\* unless it cannot be encoded or a fault took a frame of it: ReportedIsSent.
THEOREM ReturnTellsTheTruth == Spec => []ReportedIsSent
<1>1. IInv => ReportedIsSent
  BY DEF IInv, Reported
<1>2. QED
  BY <1>1, Invariance, PTL

\* Whatever retry repeats, each further copy of an event was paid for by a fault,
\* and there are at most `attempts` copies: CopiesCostFaults.
THEOREM CopiesBounded == Spec => []CopiesCostFaults
<1>1. IInv => CopiesCostFaults
  BY DEF IInv, Tally, CopiesCostFaults
<1>2. QED
  BY <1>1, Invariance, PTL

\* A connection that nobody will close any more has cost a fault: ConnectionsGivenBack.
THEOREM LeaksPaidFor == Spec => []ConnectionsGivenBack
<1>1. IInv => ConnectionsGivenBack
  BY DEF IInv, Paid, ConnectionsGivenBack
<1>2. QED
  BY <1>1, Invariance, PTL

\* publish raises only after as many faults as attempts, or in a context whose one
\* connection has been hit or is full: RaisesForAReason.
THEOREM RaisesExplained == Spec => RaisesForAReason
<1>1. IInv /\ [Next]_vars =>
        [\A e \in Events : outcome[e] = "none" /\ outcome'[e] = "raised" =>
           \/ since >= Attempts
           \/ /\ inCtx
              /\ since > 0 \/ link[ctx] # "open" \/ channels[ctx] = ChannelMax]_vars
  <2>1. SUFFICES ASSUME IInv, Next, NEW e \in Events, outcome[e] = "none", outcome'[e] = "raised"
                 PROVE  \/ since >= Attempts
                        \/ /\ inCtx
                           /\ since > 0 \/ link[ctx] # "open" \/ channels[ctx] = ChannelMax
    OBVIOUS
  <2>2. TypeOK /\ Attached /\ Blame
    BY <2>1 DEF IInv, Shape
  <2>3. CASE Wake
    <3>1. pc = "sleep" /\ attempt = Attempts
      BY <2>1, <2>3 DEF Wake, Again
    <3>2. QED
      BY <2>2, <3>1 DEF Blame
  <2>4. CASE KeepOpen \/ CloseOwn
    BY <2>1, <2>2, <2>4 DEF KeepOpen, CloseOwn, CallEnds, TypeOK
  <2>5. QED
    BY <2>1, <2>3, <2>4
       DEF Next, PublishStep, Enter, Exit, Call, TakeConnection, ConnectFails, OpenChannel,
           ChannelFails, Send, CloseRaises, AttemptFails, Route, CloseChannel, Lose
<1>2. QED
  BY <1>1, Invariance, PTL DEF Spec, RaisesForAReason
=============================================================================
