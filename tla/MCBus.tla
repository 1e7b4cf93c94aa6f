------------------------------- MODULE MCBus -------------------------------
(* The clients of the message bus in one instance: a program is the blocking *)
(* producer, the asyncio producer, or a consumer.                            *)
EXTENDS DjangoProducer, AioProducer, Sessions, TLC

CONSTANTS t1, t2, t3

MCTries == t1 :> 2 @@ t2 :> 1 @@ t3 :> 1

VARIABLE client

allVars == <<vars, poolVars, sessionVars, client>>

BusInit ==
  /\ client \in {"blocking producer", "asyncio producer", "consumer"}
  /\ Init /\ PoolInit
  /\ SessionInit
  /\ client # "consumer" => class = "base" /\ topology = {}

BusNext ==
  \/ client = "blocking producer" /\ Next /\ UNCHANGED <<poolVars, sessionVars, client>>
  \/ client = "asyncio producer" /\ PoolNext /\ UNCHANGED <<vars, sessionVars, client>>
  \/ client = "consumer" /\ SessionNext /\ UNCHANGED <<vars, poolVars, client>>

\* What a program is not is at rest in it, and its fair actions are disabled.
BusFairness == Fairness /\ PoolFairness

\* The variables of all the clients have their types: attempts, channels and faults
\* stay within their bounds, and no table names what is not there.
TypesOK == TypeOK /\ PoolTypeOK /\ SessionTypeOK

BusSpec == BusInit /\ [][BusNext]_allVars /\ BusFairness
=============================================================================
