CONSTANTS
  m1 = m1
  m2 = m2
  m3 = m3
  Nothing = Nothing
  Messages = {m1, m2}
  Copies = {c1, c2, c3}
  Consumers = {p1}
  Prefetch = 2
  Durable = TRUE
  Persistent = TRUE
  Kind <- Objects
  Policy = "store"
  RequeueMsg = TRUE
  MaxFaults = 1
SPECIFICATION FairSpec
PROPERTY EventuallyDealtWith
