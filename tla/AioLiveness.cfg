CONSTANTS
  m1 = m1
  m2 = m2
  m3 = m3
  Nothing = Nothing
  Messages = {m1}
  Copies = {c1, c2, c3}
  Consumers = {p1}
  Tasks = {t1, t2}
  Prefetch = 1
  Durable = TRUE
  Persistent = TRUE
  Kind <- OneObject
  Garbage = TRUE
  RequeueMsg = TRUE
  CancelIsFailure = TRUE
  MaxFaults = 2
SPECIFICATION FairSpec
PROPERTIES EventuallyDealtWith TasksEnd
