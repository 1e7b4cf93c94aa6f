CONSTANTS
  m1 = m1
  m2 = m2
  m3 = m3
  Nothing = Nothing
  Messages = {m1, m2}
  Copies = {c1, c2, c3, c4}
  Consumers = {p1}
  Tasks = {t1, t2}
  Prefetch = 2
  Durable = TRUE
  Persistent = TRUE
  Kind <- ObjectOther
  Garbage = TRUE
  RequeueMsg = TRUE
  CancelIsFailure = TRUE
  MaxFaults = 2
SPECIFICATION Spec
SYMMETRY Symmetric
INVARIANTS TypeOK NothingLost EveryDeliveryOwned OneCopy
PROPERTY AtLeastOnceDelivery
