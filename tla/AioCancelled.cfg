CONSTANTS
  m1 = m1
  m2 = m2
  m3 = m3
  Nothing = Nothing
  Messages = {m1, m2}
  Copies = {c1, c2, c3, c4}
  Consumers = {p1}
  Tasks = {t1, t2}
  Prefetch = 2
  Durable = TRUE
  Persistent = TRUE
  Kind <- ObjectOther
  Garbage = FALSE
  RequeueMsg = TRUE
  CancelIsFailure = FALSE
  MaxFaults = 1
SPECIFICATION Spec
INVARIANT RequeuedOnUnexpectedClose
