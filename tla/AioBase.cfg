CONSTANTS
  m1 = m1
  m2 = m2
  m3 = m3
  Nothing = Nothing
  Messages = {m1, m2, m3}
  Copies = {c1, c2, c3}
  Consumers = {p1, p2}
  Tasks = {t1, t2, t3}
  Prefetch = 1
  Durable = TRUE
  Persistent = FALSE
  Kind <- Mixed
  Garbage = FALSE
  RequeueMsg = TRUE
  CancelIsFailure = FALSE
  MaxFaults = 2
SPECIFICATION Spec
SYMMETRY Symmetric
INVARIANTS NothingLost Backpressure
