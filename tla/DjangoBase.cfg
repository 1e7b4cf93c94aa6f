CONSTANTS
  m1 = m1
  m2 = m2
  m3 = m3
  Nothing = Nothing
  Messages = {m1, m2, m3}
  Copies = {c1, c2, c3}
  Consumers = {p1, p2}
  Prefetch = 2
  Durable = TRUE
  Persistent = TRUE
  Kind <- Mixed
  Policy = "raise"
  RequeueMsg = TRUE
  MaxFaults = 2
SPECIFICATION Spec
SYMMETRY Symmetric
INVARIANT NothingLost
