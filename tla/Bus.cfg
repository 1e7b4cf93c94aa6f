CONSTANTS
  Nothing = Nothing
  Events = {e1, e2, e3}
  Unencodable = {e3}
  Connections = {k1, k2, k3}
  Attempts = 2
  ChannelMax = 2
  MaxFaults = 2
  t1 = t1
  t2 = t2
  t3 = t3
  None = None
  Tasks = {t1, t2, t3}
  Rejected = {t3}
  Slots = {s1, s2}
  Links = {l1}
  Tries <- MCTries
  MaxMishaps = 1
  NoConn = NoConn
  Conns = {c1, c2, c3, c4}
  MaxFailures = 2
  MaxRaises = 2
SPECIFICATION BusSpec
INVARIANTS TypesOK ReportedIsSent CopiesCostFaults ConnectionsGivenBack SlotsAccountedFor ReturnedIsStored TeardownClosesAll LeaksCostFailures SubscribedIsSetUp SubscriptionsOwned
PROPERTIES RaisesForAReason EveryCallEnds EveryPublishEnds
