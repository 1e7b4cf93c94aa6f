CONSTANTS
  Nothing = Nothing
  Tables <- MCTables
  MaxId <- MCMaxId
  Codes = {v1, v2}
  Clients = {c1}
  Atoms <- MCAtoms
  MaxDepth = 3
  Originals <- MCOriginals
  Partials <- MCPartials
  Values <- MCValues
  KeyOrder <- MCKeyOrder
  MaxCompares = 2
  user = user
  usersApi = usersApi
  item = item
  profile = profile
  order = order
  Threads = {p1, p2}
  Serializers <- MCSerializers
  ClassName <- MCClassName
  FieldsOf <- MCFieldsOf
  Nobody = Nobody
  MaxCalls = 2
  Services = {"A", "B"}
  Messages = {m1}
  Absent = Absent
  MaxHops = 4
SPECIFICATION ToolboxSpec
INVARIANT MatchingPasses
CHECK_DEADLOCK FALSE
