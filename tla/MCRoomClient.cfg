SPECIFICATION Spec
CONSTANTS
  u1 = u1 s1 = s1 s2 = s2 c1 = c1 c2 = c2
  Pairs <- MCPairs
  Calls = {c1, c2}
  Users <- MCUsers
  Cap = 1
  MaxTimes = 4
  MaxEvents = 2
INVARIANTS ExpiryOnItsWay KnownOrOnItsWay
PROPERTIES SessionServed GoneIsRemoved
