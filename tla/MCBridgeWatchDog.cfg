SPECIFICATION Spec
CONSTANTS
  s1 = s1 s2 = s2 d = d None = None
  SIDs = {s1, s2}
  Tracks <- MCTracks
  MaxUpdates = 2
  MaxDoors = 3
  MaxFaults = 1
INVARIANTS EntrancesOfThisDoor OneExit
PROPERTIES ComesInForce LeaveEndsAll
