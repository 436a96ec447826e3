\* One update to another session while BLock waits for its connection.
SPECIFICATION FairSpec
CONSTANTS
  Sessions = {s1, s2}
  TrackLists = {t1}
  None = None
  MaxUpdates = 1
PROPERTY RemoveEndsBLock
