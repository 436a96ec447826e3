\* Three updates besides the first parameter: one in the door or on its way back as
\* a retry, one to be replaced, one that replaces it.  No symmetry, because of the
\* liveness properties.
SPECIFICATION FairSpecRTC
CONSTANTS
  Sessions = {s1, s2}
  TrackLists = {t1}
  None = None
  MaxUpdates = 3
  MaxCandidates = 1
INVARIANTS NewestOnItsWay NothingForgotten JoinFirst
PROPERTIES HandedOver CancelEndsBLock
