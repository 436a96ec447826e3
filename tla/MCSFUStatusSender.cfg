\* Two nids on one stream and three statuses: an old, a waiting and a new one.
SPECIFICATION StuckSpec
CONSTANTS
  Nids = {n1, n2}
  Statuses = {a, b, c}
  None = None
INVARIANT LatestSurvives
PROPERTIES ImplementsMailbox ComesBack LatestIsSent
