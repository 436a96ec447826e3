\* One session that comes and goes, one forward and one proceed track that appear,
\* change and disappear; two statuses arrive while events are pending.
SPECIFICATION FairSpec
CONSTANTS
  Sessions = {c}
  ForwardKeys = {f}
  ProceedKeys = {p}
  Infos = {i, j}
  c = c
  f = f
  p = p
  i = i
  j = j
  Statuses <- MCStatuses
  None = None
  MaxEvents = 2
  MaxExpected = 2
INVARIANTS RoutersFollow ClientsReported OneLiveSend LatestReceived UpdateIsDifference
PROPERTIES SentUnlessCancelled
