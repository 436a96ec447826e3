\* Two statuses are due, one after the other: each is sent by its own goroutine.
SPECIFICATION Spec
CONSTANTS
  Sessions = {c}
  ForwardKeys = {f}
  ProceedKeys = {p}
  Infos = {i, j}
  c = c
  f = f
  p = p
  i = i
  j = j
  Statuses <- MCStatuses
  None = None
  MaxEvents = 1
  MaxExpected = 0
INVARIANT LatestSentLast
