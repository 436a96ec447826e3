\* The client of node n1 reconnects: its old stream s1 has broken, s2 is open.
SPECIFICATION Spec
CONSTANTS
  Sigs = {s1, s2}
  Nids = {n1}
  Statuses = {a, b}
  Reports = {}
  RecvCap = 2
  MaxRequests = 2
PROPERTY ExpectedSentWhenReachable
