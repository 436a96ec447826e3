\* Two streams that may report the same node, as a client and its reconnection
\* do, and either node; recvCh is full after one message, so every push waits
\* for the routine.  No symmetry, because of the liveness properties.
SPECIFICATION FairSpec
CONSTANTS
  Sigs = {s1, s2}
  Nids = {n1, n2}
  Statuses = {a, b}
  Reports = {r}
  RecvCap = 1
  MaxRequests = 3
INVARIANTS NoSendOnClosedChannel NoGhostNode
PROPERTIES OnlyDeadStreamsUnbound BrokenStreamForgotten SendReturns ReportReachesAlgorithm
