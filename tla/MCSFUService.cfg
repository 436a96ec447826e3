SPECIFICATION Spec
CONSTANTS
  Streams = {h1, h2}
  Uids = {u1, u2}
  None = None
  Cap = 1
  MaxJoins = 2
INVARIANTS NoGhostClient NoSendOnReturned
PROPERTY SignalReturns
