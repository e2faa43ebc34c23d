SPECIFICATION Spec
CONSTANTS
  a = a
  b = b
  a1 = a1
  a2 = a2
  b1 = b1
  Nodes = {a, b}
  Threads = {a1, a2, b1}
  NodeOf <- MCNodeOf
  Mergers = {a1}
  Senders = {b1}
  NoOwner = NoOwner
  MaxMillis = 2
  MaxLogical = 2
  Milli = 3
  Second = 4
  Slack = 1
  Walls = {0, 2, 4, 6}
  MaxSent = 1
INVARIANTS HLCInv
PROPERTIES ImplementsStampClock MergedIsLater
