SPECIFICATION FairSpec
CONSTANTS
  p = p
  q = q
  x = x
  y = y
  f = f
  g = g
  Keys = {x, y}
  Values = {v}
  None = None
  LongKeys = {}
  Procs = {p, q}
  Files = {f, g}
  FileOf <- OneFile
  Blocks = {1, 2}
  WritersOf <- TwoWriters
  Calls = 3
  Crashes = 1
  Faults = 2
INVARIANTS H5Inv
PROPERTIES ImplementsAtomicStore CallsReturn
CHECK_DEADLOCK FALSE
