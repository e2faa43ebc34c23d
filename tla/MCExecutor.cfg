SPECIFICATION ExecutorSpec
CONSTANTS
  alice = alice
  balance = balance
  x = x
  hash = hash
  Keys = {balance, x}
  Values = {0, 1, 2}
  None = None
  LongKeys = {}
  Hlcs = {}
  Rank <- NoTime
  Nanos <- NoTime
  Guarded = TRUE
  Senders = {alice}
  BalanceOf <- MCBalanceOf
  Stamps = {1, 2}
  Modes = {TRUE}
  Metering = {TRUE, FALSE}
  Environment = {hash}
  CuCosts = {3}
  Factor = 4
  MaxStamps = 6
  MaxMemory = 1
  ReadCost = 1
  WriteCost = 2
  WriteMax = 3
  MaxPeak = 3
INVARIANTS ExecutorInv FailedTxReverts StampsAreAccounted NothingIsInherited
PROPERTIES PrivatesNeedABypass
