SPECIFICATION ClientSpec
CONSTANTS
  Keys = {k1, k2}
  Values = {v1, v2}
  None = None
  LongKeys = {}
  Hlcs <- TwoHlcs
  Rank <- TwoTime
  Nanos <- TwoNanos
  Time <- TwoTime
  Guarded = TRUE
  Liberties = {}
INVARIANTS LedgerInv
PROPERTIES ImplementsLedger ReadsChangeOnlyBySetOrRollback RollbackRestores
SYMMETRY Symmetric
