SPECIFICATION Spec
CONSTANTS
  Keys = {k1}
  Values = {v1, v2}
  None = None
  LongKeys = {}
  Hlcs <- MCHlcs
  Rank <- MCRank
  Nanos <- MCNanos
  Guarded = TRUE
SYMMETRY Symmetric
INVARIANTS TypeOK ClosedFormsAreTheLoops
PROPERTIES CommitMakesReadsDurable BustKeepsPending HardApplyKeepsNewer
