SPECIFICATION StorageSpec
CONSTANTS
  Dot = 1
  Slash = 2
  Colon = 3
  Misc <- MCMisc
  MaxDimensions = 2
  MaxKeySize = 3
  Contracts <- MCContracts
  Hashes <- MCHashes
  Indices <- MCIndices
  Args <- MCArgs
  CodeName <- MCCodeName
  Text <- MCText
  code = code
  one = one
  two = two
  Keys = {code, one, two}
  Values = {v1}
  None = None
  LongKeys = {}
  Hlcs = {1}
  Rank <- Rank1
  Nanos <- Rank1
  Guarded = FALSE
INVARIANTS StorageInv ListedIsReadable
PROPERTIES CommitCompletesClear ItemsAreApart
