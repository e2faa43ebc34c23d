SPECIFICATION Spec
CONSTANTS
  Names <- MCNames
  Values = {v}
  None = None
  Blocks = {1, 2}
  Asked <- MCAsked
  Lengths = {0, 1, 2}
  Dot = 1
  Slash = 2
  Colon = 3
  Underscore = 4
  Misc <- MCMisc
  LongFiles = {}
INVARIANTS DriversInv PlainReadsAgree ListingsFindTheKeys
