SPECIFICATION Spec
CONSTANTS
    Upper = 2
    Lower = 2
    Plain = 1
    ExponentLen = 0
    Tick = 2
    LastDay = 30
    MongoMin <- MCMongoMin
    MongoMax = 3
    Inputs <- MCInputs
    Numbers <- MCNumbers
    Dates <- MCDates
    Spans <- MCSpans
    MinExponent <- MCMinExponent
    MaxExponent = 1
    MaxSpan = 30
    MaxFactor = 10000
    MaxComputed = 3
INVARIANTS ValuesInv DiskIsNoMore NoMoneyIsMade TimesAddUp
