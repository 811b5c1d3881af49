SPECIFICATION Spec
CHECK_DEADLOCK FALSE
CONSTANTS
  Bases <- MCBases
  MaxExponent = 2
  Wrap = 512
  MaxSeconds = 200
  MaxDate = 100
  FourDigits = 40
  MaxAttempts = 5
  MaxBatch = 6
  MaxClock = 100
  TextFields <- MCTextFields
  FieldLimit <- MCFieldLimit
  Texts <- MCTexts
  ValueSizes = {4096, 4097}
  MaxFacts = 32
  KeyLimit = 64
  ValueLimit = 4096
  Frame = 256
  BodyLimit = 262144
  FactBound = 64
INVARIANTS
  BackoffBetweenBatches
  ValidFits
