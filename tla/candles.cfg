SPECIFICATION Spec
CONSTANTS
  Frames = 2
  Interval <- MCInterval
  Prices = {0, 100, 102}
  NotQuote = NotQuote
  Threshold = 1
  QueueLimit = 2
  MaxMessages = 4
  Horizon = 2
  MaxMishaps = 1
INVARIANTS
  TypeOK
  NewestKept
  OnlyLateMisplaced
  CountedOnce
  RowsUnique
  BlindOnlyAtZero
  StreamAlternates
CHECK_DEADLOCK FALSE
