SPECIFICATION Spec
CONSTANTS
  None = None
  Submissions = {o1}
  Deals = {d1, d2}
  Closers = {c1}
  Sizes = {1}
  MaxMishaps = 1
  OrderRequests <- MCOrderRequests
  MaxPositionSize = 2
  MaxSpread = 1
  MaxOpenPositions = 1
  AnswerNames = {"dealId", "dealReference"}
SYMMETRY MCSymmetry
INVARIANTS
  SubmittedIsPlaced
  DuplicateOnlyFromRace
PROPERTY ImplementsLedger
CHECK_DEADLOCK FALSE
