SPECIFICATION Spec
CONSTANTS
  None = None
  Submissions = {o1}
  Deals = {d1}
  Closers = {}
  Sizes = {1}
  MaxMishaps = 0
  OrderRequests <- MCOrderRequests
  MaxPositionSize = 2
  MaxSpread = 1
  MaxOpenPositions = 1
  AnswerNames = {"dealId", "dealReference"}
PROPERTY OnlyOrphansImported
CHECK_DEADLOCK FALSE
