SPECIFICATION Spec
CONSTANTS
  None = None
  Submissions = {o1, o2}
  Deals = {d1, d2}
  Closers = {}
  Sizes = {1}
  MaxMishaps = 0
  OrderRequests <- MCOrderRequests
  MaxPositionSize = 2
  MaxSpread = 1
  MaxOpenPositions = 1
  AnswerNames = {"dealId", "dealReference"}
INVARIANT PositionLimitKept
CHECK_DEADLOCK FALSE
