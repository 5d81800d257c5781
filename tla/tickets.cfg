SPECIFICATION Spec
CONSTANTS
  None = None
  NaN = NaN
  Tickets = {t1, t2}
  Handlers = {h1, h2}
  Requests <- MCRequests
  PositionCounts <- MCPositionCounts
  MaxTicketSize = 5
  MaxOpenPositions = 5
  RequireStopLoss = TRUE
  MaxMishaps = 1
SYMMETRY MCSymmetry
INVARIANTS
  TypeOK
  ResubmittedOnlyAfterRaceOrCut
  OrdersAudited
  OrdersWithinRules
PROPERTY ImplementsContract
CHECK_DEADLOCK FALSE
