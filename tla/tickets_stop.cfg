SPECIFICATION Spec
CONSTANTS
  None = None
  NaN = NaN
  Tickets = {t1}
  Handlers = {h1, h2}
  Requests <- MCRequestsByLevel
  PositionCounts <- MCPositionCounts
  MaxTicketSize = 5
  MaxOpenPositions = 5
  RequireStopLoss = TRUE
  MaxMishaps = 0
INVARIANT OrdersCarryStop
CHECK_DEADLOCK FALSE
