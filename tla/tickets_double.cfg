SPECIFICATION Spec
CONSTANTS
  None = None
  NaN = NaN
  Tickets = {t1}
  Handlers = {h1, h2}
  Requests <- MCRequests
  PositionCounts <- MCPositionCounts
  MaxTicketSize = 5
  MaxOpenPositions = 5
  RequireStopLoss = TRUE
  MaxMishaps = 0
PROPERTY SentOnlyWhileApproved
CHECK_DEADLOCK FALSE
