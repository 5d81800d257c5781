SPECIFICATION FairSpec
CONSTANTS
  None = None
  NaN = NaN
  Tickets = {t1}
  Handlers = {h1, h2}
  Requests <- MCRequests
  PositionCounts <- MCPositionCounts
  MaxTicketSize = 5
  MaxOpenPositions = 5
  RequireStopLoss = TRUE
  MaxMishaps = 1
PROPERTIES
  EveryExecutionEnds
  EveryExecutionSettles
CHECK_DEADLOCK FALSE
