SPECIFICATION FairSpec
CONSTANTS
  None = None
  Submissions = {}
  Deals = {d1}
  Closers = {c1, c2}
  Sizes = {1, 2}
  MaxMishaps = 2
  OrderRequests <- MCOrderRequests
  MaxPositionSize = 2
  MaxSpread = 1
  MaxOpenPositions = 1
  AnswerNames = {"dealId", "dealReference"}
INVARIANTS
  TypeOK
  ClosedIsGone
  RunsSettled
  SnapshotMirrored
PROPERTIES
  ImplementsLedger
  PositionsImported
  ClosuresNoticed
  OrdersRecorded
CHECK_DEADLOCK FALSE
