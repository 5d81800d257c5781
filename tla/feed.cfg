SPECIFICATION FairSpec
CONSTANTS
  Calls = {c1}
  Feed = Feed
  None = None
  MaxMishaps = 1
  Attempts = 2
  Window = 2
  Retention = 1
  OldRows <- MCOldRows
  Horizon = 2
INVARIANTS
  TypeOK
  LoginsNeeded
  OneReceiver
  ConnectedUnlessEnded
  FinalCandlesKept
  StatusFollowsData
PROPERTIES
  RowsStay
  DeadFeedNoticed
  EveryMinuteRecorded
CHECK_DEADLOCK FALSE
