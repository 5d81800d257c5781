SPECIFICATION FairSpec
CONSTANTS
  Evaluators = {watch, api}
  MaxRules = 2
  Settings <- MCSettings
  Sources = {"gold"}
  Readings <- MCTwoReadings
  NoValue = NoValue
  NoRow = NoRow
  Unfetched = Unfetched
  ListLimit = 2
  Horizon = 0
  MaxEvents = 2
PROPERTIES
  EvaluationEnds
CHECK_DEADLOCK FALSE
