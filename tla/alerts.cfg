SPECIFICATION Spec
CONSTANTS
  Evaluators = {watch, api}
  MaxRules = 1
  Settings <- MCSettings
  Sources = {"gold"}
  Readings <- MCReadings
  NoValue = NoValue
  NoRow = NoRow
  Unfetched = Unfetched
  ListLimit = 2
  Horizon = 3
  MaxEvents = 4
SYMMETRY Symmetric
INVARIANTS
  TypeOK
  RecoveriesMatched
  CooldownKept
  AlertRemembered
  LateEventsBounded
CHECK_DEADLOCK FALSE
