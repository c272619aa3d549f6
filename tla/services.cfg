SPECIFICATION Spec
CONSTANTS
  None = None
  Failed = Failed
INVARIANTS
  JudgesTheWindowInFront
  KeysKeepTheirMeaning
  EditsAreWholeOrNone
  HooksWatched
  RepeatsAreChosen
PROPERTIES
  PackagesStayCurrent
  CaptureTakesOnlyItsOwn
  BindingsHold
CHECK_DEADLOCK FALSE
