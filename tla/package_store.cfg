CONSTANTS
  ru = ru
  withdrawnKey = withdrawnKey
  lastingKey = lastingKey
  None = None
  NoStore = NoStore
  Absent = Absent
  Blank = Blank
  Packages = {ru}
  Procs = {p1, p2}
  Artifacts <- MCArtifacts
  Checkpoints <- MCCheckpoints
  Offers <- MCOffers
  Releases <- MCReleases
  MaxGeneration = 3
  SyncsDirectory = TRUE
  MaxFailures = 2
SPECIFICATION MCSpec
SYMMETRY Symmetry
INVARIANTS
  TypeOK
  StoreComplete
  RollbackCached
  FreshChangeAccepted
PROPERTIES
  HistoryKept
  HistoryOnlyGrows
  ActivatesPrepared
CHECK_DEADLOCK FALSE
