SPECIFICATION Spec
CONSTANTS
  Stages = 2
  MayBlock = TRUE
  Elsewhere = TRUE
  MaxTurns = 1
  MaxFailures = 2
  MaxResumes = 1
INVARIANTS
  HistoryHolds
  KeptBranchOnly
PROPERTY
  KeptPickedUp
\* The run is over.
CHECK_DEADLOCK FALSE
