SPECIFICATION FairSpec
CONSTANTS
  Questions <- MCQuestions
  QRounds = 2
  RRounds = 3
  MaxRuns = 2
  Remarks <- MCRemarks
INVARIANTS
  ResearchSound
PROPERTIES
  NamedIsRevised
  StageReturns
\* The stage has returned for the last time.
CHECK_DEADLOCK FALSE
