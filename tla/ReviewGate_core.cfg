SPECIFICATION FairSpec
CONSTANTS
  Branches <- MCBranches
  MaxRounds = 3
  Retries = 1
  MaxGates = 2
INVARIANTS
  ReviewSound
  FailClosedNeverGuesses
PROPERTIES
  ImplementsApproval
  AutomatedEnds
