SPECIFICATION FairSpec
CONSTANTS
  Reviewers <- MCReviewers
  ReviewDepth = "thorough"
  Files <- MCFiles
  ClassOf <- MCClassOf
  ClassOfShorn <- MCClassOfShorn
  Summary = "summary"
  Results = "results"
  Repairs = 1
  MaxResumes = 1
INVARIANTS
  AcceptanceSound
PROPERTIES
  AcceptanceEnds
\* The stage is over.
CHECK_DEADLOCK FALSE
