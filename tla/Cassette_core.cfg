SPECIFICATION CassetteSpec
CONSTANTS
  Program <- MCProgram
  Keys <- MCKeys
  GitKeys <- MCGitKeys
  Ignored = FALSE
  StartsAt = 1
  MaxThrows = 1
INVARIANTS
  ReplaySound
  FilesReplayed
\* The run is over, or has missed a request.
CHECK_DEADLOCK FALSE
