SPECIFICATION FairSpec
CONSTANTS
  Writers <- MCThree
  Main <- MCMain
  MaxEvents = 6
  MaxProcesses = 2
  MaxFailures = 1
  MaxCrashes = 1
INVARIANTS
  LogSound
PROPERTIES
  RecordIsAnswered
\* All events of the model are recorded.
CHECK_DEADLOCK FALSE
