SPECIFICATION PatientSpec
CONSTANTS
  Workers <- MCWorkers
  Cid <- MCIds
  MaxCalls = 2
  MaxTimers = 2
INVARIANTS
  WidgetsSound
  OutcomeIsAgents
PROPERTIES
  FanOutEnds
  AbortEndsFanOut
\* The run is over.
CHECK_DEADLOCK FALSE
