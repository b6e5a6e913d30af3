SPECIFICATION Spec
CONSTANTS
  Tasks <- MCTasks
  Phases = 3
  Rounds = 2
  MaxDrafts = 3
INVARIANTS
  SpecsSound
  EveryTaskRan
