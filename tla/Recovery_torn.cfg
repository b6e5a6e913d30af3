SPECIFICATION RecoverySpec
CONSTANTS
    MaxBackwardLoops = 0
    MaxAcceptFix = 0
    MaxVerifyFix = 0
    PhaseCounts = {1, 2}
    Requests <- StageRequests
    PhaseLimit = 2
    Tasks = {"general"}
    MaxRestarts = 1
    TornSaves = TRUE
PROPERTIES
    InferenceNeverAhead
