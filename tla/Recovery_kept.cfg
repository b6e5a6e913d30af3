SPECIFICATION RecoverySpec
CONSTANTS
    MaxBackwardLoops = 1
    MaxAcceptFix = 1
    MaxVerifyFix = 1
    PhaseCounts = {2}
    Requests <- StageRequests
    PhaseLimit = 2
    Tasks = {"general"}
    MaxRestarts = 2
    TornSaves = FALSE
VIEW
    KeptView
INVARIANTS
    RestartsKeepOrder
    LoopsCounted
    RestartsKeepInputs
