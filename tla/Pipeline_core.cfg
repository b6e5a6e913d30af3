SPECIFICATION FairSpec
CONSTANTS
    MaxBackwardLoops = 1
    MaxAcceptFix = 1
    MaxVerifyFix = 1
    PhaseCounts = {1, 2}
    Requests <- PortRequests
    PhaseLimit = 2
    Tasks = {"none", "simple", "general"}
INVARIANTS
    TypeOK
    PhaseDiscipline
    ReportIsEarned
    InputsPresent
    NoStaleDownstream
PROPERTIES
    KeepsLifecycle
    EveryStepAdvances
    AutomatedRunEnds
