SPECIFICATION FairSpec
CONSTANTS
    TaskSpec <- TwoSpecs
    SpecLists <- TwoTasks
    MaxAttempts = 2
    AutomaticRetries = {0, 1}
    Checkouts = {"run", "unborn"}
    SameProcess = FALSE
    SwitchesBranch = TRUE
    GitFails = TRUE
INVARIANTS
    WavesSound
    StageAccounts
    LeftoversRemoved
PROPERTIES
    VerifiedMerged
    IntegratesInOrder
    StageEnds
