SPECIFICATION Spec
CONSTANTS
    Jobs <- ThreeJobs
    Cycle <- TwoCycles
    Needs <- Chain
    MAXTRIES = 2
    MaxOutages = 1
    MaxErrors = 1
    MaxOther = 1
INVARIANTS
    SuccessIsDone
    FailureHasReason
PROPERTY WatchEnds
CHECK_DEADLOCK FALSE
