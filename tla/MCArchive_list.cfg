CONSTANTS
    Jobs <- AllJobs
    Submissions <- JobsTogether
    NodeOf <- OneNode
    Datasets <- TarballsOf
    Restricted <- WithRestricted
    MaxTries = 2
    MaxBroken = 3

SPECIFICATION Spec
INVARIANT AllTarballsSent
CHECK_DEADLOCK FALSE
