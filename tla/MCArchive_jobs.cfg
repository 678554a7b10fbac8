CONSTANTS
    Jobs <- AllJobs
    Submissions <- JobsTogether
    NodeOf <- OneNode
    Datasets <- TarballsOf
    Restricted <- WithRestricted
    MaxTries = 2
    MaxBroken = 3

SPECIFICATION Spec
CONSTRAINT RenamesAlone
INVARIANTS TypeOK  TarballsComplete GroupsSent
CHECK_DEADLOCK FALSE
