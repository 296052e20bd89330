SPECIFICATION Spec
CONSTANTS
    Chain <- MCChain
    Remote <- MCRemote
    Revisions = {1, 2}
    Jobs <- MCJobs
    Pieces = 2
    MaxFaults = 1
INVARIANTS
    TypeOK
    DeliveredIsWhole
    FoundWithItsJar
CHECK_DEADLOCK FALSE
