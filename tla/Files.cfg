SPECIFICATION Spec
CONSTANTS
    Paths <- MCPaths
    Locked <- MCLocked
    Sources <- MCSources
    Initially <- MCInitially
    Builds <- MCBuilds
    Projects <- MCProjects
    ClassOf <- MCClassOf
    Types <- MCTypes
    MaxTime = 2
    MaxEdits = 1
    MaxBuilds = 2
    MaxLength = 6
INVARIANTS
    TypeOK
    SuccessMeansDone
PROPERTY
    EndsUnlessFed
CHECK_DEADLOCK FALSE
