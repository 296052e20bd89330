SPECIFICATION Spec
CONSTANTS
    MaxCalls = 8
    MaxTasks = 3
    MaxDefines = 2
    OsName = "linux"
    OsFamily = "unix"
    Disk <- MCDisk
    Cwd <- MCCwd
    Paths <- MCPaths
    JavaVersion <- MCJavaVersion
    Tasks <- MCTasks
    Defines <- MCDefines
    Builtins <- MCBuiltins
    BaseDir <- MCBaseDir
    RawBaseDir <- MCRawBaseDir
    Environment <- MCEnvironment
    Input <- MCInput
    Outputs <- MCOutputs
INVARIANTS
    TypeOK
    CyclesExplained
    ExpansionEndsIffAcyclic
    PathIsPosition
PROPERTY
    OverwritersOnly
CHECK_DEADLOCK FALSE
