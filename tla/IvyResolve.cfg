SPECIFICATION Spec
CONSTANTS
    Ids <- MCIds
    Root <- MCRoot
    None = None
    LongMax = 2
    Graphs <- MCGraphs
INVARIANTS
    IInv
    ReportIsDeclared
    LatestIsGreatest
PROPERTY
    Terminates
