SPECIFICATION Spec
CONSTANTS
    Down <- MCDown
    Disk <- MCDisk
    Closed <- MCClosed
    Links <- MCLinks
    MaxLinks = 2
    Filesets <- MCFilesets
    Paths <- MCPaths
    Wants <- MCWants
    MaxStack = 8
INVARIANTS
    TypeOK
    SelectsAsAnt
    MatchesOnlyAsAnt
    PathIsFlattened
PROPERTY
    EndsIffAcyclic
CHECK_DEADLOCK FALSE
