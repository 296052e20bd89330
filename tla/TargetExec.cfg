SPECIFICATION Spec
CONSTANTS
    Targets <- MCTargets
    Missing = Missing
    Plain = Plain
    Builds <- AllBuilds
    StackLimit = 4
INVARIANTS
    IInv
    DependenciesFirst
    AtMostOnce
    RecursionIsCycle
    CyclesNeverComplete
    SuccessMeansAll
    OverflowIsAntcallCycle
PROPERTIES
    ImplementsBuildOrder
    Terminates
