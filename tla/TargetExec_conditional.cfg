SPECIFICATION Spec
CONSTANTS
    Targets <- PairTargets
    Missing = Missing
    Plain = Plain
    Builds <- ConditionalBuilds
    StackLimit = 3
INVARIANT
    DisabledNeverRun
