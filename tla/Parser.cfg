SPECIFICATION Spec
CONSTANTS
    Kinds <- MCKinds
    Content <- MCContent
    MaxElements = 7
    MaxDepth = 6
INVARIANTS
    TypeOK
    ChildrenRecorded
PROPERTY
    ClosingRestores
