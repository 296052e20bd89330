SPECIFICATION Spec
CONSTANTS
    Kinds <- MCKinds
    Content <- SelectorContent
    MaxElements = 7
    MaxDepth = 6
INVARIANT
    FilesetDepthIsNesting
