CONSTANT
    MaxTokens = 5
SPECIFICATION Spec
INVARIANTS TypeOK PrintsTheTree IndentIsDepth
PROPERTY WalkEnds
CHECK_DEADLOCK FALSE
