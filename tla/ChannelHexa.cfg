CONSTANTS
    IntMax = 7
    HexaInside = TRUE
    Sources <- AllSources
SPECIFICATION Spec
INVARIANT HexEscapeIsOneByte
CHECK_DEADLOCK FALSE
