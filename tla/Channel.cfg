CONSTANTS
    IntMax = 7
    HexaInside = FALSE
    Sources <- AllSources
SPECIFICATION Spec
INVARIANTS TypeOK EachByteOnce DecidesForTheWhole MeansWhatWasSent NumberKeepsValue DecodeStaysBehind GettersReadTheText VerdictIsFinal
CHECK_DEADLOCK FALSE
