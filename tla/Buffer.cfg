\* Both entry points: up to five bytes in cmdbuf, arriving in any split.
CONSTANTS
    CmdbufLen = 6
    TokensNum = 2
SPECIFICATION Spec
INVARIANTS
    TypeOK
    LoadableWhenIdle
    ChunkingInvisible
    ReturnTellsLastFailure
PROPERTIES
    TurnTakesTheDocument
    LoopEnds
