\* Up to three nested containers; every write may fail.
CONSTANT
    MaxDepth = 3
SPECIFICATION Spec
INVARIANTS
    TypeOK
    DepthIsBlocks
    WrittenIsJson
