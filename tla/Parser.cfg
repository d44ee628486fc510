\* The pool of three tokens the caller gave; plain JSON and JSONC.
SPECIFICATION Spec
CONSTANTS
    a = a
    b = b
    c = c
    d = d
    None = None
    Static <- PoolABC
    Heap = {}
    Names = {1, 2}
    Supersets = {"jsonc"}
SYMMETRY Interchangeable
INVARIANTS
    TypeOK
    PoolConserved
    TokensErrorIsReal
    TreeLinked
    NoOrphan
    ClosedObjectsSorted
PROPERTIES
    CutIsInvisible
    ImplementsGrammar
    RejectsOnlyUngrammatical
