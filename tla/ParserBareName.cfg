\* JSON5 with a pool of three tokens.
SPECIFICATION Spec
CONSTANTS
    a = a
    b = b
    c = c
    d = d
    None = None
    Static <- PoolABC
    Heap = {}
    Names = {1, 2}
    Supersets = {"json5"}
PROPERTY
    NameOnlyInInputMode
