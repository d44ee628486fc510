\* Heap mode (no tokens given), JSON5 and rough: malloc may hand out three.
SPECIFICATION Spec
CONSTANTS
    a = a
    b = b
    c = c
    d = d
    None = None
    Static = {}
    Heap <- PoolABC
    Names = {1, 2}
    Supersets = {"json5", "rough"}
SYMMETRY Interchangeable
INVARIANTS
    ModeCoherent
    NoDangling

