\* A pool of eight tokens: the object and up to seven members, three passes.
SPECIFICATION Spec
CONSTANTS
    None = None
    Nodes = {t1, t2, t3, t4, t5, t6, t7, t8}
    Heads = {"free", "active", "o", "dest"}
    Names <- ThreeNames
    BlockSize = 2
INVARIANTS
    TypeOK
    PoolLinked
    MembersLinked
    NoTokenLost
    LookupExact
    ChildByIndex
PROPERTIES
    ImplementsStore
    LoopsEnd
