\* A put whose failed write is not reported.
CONSTANT
    MaxDepth = 2
SPECIFICATION Spec
INVARIANT
    SilentMeansJson
