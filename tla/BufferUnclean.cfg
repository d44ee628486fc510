\* What is left in cmdbuf after an error that the header says cleans it.
CONSTANTS
    CmdbufLen = 4
    TokensNum = 2
SPECIFICATION Spec
INVARIANTS
    CleanAfterError
