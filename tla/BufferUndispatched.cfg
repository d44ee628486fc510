\* A document that is whole but not handed over when a call returns.
CONSTANTS
    CmdbufLen = 6
    TokensNum = 2
SPECIFICATION Spec
INVARIANTS
    NoUndispatchedDocument
