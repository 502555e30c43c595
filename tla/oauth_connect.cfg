SPECIFICATION Spec
CONSTANTS
    r1 = r1  r2 = r2  r3 = r3
    Nobody = Nobody
    NoConn = NoConn
    Requests <- ThreeRequests
    MaxTokens = 3
    Moves = {"connect", "disconnect", "delete", "revoke", "expire", "refuse", "lost", "crash"}
SYMMETRY RequestSymmetry
INVARIANT TypeOK
INVARIANT StoredTokenWorks
INVARIANT UsesStoredToken
INVARIANT NoTokenWithoutUser
PROPERTY RefreshDropsOnlyRefused
CHECK_DEADLOCK FALSE
