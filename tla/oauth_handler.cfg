SPECIFICATION Spec
CONSTANTS
    r1 = r1  r2 = r2  r3 = r3
    Nobody = Nobody
    NoConn = NoConn
    Requests <- TwoRequests
    MaxTokens = 4
    Moves = {"connect", "revoke"}
SYMMETRY RequestSymmetry
PROPERTY HandlerDropsOnlyDead
CHECK_DEADLOCK FALSE
