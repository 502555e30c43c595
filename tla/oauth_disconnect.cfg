SPECIFICATION Spec
CONSTANTS
    r1 = r1  r2 = r2  r3 = r3
    Nobody = Nobody
    NoConn = NoConn
    Requests <- TwoRequests
    MaxTokens = 4
    Moves = {"disconnect"}
SYMMETRY RequestSymmetry
PROPERTY OnlyConnectingConnects
CHECK_DEADLOCK FALSE
