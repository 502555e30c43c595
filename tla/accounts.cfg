SPECIFICATION Spec
CONSTANTS
    u1 = u1  a1 = a1  a2 = a2
    i1 = i1  i2 = i2
    r1 = r1  r2 = r2  op = op
    NoUser = NoUser
    Users <- OneUser
    Accounts <- TwoAccounts
    Ids <- TwoIds
    Requests <- TwoAndConsole
    Consoles <- Operator
    Moves = {"signup", "create", "batch", "edit", "delete", "account", "other", "crash"}
SYMMETRY Symmetric
INVARIANTS TypeOK OnePerAccount NothingOutlivesUser OneMarker EveryAccountServed
