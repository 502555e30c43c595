SPECIFICATION Spec
CONSTANTS
    s1 = s1  s2 = s2  c1 = c1  c2 = c2  a1 = a1  a2 = a2
    t1 = t1  t2 = t2  t3 = t3
    Nobody = Nobody
    NoCount = NoCount
    Tabs <- TwoTabs
    Convs <- OneConv
    Accounts <- OneAccount
    Txns <- TwoTxns
    Home <- HomeOne
    Date <- DateLate
    Splits <- NoSplits
    Today = 3
    Values = {1}
    FirstConvs <- OneConv
    FirstAccount <- AccountOne
    Picks = {"convert", "skip"}
    Moves = {"import", "crash"}
SYMMETRY TabSymmetry
INVARIANT TypeOK
PROPERTY ImplementsLedger
INVARIANT LockExcludes
INVARIANT AtMostOnce
INVARIANT FloorKeepsOwed
PROPERTY FloorOnlyAdvances
