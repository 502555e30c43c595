SPECIFICATION Spec
CONSTANTS
    s1 = s1  s2 = s2  c1 = c1  c2 = c2  a1 = a1  a2 = a2
    t1 = t1  t2 = t2  t3 = t3
    Nobody = Nobody
    NoCount = NoCount
    Tabs <- TwoTabs
    Convs <- TwoConvs
    Accounts <- TwoAccounts
    Txns <- TwoTxns
    Home <- HomeEach
    Date <- DateTwo
    Splits <- NoSplits
    Today = 2
    Values = {1}
    FirstConvs <- OneConv
    FirstAccount <- AccountTwo
    Picks = {"convert"}
    Moves = {"create", "refresh"}
SYMMETRY TabSymmetry
INVARIANT AtMostOnce
INVARIANT BadgeNeverHidesWork
