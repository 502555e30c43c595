SPECIFICATION FairSpec
CONSTANTS
    s1 = s1  s2 = s2  c1 = c1  c2 = c2  a1 = a1  a2 = a2
    t1 = t1  t2 = t2  t3 = t3
    Nobody = Nobody
    NoCount = NoCount
    Tabs <- TwoTabs
    Convs <- OneConv
    Accounts <- OneAccount
    Txns <- OneTxn
    Home <- HomeSingle
    Date <- DateSingle
    Splits <- NoSplits
    Today = 2
    Values = {1}
    FirstConvs <- OneConv
    FirstAccount <- AccountOne
    Picks = {"convert", "already"}
    Moves = {"remove","delete", "refresh", "crash", "late", "amount"}
PROPERTY EveryRequestEnds
PROPERTY ImplementsLedger
CHECK_DEADLOCK FALSE
