SPECIFICATION Spec
CONSTANTS
    t1 = t1  t2 = t2  k1 = k1  k2 = k2
    Threads <- TwoThreads
    Keys <- TwoKeys
    Threshold = 2
    MaxLock = 2
    Cap = 1
    Top = 2
    NoEntry = NoEntry
    NoSlot = NoSlot
    Members <- OneKey
    Moves = {"delete", "console", "restart"}
SYMMETRY ThreadSymmetry
INVARIANT TypeOK
INVARIANT OnlyRacersSlip
INVARIANT SweepSparesTheBusy
INVARIANT LockoutEnds
