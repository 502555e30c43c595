SPECIFICATION Spec
CONSTANTS
    Cases <- SomeCases
    Raw <- SomeRaw
    ZeroDecimal = {"JPY", "KRW"}
    MemoMax = 8
    Lookback = 2
    MaxOverride = 1000
    One = 100
    NoRate = NoRate
    NoRow = NoRow
INVARIANT TypeOK
INVARIANT MarkerSurvives
INVARIANT KeepsWhatFits
INVARIANT RateIsOfTheDay
INVARIANT FailsOnlyUnquoted
INVARIANT AmountsAreNearest
CHECK_DEADLOCK FALSE
