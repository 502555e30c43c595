------------------------- MODULE MCConversionApply -------------------------
(* Small instances of ConversionApply for TLC. *)
EXTENDS ConversionApply, TLC

CONSTANTS s1, s2, c1, c2, a1, a2, t1, t2, t3

TwoTabs == {s1, s2}
OneConv == {c1}
TwoConvs == {c1, c2}
OneAccount == {a1}
TwoAccounts == {a1, a2}
OneTxn == {t1}
TwoTxns == {t1, t2}
ThreeTxns == {t1, t2, t3}

HomeSingle == t1 :> a1
DateSingle == t1 :> 1
\* One account: an old transaction and a newer one.
HomeOne == t1 :> a1 @@ t2 :> a1
\* An account each.
HomeEach == t1 :> a1 @@ t2 :> a2
\* An old and a newer one in one account, a third in another.
HomeApart == t1 :> a1 @@ t2 :> a1 @@ t3 :> a2
DateThree == t1 :> 1 @@ t2 :> 2 @@ t3 :> 2
DateTwo == t1 :> 1 @@ t2 :> 2
\* Both after the first floor.
DateLate == t1 :> 2 @@ t2 :> 3
AccountOne == c1 :> a1
AccountTwo == c1 :> a1 @@ c2 :> a2

NoSplits == {}
OldSplit == {t1}
NewSplit == {t2}

TabSymmetry == Permutations(Tabs)
==============================================================================
