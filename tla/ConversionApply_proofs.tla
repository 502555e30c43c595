----------------------- MODULE ConversionApply_proofs ------------------------
(***************************************************************************)
(* Theorems of ConversionApply for every number of tabs, conversions,      *)
(* transactions, dates and amounts.                                        *)
(***************************************************************************)
EXTENDS ConversionApply, TLAPS, FiniteSetTheorems,
        WellFoundedInduction, SequenceTheorems

USE DEF ynabVars, rowVars, workVars, pageVars

\* A page's groups, and the count of a badge, are of the right type.
LEMMA SeqsOfConvs ==
    ASSUME NEW cs \in SUBSET Convs, cs # {}, NEW q \in SetToSeqs(cs)
    PROVE  q \in Seq(Convs) /\ q # <<>>
<1>1. IsFiniteSet(cs)
    BY ConvAssumption, FS_Subset
<1>2. Cardinality(cs) \in Nat
    BY <1>1, FS_CardinalityType
<1>3. q \in [1..Cardinality(cs) -> Convs]
    BY DEF SetToSeqs
<1>4. Cardinality(cs) # 0
    BY <1>1, FS_EmptySet
<1>5. q \in Seq(Convs) /\ Len(q) = Cardinality(cs)
    BY <1>2, <1>3
<1>6. QED
    BY <1>4, <1>5

\* What set_pending stores is a count.
LEMMA PendingCountType ==
    ASSUME NEW found \in SUBSET Txns, NEW applied
    PROVE  PendingCount(found, applied) \in Counts
<1>1. IsFiniteSet({t \in found : ~IsSplit(t) /\ t \notin applied})
    BY TxnAssumption, FS_Subset
<1>2. QED
    BY <1>1, FS_CardinalityType DEF PendingCount, Counts

\* The date an apply would leave as the floor is a date, and no fetched
\* transaction left over is before it.
LEMMA NewStartIsMinimal ==
    ASSUME NEW found \in SUBSET Txns
    PROVE  /\ NewStart(found) \in Dates
           /\ \A t \in found : NewStart(found) <= Date[t]
<1>1. CASE found = {}
    BY <1>1, TxnAssumption DEF NewStart, Dates
<1>2. CASE found # {}
    <2> DEFINE D == {Date[t] : t \in found}
    <2>1. D # {} /\ D \in SUBSET Dates /\ D \in SUBSET Nat
        BY <1>2, TxnAssumption DEF Dates
    <2> DEFINE R == OpToRel(<, Nat)
    <2>a. IsWellFoundedOn(R, Nat)
        BY NatLessThanWellFounded
    <2>b. \E d \in D : \A e \in D : ~ (<<e, d>> \in R)
        <3> HIDE DEF D, R
        <3>1. QED
            BY <2>1, <2>a, WFMin
    <2>c. \A d, e \in D : ~ (<<e, d>> \in R) => d <= e
        BY <2>1 DEF OpToRel
    <2>2. \E d \in D : \A e \in D : d <= e
        <3> HIDE DEF D, R
        <3>1. QED
            BY <2>b, <2>c
    <2>3. PICK d \in D : \A e \in D : d <= e
        BY <2>2
    <2>4. \A t \in found : d <= Date[t]
        BY <2>3
    <2>5. MinDate(found) \in D /\ \A t \in found : MinDate(found) <= Date[t]
        BY <2>3, <2>4 DEF MinDate
    <2>6. QED
        BY <1>2, <2>1, <2>5 DEF NewStart
<1>3. QED
    BY <1>1, <1>2

-----------------------------------------------------------------------------
(* Types, and that a request under way has a group to work on. *)

Busy == \A s \in Tabs : pc[s] \in ServerSteps => queue[s] # <<>>
TypeInv == TypeOK /\ Busy

\* A queue with more than one group keeps one after the first is taken.
LEMMA TailOfLonger ==
    ASSUME NEW q \in Seq(Convs), Len(q) > 1
    PROVE  Tail(q) \in Seq(Convs) /\ Tail(q) # <<>>
<1>1. Len(q) \in Nat /\ q # <<>>
    OBVIOUS
<1>2. Tail(q) \in Seq(Convs) /\ Len(Tail(q)) = Len(q) - 1
    BY <1>1, HeadTailProperties
<1>3. Len(Tail(q)) # 0
    BY <1>1, <1>2
<1>4. Len(<<>>) = 0
    OBVIOUS
<1>5. Tail(q) # <<>>
    BY <1>3, <1>4, Zenon
<1>6. QED
    BY <1>2, <1>5

\* Going on to the next group keeps the types of what it changes.
LEMMA NextGroupType ==
    ASSUME TypeInv, NEW s \in Tabs, NEW again \in ServerSteps,
           NextGroup(s, again)
    PROVE  /\ queue' \in [Tabs -> Seq(Convs)]
           /\ pc' \in [Tabs -> Labels]
           /\ plan' \in [Tabs -> SUBSET Updates]
           /\ snap' \in [Tabs -> [Convs -> Snapshots]]
           /\ Busy'
<1>1. queue[s] \in Seq(Convs) /\ queue \in [Tabs -> Seq(Convs)]
    BY DEF TypeInv, TypeOK
<1>2. CASE Len(queue[s]) > 1 /\ queue' = [queue EXCEPT ![s] = Tail(@)]
              /\ pc' = [pc EXCEPT ![s] = again] /\ UNCHANGED <<plan, snap>>
    <2>1. Tail(queue[s]) \in Seq(Convs) /\ Tail(queue[s]) # <<>>
        BY <1>1, <1>2, TailOfLonger
    <2>2. QED
        BY <1>2, <2>1 DEF TypeInv, TypeOK, Busy, Labels
<1>3. CASE Abort(s, "shown")
    <2>1. NoSnaps \in [Convs -> Snapshots]
        BY ConvAssumption, TxnAssumption DEF NoSnaps, Snapshots, Dates
    <2>2. QED
        BY <1>3, <2>1 DEF Abort, TypeInv, TypeOK, Busy, Labels, ServerSteps,
            PreviewSteps, RefreshSteps, ApplySteps, LockedSteps
<1>4. QED
    BY <1>2, <1>3 DEF NextGroup

\* The group of a request under way is a conversion.
LEMMA GroupType ==
    ASSUME TypeInv, NEW s \in Tabs, pc[s] \in ServerSteps
    PROVE  Group(s) \in Convs
<1>1. queue[s] \in Seq(Convs) /\ queue[s] # <<>>
    BY DEF TypeInv, TypeOK, Busy
<1>2. QED
    BY <1>1, HeadTailProperties DEF Group

\* Ending a request keeps the types of what it changes.
LEMMA AbortType ==
    ASSUME TypeInv, NEW s \in Tabs, NEW where \in {"idle", "shown"},
           Abort(s, where)
    PROVE  /\ queue' \in [Tabs -> Seq(Convs)]
           /\ pc' \in [Tabs -> Labels]
           /\ plan' \in [Tabs -> SUBSET Updates]
           /\ snap' \in [Tabs -> [Convs -> Snapshots]]
           /\ Busy'
<1>1. NoSnaps \in [Convs -> Snapshots]
    BY ConvAssumption, TxnAssumption DEF NoSnaps, Snapshots, Dates
<1>2. QED
    BY <1>1 DEF Abort, TypeInv, TypeOK, Busy, Labels, ServerSteps,
        PreviewSteps, RefreshSteps, ApplySteps, LockedSteps

\* Dropping a request's work keeps the types of what it changes.
LEMMA ForgetWorkType ==
    ASSUME TypeInv, NEW s \in Tabs, ForgetWork(s)
    PROVE  /\ open' \in [Tabs -> SUBSET Txns]
           /\ safe' \in [Tabs -> SUBSET Updates]
           /\ conf' \in [Tabs -> SUBSET Txns]
           /\ overtaken' \in [Tabs -> BOOLEAN]
    BY DEF ForgetWork, TypeInv, TypeOK

\* Leaving the lock with an error keeps the types of what it changes.
LEMMA LeaveType ==
    ASSUME TypeInv, NEW s \in Tabs, LeaveWithError(s)
    PROVE  /\ queue' \in [Tabs -> Seq(Convs)]
           /\ pc' \in [Tabs -> Labels]
           /\ plan' \in [Tabs -> SUBSET Updates]
           /\ snap' \in [Tabs -> [Convs -> Snapshots]]
           /\ Busy'
           /\ open' \in [Tabs -> SUBSET Txns]
           /\ safe' \in [Tabs -> SUBSET Updates]
           /\ conf' \in [Tabs -> SUBSET Txns]
           /\ overtaken' \in [Tabs -> BOOLEAN]
           /\ lock' \in [Convs -> Tabs \cup {Nobody}]
<1>1. "ap_read" \in ServerSteps
    BY DEF ServerSteps, ApplySteps
<1>2. lock' \in [Convs -> Tabs \cup {Nobody}]
    BY DEF LeaveWithError, Unlock, TypeInv, TypeOK
<1>3. QED
    BY <1>1, <1>2, NextGroupType, AbortType, ForgetWorkType DEF LeaveWithError

\* What YNAB stores is an amount and a mark.
LEMMA StoreType ==
    ASSUME TypeInv, NEW updates \in SUBSET Updates, Store(updates)
    PROVE  amt' \in [Txns -> Amounts] /\ mark' \in [Txns -> Marks]
<1>1. ASSUME NEW u \in Updates
      PROVE  NewAmount(u) \in Amounts /\ NewMark(u) \in Marks
    <2>1. u.original \in Amounts /\ u.id \in Txns
        BY DEF Updates
    <2>2. ConvertMilliunits(u.original) \in Amounts
        BY <2>1 DEF ConvertMilliunits, Amounts
    <2>3. amt[u.id] \in Amounts
        BY <2>1 DEF TypeInv, TypeOK
    <2>4. QED
        BY <2>2, <2>3 DEF NewAmount, NewMark, Marks
<1>2. ASSUME NEW t \in Txns, \E u \in updates : u.id = t
      PROVE  (CHOOSE u \in updates : u.id = t) \in Updates
    BY <1>2
<1>3. QED
    BY <1>1, <1>2 DEF Store, TypeInv, TypeOK

\* The ids of a set of updates are transactions.
LEMMA IdsType ==
    ASSUME NEW updates \in SUBSET Updates
    PROVE  Ids(updates) \in SUBSET Txns
    BY DEF Ids, Updates

\* The initial states are well typed.
LEMMA TypeInit == Init => TypeInv
<1>1. NoSnaps \in [Convs -> Snapshots]
    BY ConvAssumption, TxnAssumption DEF NoSnaps, Snapshots, Dates
<1>2. [v |-> 1, k |-> 0] \in Amounts /\ 1 \in Dates
    BY TxnAssumption DEF Amounts, Dates
<1>3. <<>> \in Seq(Convs)
    OBVIOUS
<1>4. QED
    BY <1>1, <1>2, <1>3, TxnAssumption, ConvAssumption DEF Init, TypeInv, TypeOK,
        Busy, Marks, Counts, Labels, ServerSteps, PreviewSteps, RefreshSteps, ApplySteps,
        LockedSteps

\* A step of a preview, and a submit, keep the types.
LEMMA TypePreview ==
    ASSUME TypeInv, NEW s \in Tabs,
           Preview(s) \/ OnloadRefresh(s) \/ Submit(s) \/ PreviewStep(s)
    PROVE  TypeInv'
<1>1. CASE Preview(s)
    <2>1. PICK cs \in {{c} : c \in live} \cup ({live} \ {{}}) :
            \E q \in SetToSeqs(cs) :
                /\ queue' = [queue EXCEPT ![s] = q]
                /\ page' = [page EXCEPT ![s] = q]
        BY <1>1 DEF Preview
    <2>2. cs \in SUBSET Convs /\ cs # {}
        <3>1. live \in SUBSET Convs
            BY DEF TypeInv, TypeOK
        <3>2. cs = live \/ \E c \in live : cs = {c}
            OBVIOUS
        <3>3. QED
            BY <3>1, <3>2
    <2>3. PICK q \in SetToSeqs(cs) :
                /\ queue' = [queue EXCEPT ![s] = q]
                /\ page' = [page EXCEPT ![s] = q]
        BY <2>1
    <2>4. q \in Seq(Convs) /\ q # <<>>
        BY <2>2, SeqsOfConvs
    <2>5. [c \in Convs |-> RowOf(c)] \in [Convs -> Snapshots]
        BY DEF RowOf, Snapshots, TypeInv, TypeOK
    <2>6. QED
        BY <1>1, <2>3, <2>4, <2>5 DEF Preview, TypeInv, TypeOK, Busy, Goto,
            Labels, ServerSteps, PreviewSteps, RefreshSteps, ApplySteps,
            LockedSteps
<1>2. CASE Submit(s)
    <2>1. plan' \in [Tabs -> SUBSET Updates]
        <3>1. PICK rows \in SUBSET form[s] : \E act \in [rows -> Picks] :
                plan' = [plan EXCEPT ![s] =
                   {[conv |-> r.conv, id |-> r.id, original |-> r.original,
                     action |-> act[r]] : r \in rows}]
            BY <1>2 DEF Submit
        <3>2. PICK act \in [rows -> Picks] :
                plan' = [plan EXCEPT ![s] =
                   {[conv |-> r.conv, id |-> r.id, original |-> r.original,
                     action |-> act[r]] : r \in rows}]
            BY <3>1
        <3>3. rows \in SUBSET Rows /\ Picks \in SUBSET Actions
            BY MoveAssumption DEF TypeInv, TypeOK
        <3>4. \A r \in rows :
                [conv |-> r.conv, id |-> r.id, original |-> r.original,
                 action |-> act[r]] \in Updates
            BY <3>3 DEF Rows, Updates
        <3>5. QED
            BY <3>2, <3>4 DEF TypeInv, TypeOK
    <2>2. page[s] \in Seq(Convs) /\ page[s] # <<>>
        BY <1>2 DEF Submit, TypeInv, TypeOK
    <2>3. QED
        BY <1>2, <2>1, <2>2 DEF Submit, TypeInv, TypeOK, Busy, Goto, Labels,
            ServerSteps, PreviewSteps, RefreshSteps, ApplySteps, LockedSteps
<1>3. CASE BuildGroup(s)
    <2>1. Group(s) \in Convs
        BY <1>3, GroupType DEF BuildGroup, ServerSteps, PreviewSteps, RefreshSteps
    <2>2. ASSUME NEW found \in SUBSET Txns
          PROVE  {[conv |-> Group(s), id |-> t, original |-> amt[t]] :
                    t \in found} \in SUBSET Rows
        BY <2>1 DEF Rows, TypeInv, TypeOK
    <2>3. form' \in [Tabs -> SUBSET Rows] /\ open' \in [Tabs -> SUBSET Txns]
        BY <1>3, <2>2 DEF BuildGroup, GetTransactions, TypeInv, TypeOK
    <2>4. QED
        BY <1>3, <2>3 DEF BuildGroup, TypeInv, TypeOK, Busy, Goto, Labels,
            ServerSteps, PreviewSteps, RefreshSteps, ApplySteps, LockedSteps
<1>4. CASE FailedGroup(s)
    BY <1>4, NextGroupType DEF FailedGroup, TypeInv, TypeOK, ServerSteps,
        PreviewSteps, RefreshSteps
<1>5. CASE PreviewAborts(s)
    <2>1. page' \in [Tabs -> Seq(Convs)] /\ form' \in [Tabs -> SUBSET Rows]
        BY <1>5 DEF PreviewAborts, TypeInv, TypeOK
    <2>2. QED
        BY <1>5, <2>1, AbortType DEF PreviewAborts, TypeInv, TypeOK
<1>6. CASE PreviewMarkSynced(s)
    BY <1>6 DEF PreviewMarkSynced, WriteSynced, TypeInv, TypeOK, Busy, Goto,
        Labels, ServerSteps, PreviewSteps, RefreshSteps, ApplySteps,
        LockedSteps
<1>7. CASE PreviewSetPending(s)
    <2>1. PendingCount(open[s], {}) \in Counts
        BY PendingCountType DEF TypeInv, TypeOK
    <2>2. badge' \in [Convs -> Counts]
        BY <1>7, <2>1 DEF PreviewSetPending, WriteBadge, TypeInv, TypeOK
    <2>3. QED
        BY <1>7, <2>2, NextGroupType, ForgetWorkType DEF PreviewSetPending,
            TypeInv, TypeOK, ServerSteps, PreviewSteps, RefreshSteps
<1>8. CASE OnloadRefresh(s)
    <2>1. PICK cs \in (SUBSET live) \ {{}} :
            \E q \in SetToSeqs(cs) : queue' = [queue EXCEPT ![s] = q]
        BY <1>8 DEF OnloadRefresh
    <2>2. cs \in SUBSET Convs /\ cs # {}
        BY DEF TypeInv, TypeOK
    <2>3. PICK q \in SetToSeqs(cs) : queue' = [queue EXCEPT ![s] = q]
        BY <2>1
    <2>4. q \in Seq(Convs) /\ q # <<>>
        BY <2>2, SeqsOfConvs
    <2>5. [c \in Convs |-> RowOf(c)] \in [Convs -> Snapshots]
        BY DEF RowOf, Snapshots, TypeInv, TypeOK
    <2>6. <<>> \in Seq(Convs)
        OBVIOUS
    <2>7. QED
        BY <1>8, <2>3, <2>4, <2>5, <2>6 DEF OnloadRefresh, TypeInv, TypeOK,
            Busy, Goto, Labels, ServerSteps, PreviewSteps, RefreshSteps,
            ApplySteps, LockedSteps
<1>9. CASE RefreshFetch(s)
    <2>1. open' \in [Tabs -> SUBSET Txns]
        BY <1>9 DEF RefreshFetch, GetTransactions, TypeInv, TypeOK
    <2>2. QED
        BY <1>9, <2>1 DEF RefreshFetch, TypeInv, TypeOK, Busy, Goto, Labels,
            ServerSteps, PreviewSteps, RefreshSteps, ApplySteps, LockedSteps
<1>10. CASE RefreshFails(s)
    BY <1>10, NextGroupType DEF RefreshFails, TypeInv, TypeOK, ServerSteps,
        PreviewSteps, RefreshSteps
<1>11. CASE RefreshSetPending(s)
    <2>1. PendingCount(open[s], {}) \in Counts
        BY PendingCountType DEF TypeInv, TypeOK
    <2>2. badge' \in [Convs -> Counts]
        BY <1>11, <2>1 DEF RefreshSetPending, WriteBadge, TypeInv, TypeOK
    <2>3. QED
        BY <1>11, <2>2, NextGroupType, ForgetWorkType DEF RefreshSetPending,
            TypeInv, TypeOK, ServerSteps, PreviewSteps, RefreshSteps
<1>12. QED
    BY <1>1, <1>2, <1>3, <1>4, <1>5, <1>6, <1>7, <1>8, <1>9, <1>10, <1>11
    DEF PreviewStep

\* A step of an apply before it has the lock keeps the types.
LEMMA TypeBeforeLock ==
    ASSUME TypeInv, NEW s \in Tabs,
           \/ ReadConversion(s) \/ SkipGroup(s)
           \/ EnterLock(s) \/ ConversionGone(s)
    PROVE  TypeInv'
<1>1. "ap_read" \in ServerSteps
    BY DEF ServerSteps, ApplySteps
<1>2. CASE ReadConversion(s)
    <2>1. RowOf(Group(s)) \in Snapshots
        BY <1>2, GroupType DEF ReadConversion, RowOf, Snapshots, TypeInv,
            TypeOK, ServerSteps, ApplySteps
    <2>2. snap' \in [Tabs -> [Convs -> Snapshots]]
        BY <1>2, <2>1 DEF ReadConversion, TypeInv, TypeOK
    <2>3. QED
        BY <1>2, <2>2 DEF ReadConversion, TypeInv, TypeOK, Busy, Goto, Labels,
            ServerSteps, PreviewSteps, RefreshSteps, ApplySteps, LockedSteps
<1>3. CASE SkipGroup(s)
    BY <1>1, <1>3, NextGroupType DEF SkipGroup, TypeInv, TypeOK
<1>4. CASE EnterLock(s)
    <2>1. Group(s) \in Convs
        BY <1>4, GroupType DEF EnterLock, ServerSteps, ApplySteps
    <2>2. [snap[s][Group(s)] EXCEPT !.start = start[Group(s)]] \in Snapshots
        <3>1. snap[s][Group(s)] \in Snapshots /\ start[Group(s)] \in Dates
            BY <2>1 DEF TypeInv, TypeOK
        <3>2. QED
            BY <3>1 DEF Snapshots
    <2>3. snap' \in [Tabs -> [Convs -> Snapshots]]
        BY <1>4, <2>2 DEF EnterLock, TypeInv, TypeOK
    <2>4. lock' \in [Convs -> Tabs \cup {Nobody}]
        BY <1>4 DEF EnterLock, TypeInv, TypeOK
    <2>5. QED
        BY <1>4, <2>3, <2>4 DEF EnterLock, TypeInv, TypeOK, Busy, Goto, Labels,
            ServerSteps, PreviewSteps, RefreshSteps, ApplySteps, LockedSteps
<1>5. CASE ConversionGone(s)
    BY <1>1, <1>5, NextGroupType DEF ConversionGone, TypeInv, TypeOK
<1>6. QED
    BY <1>2, <1>3, <1>4, <1>5

\* A step of an apply that has the lock keeps the types.
LEMMA TypeLocked ==
    ASSUME TypeInv, NEW s \in Tabs, LockedStep(s)
    PROVE  TypeInv'
<1>1. CASE FetchForApply(s)
    <2> DEFINE fetched == GetTransactions(snap[s][Group(s)].acct,
                                          snap[s][Group(s)].start)
               found == {t \in fetched : ~IsExcluded(t)}
               ok == {u \in GroupPlan(s) : IsSafe(u, fetched)}
    <2>1. found \in SUBSET Txns
        BY DEF GetTransactions
    <2>2. ok \in SUBSET Updates
        BY DEF GroupPlan, TypeInv, TypeOK
    <2>3. /\ open' = [open EXCEPT ![s] = found]
          /\ safe' = [safe EXCEPT ![s] = ok]
          /\ owed' = [owed EXCEPT ![Group(s)] =
                        IF snap[s][Group(s)].acct = acct[Group(s)]
                          THEN {t \in found : Date[t] >= start[Group(s)]} ELSE @]
          /\ pc[s] = "ap_fetch"
          /\ pc' = [pc EXCEPT ![s] = IF ok = {} THEN "ap_sync" ELSE "ap_patch"]
          /\ UNCHANGED <<ynabVars, rowVars, lock, queue, snap, conf, overtaken,
                         pageVars, wrote>>
        BY <1>1 DEF FetchForApply, Goto
    <2> HIDE DEF found, ok
    <2>4. QED
        BY <2>1, <2>2, <2>3 DEF TypeInv, TypeOK, Busy, Goto, Labels,
            ServerSteps, PreviewSteps, RefreshSteps, ApplySteps, LockedSteps
<1>2. CASE FetchFails(s)
    BY <1>2, LeaveType DEF FetchFails, LeaveWithError, TypeInv, TypeOK
<1>3. CASE Patch(s)
    <2>1. PICK done \in SUBSET {u \in safe[s] : st[u.id] = "present"} :
             /\ Store(done)
             /\ conf' = [conf EXCEPT ![s] = Ids(done)]
             /\ wrote' = [wrote EXCEPT ![Group(s)] = @ \cup Ids(done)]
        BY <1>3 DEF Patch
    <2>2. done \in SUBSET Updates
        BY DEF TypeInv, TypeOK
    <2>3. amt' \in [Txns -> Amounts] /\ mark' \in [Txns -> Marks]
        BY <2>1, <2>2, StoreType
    <2>4. Ids(done) \in SUBSET Txns
        BY <2>2, IdsType
    <2>5. conf' \in [Tabs -> SUBSET Txns] /\ wrote' \in [Convs -> SUBSET Txns]
        BY <2>1, <2>4 DEF TypeInv, TypeOK
    <2>6. pc' \in [Tabs -> Labels] /\ Busy'
        BY <1>3 DEF Patch, TypeInv, TypeOK, Busy, Goto, Labels, ServerSteps,
            PreviewSteps, RefreshSteps, ApplySteps, LockedSteps
    <2>7. UNCHANGED <<st, late, typed, rowVars, lock, queue, snap, open, safe,
                      overtaken, pageVars, owed>>
        BY <1>3 DEF Patch
    <2>8. QED
        BY <2>3, <2>5, <2>6, <2>7 DEF TypeInv, TypeOK
<1>4. CASE PatchRejected(s)
    BY <1>4, LeaveType DEF PatchRejected, LeaveWithError, TypeInv, TypeOK
<1>5. CASE PatchTimesOut(s)
    <2>1. late' \in SUBSET Updates
        BY <1>5 DEF PatchTimesOut, TypeInv, TypeOK
    <2>2. QED
        BY <1>5, <2>1, LeaveType
        DEF PatchTimesOut, LeaveWithError, TypeInv, TypeOK
<1>6. CASE PatchConfirmed(s)
    BY <1>6 DEF PatchConfirmed, TypeInv, TypeOK, Busy, Goto, Labels,
        ServerSteps, PreviewSteps, RefreshSteps, ApplySteps, LockedSteps
<1>7. CASE AnswerLost(s)
    BY <1>7, LeaveType DEF AnswerLost, LeaveWithError, TypeInv, TypeOK
<1>8. CASE ApplyMarkSynced(s)
    BY <1>8 DEF ApplyMarkSynced, WriteSynced, TypeInv, TypeOK, Busy, Goto,
        Labels, ServerSteps, PreviewSteps, RefreshSteps, ApplySteps,
        LockedSteps
<1>9. CASE ApplySetPending(s)
    <2>1. PendingCount(open[s], Applied(s)) \in Counts
        BY PendingCountType DEF TypeInv, TypeOK
    <2>2. badge' \in [Convs -> Counts]
        BY <1>9, <2>1 DEF ApplySetPending, WriteBadge, TypeInv, TypeOK
    <2>3. pc' \in [Tabs -> Labels] /\ Busy'
        BY <1>9 DEF ApplySetPending, TypeInv, TypeOK, Busy, Goto, Labels,
            ServerSteps, PreviewSteps, RefreshSteps, ApplySteps, LockedSteps
    <2>4. QED
        BY <1>9, <2>2, <2>3 DEF ApplySetPending, TypeInv, TypeOK
<1>10. CASE ApplySetStartDate(s)
    <2>1. NewStart(open[s] \ Applied(s)) \in Dates
        BY NewStartIsMinimal DEF TypeInv, TypeOK
    <2>2. start' \in [Convs -> Dates]
        BY <1>10, <2>1 DEF ApplySetStartDate, TypeInv, TypeOK
    <2>3. lock' \in [Convs -> Tabs \cup {Nobody}]
        BY <1>10 DEF ApplySetStartDate, Unlock, TypeInv, TypeOK
    <2>4. "ap_read" \in ServerSteps
        BY DEF ServerSteps, ApplySteps
    <2>5. QED
        BY <1>10, <2>2, <2>3, <2>4, NextGroupType, ForgetWorkType
        DEF ApplySetStartDate, TypeInv, TypeOK
<1>11. QED
    BY <1>1, <1>2, <1>3, <1>4, <1>5, <1>6, <1>7, <1>8, <1>9, <1>10
    DEF LockedStep

\* A settings edit, a new and a deleted conversion keep the types.
LEMMA TypeConfig ==
    ASSUME TypeInv, ConfigStep
    PROVE  TypeInv'
<1>1. CASE Delete
    BY <1>1 DEF Delete, TypeInv, TypeOK, Busy
<1>2. ASSUME NEW c \in Convs, Create(c)
      PROVE  TypeInv'
    BY <1>2 DEF Create, TypeInv, TypeOK, Busy
<1>3. ASSUME NEW c \in Convs, Edit(c)
      PROVE  TypeInv'
    <2>1. owed' \in [Convs -> SUBSET Txns]
        BY <1>3 DEF Edit, GetTransactions, TypeInv, TypeOK
    <2>2. QED
        BY <1>3, <2>1 DEF Edit, TypeInv, TypeOK, Busy
<1>4. QED
    BY <1>1, <1>2, <1>3 DEF ConfigStep

\* What happens in YNAB, a late PATCH and a restart keep the types.
LEMMA TypeWorld ==
    ASSUME TypeInv, WorldStep
    PROVE  TypeInv'
<1>1. ASSUME NEW t \in Txns
      PROVE  UnderWay(t) \in SUBSET Values
    BY DEF UnderWay, Sent, Updates, Amounts, TypeInv, TypeOK
<1>2. ASSUME NEW t \in Txns, EditAmount(t)
      PROVE  TypeInv'
    <2>1. PICK v \in Values :
            /\ amt' = [amt EXCEPT ![t] = [v |-> v, k |-> 0]]
            /\ typed' = [typed EXCEPT ![t] = {v} \cup UnderWay(t)]
        BY <1>2 DEF EditAmount
    <2>2. amt' \in [Txns -> Amounts]
        BY <2>1 DEF Amounts, TypeInv, TypeOK
    <2>3. {v} \cup UnderWay(t) \in SUBSET Values
        BY <1>1
    <2>4. typed' \in [Txns -> SUBSET Values]
        BY <2>1, <2>3 DEF TypeInv, TypeOK
    <2>5. QED
        BY <1>2, <2>2, <2>4 DEF EditAmount, InYNAB, TypeInv, TypeOK, Busy
<1>3. ASSUME NEW t \in Txns, MarkByHand(t)
      PROVE  TypeInv'
    BY <1>3 DEF MarkByHand, InYNAB, TypeInv, TypeOK, Busy
<1>4. ASSUME NEW t \in Txns, DeleteTxn(t)
      PROVE  TypeInv'
    BY <1>4 DEF DeleteTxn, InYNAB, TypeInv, TypeOK, Busy
<1>5. ASSUME NEW t \in Txns, Import(t)
      PROVE  TypeInv'
    BY <1>5 DEF Import, TypeInv, TypeOK, Busy
<1>6. CASE LatePatch
    <2>1. PICK u \in late :
            /\ late' = late \ {u}
            /\ \/ /\ Store({u})
                  /\ wrote' = [wrote EXCEPT ![u.conv] = @ \cup {u.id}]
               \/ UNCHANGED <<amt, mark, wrote>>
            /\ UNCHANGED <<st, typed, rowVars, lock, pc, queue, snap, workVars,
                           pageVars, owed>>
        BY <1>6 DEF LatePatch
    <2>2. u \in Updates /\ u.id \in Txns
        BY DEF TypeInv, TypeOK, Updates
    <2>3. /\ amt' \in [Txns -> Amounts] /\ mark' \in [Txns -> Marks]
          /\ wrote' \in [Convs -> SUBSET Txns]
        <3>1. CASE /\ Store({u})
                   /\ wrote' = [wrote EXCEPT ![u.conv] = @ \cup {u.id}]
            BY <2>2, <3>1, StoreType DEF TypeInv, TypeOK
        <3>2. CASE UNCHANGED <<amt, mark, wrote>>
            BY <3>2 DEF TypeInv, TypeOK
        <3>3. QED
            BY <2>1, <3>1, <3>2
    <2>4. QED
        BY <2>1, <2>3 DEF TypeInv, TypeOK, Busy
<1>7. CASE Crash
    <2>1. late' \in SUBSET Updates
        BY <1>7 DEF Crash, Sent, TypeInv, TypeOK
    <2>2. NoSnaps \in [Convs -> Snapshots]
        BY ConvAssumption, TxnAssumption DEF NoSnaps, Snapshots, Dates
    <2>3. <<>> \in Seq(Convs)
        OBVIOUS
    <2>4. pc' \in [Tabs -> Labels] /\ Busy'
        BY <1>7 DEF Crash, TypeInv, TypeOK, Busy, Goto, Labels, ServerSteps,
            PreviewSteps, RefreshSteps, ApplySteps, LockedSteps
    <2>5. page' \in [Tabs -> Seq(Convs)] /\ form' \in [Tabs -> SUBSET Rows]
        BY <1>7, <2>3 DEF Crash, TypeInv, TypeOK
    <2>6. queue' \in [Tabs -> Seq(Convs)] /\ snap' \in [Tabs -> [Convs -> Snapshots]]
        BY <1>7, <2>2, <2>3 DEF Crash
    <2>7. QED
        BY <1>7, <2>1, <2>4, <2>5, <2>6 DEF Crash, TypeInv, TypeOK
<1>8. QED
    BY <1>2, <1>3, <1>4, <1>5, <1>6, <1>7 DEF WorldStep

\* Every step keeps the types.
LEMMA TypeStep == TypeInv /\ [Next]_vars => TypeInv'
<1> SUFFICES ASSUME TypeInv, [Next]_vars
             PROVE  TypeInv'
    OBVIOUS
<1>1. ASSUME NEW s \in Tabs,
             \/ Preview(s) \/ OnloadRefresh(s) \/ Submit(s)
             \/ PreviewStep(s) \/ ApplyStep(s)
      PROVE  TypeInv'
    BY <1>1, TypePreview, TypeBeforeLock, TypeLocked DEF ApplyStep
<1>2. CASE ConfigStep
    BY <1>2, TypeConfig
<1>3. CASE WorldStep
    BY <1>3, TypeWorld
<1>4. CASE UNCHANGED vars
    BY <1>4 DEF vars, TypeInv, TypeOK, Busy
<1>5. QED
    BY <1>1, <1>2, <1>3, <1>4 DEF Next

\* Every variable keeps its type, whatever the interleaving: the rows, dates
\* and counts the stores hold, the requests' labels and what they carry.
THEOREM TypeCorrect == Spec => []TypeOK
<1>1. Spec => []TypeInv
    BY TypeInit, TypeStep, PTL DEF Spec
<1>2. TypeInv => TypeOK
    BY DEF TypeInv
<1>3. QED
    BY <1>1, <1>2, PTL

-----------------------------------------------------------------------------
(* The lock of a conversion is held by the one apply between its re-read and *)
(* its last write.                                                           *)

HoldsLock ==
    \A s \in Tabs : pc[s] \in LockedSteps => lock[Group(s)] = s

\* A step of s that leaves the locks and the other tabs alone, and does not
\* bring s under the lock of another group.
LEMMA QuietTab ==
    ASSUME HoldsLock, NEW s \in Tabs,
           lock' = lock,
           \A r \in Tabs \ {s} : pc'[r] = pc[r] /\ queue'[r] = queue[r],
           pc'[s] \in LockedSteps =>
               pc[s] \in LockedSteps /\ queue'[s] = queue[s]
    PROVE  HoldsLock'
    BY DEF HoldsLock, Group

\* A step of s that gives its lock back.
LEMMA LeavingTab ==
    ASSUME TypeInv, HoldsLock, NEW s \in Tabs, Unlock(s),
           pc[s] \in LockedSteps,
           pc'[s] \notin LockedSteps,
           \A r \in Tabs \ {s} : pc'[r] = pc[r] /\ queue'[r] = queue[r]
    PROVE  HoldsLock'
<1>1. ASSUME NEW r \in Tabs, pc'[r] \in LockedSteps
      PROVE  lock'[Group(r)'] = r
    <2>1. r # s /\ pc[r] \in LockedSteps /\ Group(r)' = Group(r)
        BY <1>1 DEF Group
    <2>2. lock[Group(r)] = r /\ lock[Group(s)] = s
        BY <2>1 DEF HoldsLock
    <2>3. Group(r) # Group(s)
        BY <2>1, <2>2
    <2>4. lock' = [lock EXCEPT ![Group(s)] = Nobody]
        BY DEF Unlock
    <2>5. lock'[Group(r)] = lock[Group(r)]
        <3>1. Group(r) \in Convs
            BY <2>1, GroupType DEF Labels, ServerSteps, PreviewSteps,
                RefreshSteps, ApplySteps, LockedSteps
        <3>2. lock \in [Convs -> Tabs \cup {Nobody}]
            BY DEF TypeInv, TypeOK
        <3>3. QED
            BY <2>3, <2>4, <3>1, <3>2
    <2>6. QED
        BY <2>1, <2>2, <2>5
<1>2. QED
    BY <1>1 DEF HoldsLock

\* Where a request goes when it is done with a group, or for good.
LEMMA NextGroupFrame ==
    ASSUME TypeInv, NEW s \in Tabs, NEW label \in {"ap_read", "pv_fetch", "rf_fetch"},
           \/ NextGroup(s, label)
           \/ Abort(s, "shown") \/ Abort(s, "idle")
    PROVE  /\ pc'[s] \in {label, "shown", "idle"}
           /\ \A r \in Tabs \ {s} :
                /\ pc'[r] = pc[r] /\ queue'[r] = queue[r]
                /\ plan'[r] = plan[r]
           /\ plan'[s] \in {plan[s], {}}
    BY DEF NextGroup, Abort, TypeInv, TypeOK

\* Nobody is past the lock initially.
LEMMA LockInit == Init => HoldsLock
    BY DEF Init, HoldsLock, LockedSteps

\* Every step keeps it that a tab past the lock holds it.
LEMMA LockStep == TypeInv /\ HoldsLock /\ [Next]_vars => HoldsLock'
<1> SUFFICES ASSUME TypeInv, HoldsLock, [Next]_vars
             PROVE  HoldsLock'
    OBVIOUS
<1> USE DEF Labels, ServerSteps, PreviewSteps, RefreshSteps, ApplySteps, LockedSteps
<1>1. ASSUME NEW s \in Tabs,
             Preview(s) \/ OnloadRefresh(s) \/ Submit(s) \/ PreviewStep(s)
      PROVE  HoldsLock'
    <2>1. CASE Preview(s)
        <3>1. PICK q : queue' = [queue EXCEPT ![s] = q]
            BY <2>1 DEF Preview
        <3>2. lock' = lock /\ pc' = [pc EXCEPT ![s] = "pv_fetch"]
            BY <2>1 DEF Preview, Goto
        <3>3. QED
            BY <3>1, <3>2, QuietTab DEF TypeInv, TypeOK
    <2>2. CASE Submit(s)
        BY <2>2, QuietTab DEF Submit, Goto, TypeInv, TypeOK
    <2>3. CASE BuildGroup(s)
        BY <2>3, QuietTab DEF BuildGroup, Goto, TypeInv, TypeOK
    <2>4. CASE FailedGroup(s)
        BY <2>4, NextGroupFrame, QuietTab DEF FailedGroup
    <2>5. CASE PreviewAborts(s)
        BY <2>5, NextGroupFrame, QuietTab DEF PreviewAborts
    <2>6. CASE PreviewMarkSynced(s)
        BY <2>6, QuietTab DEF PreviewMarkSynced, Goto, TypeInv, TypeOK
    <2>7. CASE PreviewSetPending(s)
        BY <2>7, NextGroupFrame, QuietTab DEF PreviewSetPending
    <2>8. CASE OnloadRefresh(s)
        <3>1. PICK q : queue' = [queue EXCEPT ![s] = q]
            BY <2>8 DEF OnloadRefresh
        <3>2. lock' = lock /\ pc' = [pc EXCEPT ![s] = "rf_fetch"]
            BY <2>8 DEF OnloadRefresh, Goto
        <3>3. QED
            BY <3>1, <3>2, QuietTab DEF TypeInv, TypeOK
    <2>9. CASE RefreshFetch(s)
        BY <2>9, QuietTab DEF RefreshFetch, Goto, TypeInv, TypeOK
    <2>10. CASE RefreshFails(s)
        BY <2>10, NextGroupFrame, QuietTab DEF RefreshFails
    <2>11. CASE RefreshSetPending(s)
        BY <2>11, NextGroupFrame, QuietTab DEF RefreshSetPending
    <2>12. QED
        BY <1>1, <2>1, <2>2, <2>3, <2>4, <2>5, <2>6, <2>7, <2>8, <2>9, <2>10,
            <2>11 DEF PreviewStep
<1>2. ASSUME NEW s \in Tabs, ApplyStep(s), ~LockedStep(s)
      PROVE  HoldsLock'
    <2>1. CASE ReadConversion(s)
        BY <2>1, QuietTab DEF ReadConversion, Goto, TypeInv, TypeOK
    <2>2. CASE SkipGroup(s)
        BY <2>2, NextGroupFrame, QuietTab DEF SkipGroup
    <2>3. CASE ConversionGone(s)
        BY <2>3, NextGroupFrame, QuietTab DEF ConversionGone
    <2>4. CASE EnterLock(s)
        <3>1. ASSUME NEW r \in Tabs, pc'[r] \in LockedSteps
              PROVE  lock'[Group(r)'] = r
            <4>1. Group(s) \in Convs /\ Group(r)' = Group(r)
                BY <2>4, GroupType DEF EnterLock, Group
            <4>2. CASE r = s
                BY <2>4, <4>1, <4>2 DEF EnterLock, TypeInv, TypeOK
            <4>3. CASE r # s
                <5>1. pc[r] \in LockedSteps
                    BY <2>4, <3>1, <4>3 DEF EnterLock, Goto, TypeInv, TypeOK
                <5>2. lock[Group(r)] = r /\ Group(r) \in Convs
                    BY <5>1, GroupType DEF HoldsLock
                <5>3. Group(r) # Group(s)
                    BY <2>4, <5>2, TabAssumption DEF EnterLock
                <5>4. QED
                    BY <2>4, <4>1, <5>2, <5>3 DEF EnterLock, TypeInv, TypeOK
            <4>4. QED
                BY <4>2, <4>3
        <3>2. QED
            BY <3>1 DEF HoldsLock
    <2>5. QED
        BY <1>2, <2>1, <2>2, <2>3, <2>4 DEF ApplyStep
<1>3. ASSUME NEW s \in Tabs, LockedStep(s)
      PROVE  HoldsLock'
    <2>1. CASE FetchForApply(s)
        <3>1. PICK label \in {"ap_sync", "ap_patch"} :
                pc' = [pc EXCEPT ![s] = label]
            BY <2>1 DEF FetchForApply, Goto
        <3>2. pc[s] = "ap_fetch" /\ UNCHANGED <<lock, queue>>
            BY <2>1 DEF FetchForApply
        <3>3. QED
            BY <3>1, <3>2, QuietTab DEF TypeInv, TypeOK
    <2>2. CASE Patch(s)
        BY <2>2, QuietTab DEF Patch, Goto, TypeInv, TypeOK
    <2>3. CASE PatchConfirmed(s)
        BY <2>3, QuietTab DEF PatchConfirmed, Goto, TypeInv, TypeOK
    <2>4. CASE ApplyMarkSynced(s)
        BY <2>4, QuietTab DEF ApplyMarkSynced, Goto, TypeInv, TypeOK
    <2>5. CASE ApplySetPending(s)
        BY <2>5, QuietTab DEF ApplySetPending, Goto, TypeInv, TypeOK
    <2>6. CASE FetchFails(s) \/ PatchRejected(s) \/ PatchTimesOut(s)
                \/ AnswerLost(s)
        <3>1. /\ pc[s] \in LockedSteps
              /\ NextGroup(s, "ap_read") \/ Abort(s, "shown")
              /\ Unlock(s)
            BY <2>6 DEF FetchFails, PatchRejected, PatchTimesOut, AnswerLost,
                LeaveWithError
        <3>2. QED
            BY <3>1, NextGroupFrame, LeavingTab
    <2>7. CASE ApplySetStartDate(s)
        <3>1. /\ pc[s] \in LockedSteps
              /\ NextGroup(s, "ap_read")
              /\ Unlock(s)
            BY <2>7 DEF ApplySetStartDate
        <3>2. QED
            BY <3>1, NextGroupFrame, LeavingTab
    <2>8. QED
        BY <1>3, <2>1, <2>2, <2>3, <2>4, <2>5, <2>6, <2>7 DEF LockedStep
<1>4. CASE ConfigStep
    <2>1. UNCHANGED <<pc, queue, lock>>
        BY <1>4 DEF ConfigStep, Delete, Create, Edit
    <2>2. QED
        BY <2>1 DEF HoldsLock, Group
<1>5. CASE WorldStep /\ ~Crash
    <2>1. UNCHANGED <<pc, queue, lock>>
        BY <1>5 DEF WorldStep, EditAmount, MarkByHand, DeleteTxn, Import,
            InYNAB, LatePatch
    <2>2. QED
        BY <2>1 DEF HoldsLock, Group
<1>6. CASE Crash
    BY <1>6 DEF Crash, HoldsLock
<1>7. CASE UNCHANGED vars
    BY <1>7 DEF vars, HoldsLock, Group
<1>8. QED
    BY <1>1, <1>2, <1>3, <1>4, <1>5, <1>6, <1>7 DEF Next, WorldStep

\* Two applies of one conversion are never both between their re-read of the
\* row and their last write, for any number of tabs and conversions.
THEOREM MutualExclusion == Spec => []LockExcludes
<1>1. Init => TypeInv /\ HoldsLock
    BY TypeInit, LockInit
<1>2. TypeInv /\ HoldsLock /\ [Next]_vars => (TypeInv /\ HoldsLock)'
    BY TypeStep, LockStep
<1>3. HoldsLock => LockExcludes
    BY DEF HoldsLock, LockExcludes
<1>4. QED
    BY <1>1, <1>2, <1>3, PTL DEF Spec

-----------------------------------------------------------------------------
(* At most once: what a conversion wrote carries a marker ever after, and no *)
(* apply that fetched before the marker is still on its way to a PATCH.      *)

WrittenIsMarked == \A c \in Convs : \A t \in wrote[c] : mark[t] # "none"
NothingLate == "late" \notin Moves => late = {}
OnceInv == TypeInv /\ HoldsLock /\ WrittenIsMarked /\ AtMostOnce /\ NothingLate

\* The steps that do not fetch for a PATCH and do not write to YNAB.
QuietStep ==
    /\ wrote' = wrote
    /\ \A t \in Txns : mark[t] # "none" => mark'[t] # "none"
    /\ "late" \notin Moves => late' = late
    /\ \A s \in Tabs : pc'[s] = "ap_patch" =>
         /\ pc[s] = "ap_patch"
         /\ safe'[s] = safe[s] /\ queue'[s] = queue[s]

\* A step fetches for a PATCH, writes to YNAB, or is quiet.
LEMMA WhichStepsWrite ==
    ASSUME TypeInv, [Next]_vars
    PROVE  \/ \E s \in Tabs : FetchForApply(s) \/ Patch(s)
           \/ LatePatch
           \/ QuietStep
<1> USE DEF Labels, ServerSteps, PreviewSteps, RefreshSteps, ApplySteps, LockedSteps
<1>1. ASSUME NEW s \in Tabs,
             Preview(s) \/ OnloadRefresh(s) \/ Submit(s) \/ PreviewStep(s)
      PROVE  QuietStep
    <2>1. UNCHANGED <<wrote, mark, late, safe>>
          \/ PreviewSetPending(s) \/ RefreshSetPending(s)
        BY <1>1 DEF Preview, OnloadRefresh, Submit, PreviewStep, BuildGroup,
            FailedGroup, PreviewAborts, PreviewMarkSynced, RefreshFetch,
            RefreshFails
    <2>2. ASSUME PreviewSetPending(s) \/ RefreshSetPending(s)
          PROVE  /\ UNCHANGED <<wrote, mark, late>>
                 /\ \A r \in Tabs \ {s} : safe'[r] = safe[r]
        BY <2>2 DEF PreviewSetPending, RefreshSetPending, ForgetWork, TypeInv, TypeOK
    <2>3. pc'[s] # "ap_patch"
        BY <1>1, NextGroupFrame DEF Preview, OnloadRefresh, Submit, PreviewStep,
            BuildGroup, FailedGroup, PreviewAborts, PreviewMarkSynced,
            PreviewSetPending, RefreshFetch, RefreshFails, RefreshSetPending,
            Goto, TypeInv, TypeOK
    <2>4. \A r \in Tabs \ {s} : pc'[r] = pc[r] /\ queue'[r] = queue[r]
        BY <1>1, NextGroupFrame DEF Preview, OnloadRefresh, Submit, PreviewStep,
            BuildGroup, FailedGroup, PreviewAborts, PreviewMarkSynced,
            PreviewSetPending, RefreshFetch, RefreshFails, RefreshSetPending,
            Goto, TypeInv, TypeOK
    <2>5. QED
        BY <2>1, <2>2, <2>3, <2>4 DEF QuietStep
<1>2. ASSUME NEW s \in Tabs,
             \/ ReadConversion(s) \/ SkipGroup(s)
             \/ EnterLock(s) \/ ConversionGone(s)
             \/ PatchConfirmed(s) \/ ApplyMarkSynced(s) \/ ApplySetPending(s)
      PROVE  QuietStep
    <2>1. UNCHANGED <<wrote, mark, late, safe>>
        BY <1>2 DEF ReadConversion, SkipGroup, EnterLock, ConversionGone,
            PatchConfirmed, ApplyMarkSynced, ApplySetPending
    <2>2. pc'[s] # "ap_patch"
        BY <1>2, NextGroupFrame DEF ReadConversion, SkipGroup, EnterLock,
            ConversionGone, PatchConfirmed, ApplyMarkSynced, ApplySetPending,
            Goto, TypeInv, TypeOK
    <2>3. \A r \in Tabs \ {s} : pc'[r] = pc[r] /\ queue'[r] = queue[r]
        BY <1>2, NextGroupFrame DEF ReadConversion, SkipGroup, EnterLock,
            ConversionGone, PatchConfirmed, ApplyMarkSynced, ApplySetPending,
            Goto, TypeInv, TypeOK
    <2>4. QED
        BY <2>1, <2>2, <2>3 DEF QuietStep
<1>3. ASSUME NEW s \in Tabs,
             \/ FetchFails(s) \/ PatchRejected(s) \/ PatchTimesOut(s)
             \/ AnswerLost(s) \/ ApplySetStartDate(s)
      PROVE  QuietStep
    <2>1. /\ UNCHANGED <<wrote, mark>>
          /\ "late" \notin Moves => late' = late
          /\ NextGroup(s, "ap_read") \/ Abort(s, "shown")
          /\ ForgetWork(s)
        BY <1>3 DEF FetchFails, PatchRejected, PatchTimesOut, AnswerLost,
            ApplySetStartDate, LeaveWithError
    <2>2. pc'[s] # "ap_patch"
        BY <2>1, NextGroupFrame
    <2>3. \A r \in Tabs \ {s} :
            pc'[r] = pc[r] /\ queue'[r] = queue[r] /\ safe'[r] = safe[r]
        BY <2>1, NextGroupFrame DEF ForgetWork, TypeInv, TypeOK
    <2>4. QED
        BY <2>1, <2>2, <2>3 DEF QuietStep
<1>4. CASE ConfigStep
    BY <1>4 DEF ConfigStep, Delete, Create, Edit, QuietStep
<1>5. ASSUME NEW t \in Txns,
             EditAmount(t) \/ MarkByHand(t) \/ DeleteTxn(t) \/ Import(t)
      PROVE  QuietStep
    <2>1. UNCHANGED <<wrote, late, pc, queue, safe>>
        BY <1>5 DEF EditAmount, MarkByHand, DeleteTxn, Import, InYNAB
    <2>2. mark' = mark \/ \E m \in Marks \ {"none"} : mark' = [mark EXCEPT ![t] = m]
        BY <1>5 DEF EditAmount, MarkByHand, DeleteTxn, Import
    <2>3. QED
        BY <2>1, <2>2 DEF QuietStep, TypeInv, TypeOK
<1>6. CASE Crash
    BY <1>6 DEF Crash, QuietStep
<1>7. CASE UNCHANGED vars
    BY <1>7 DEF vars, QuietStep
<1>8. QED
    BY <1>1, <1>2, <1>3, <1>4, <1>5, <1>6, <1>7
    DEF Next, ApplyStep, LockedStep, WorldStep

\* What YNAB stores is marked, and no marker is taken away.
LEMMA StoreMarks ==
    ASSUME TypeInv, NEW updates \in SUBSET Updates, Store(updates)
    PROVE  \A t \in Txns :
             t \in Ids(updates) \/ mark[t] # "none" => mark'[t] # "none"
<1>1. \A u \in updates : NewMark(u) # "none"
    BY DEF NewMark
<1>2. ASSUME NEW t \in Txns, \E u \in updates : u.id = t
      PROVE  mark'[t] # "none"
    <2>1. (CHOOSE u \in updates : u.id = t) \in updates
        BY <1>2
    <2>2. mark'[t] = NewMark(CHOOSE u \in updates : u.id = t)
        BY <1>2 DEF Store
    <2>3. QED
        BY <1>1, <2>1, <2>2
<1>3. ASSUME NEW t \in Txns, ~ \E u \in updates : u.id = t
      PROVE  mark'[t] = mark[t]
    BY <1>3 DEF Store
<1>4. QED
    BY <1>2, <1>3 DEF Ids

\* Nothing is written initially.
LEMMA OnceInit == Init => OnceInv
<1>1. Init => WrittenIsMarked /\ AtMostOnce /\ NothingLate
    BY DEF Init, WrittenIsMarked, AtMostOnce, NothingLate
<1>2. QED
    BY <1>1, TypeInit, LockInit DEF OnceInv

\* Without late PATCHes every step keeps it that what was written is marked.
LEMMA OnceStep ==
    ASSUME "late" \notin Moves, OnceInv, [Next]_vars
    PROVE  OnceInv'
<1>1. TypeInv /\ HoldsLock /\ TypeInv' /\ HoldsLock' /\ late = {}
    BY TypeStep, LockStep DEF OnceInv, NothingLate
<1>2. CASE QuietStep
    <2>1. WrittenIsMarked'
        BY <1>1, <1>2 DEF QuietStep, OnceInv, WrittenIsMarked, TypeInv, TypeOK
    <2>2. AtMostOnce'
        BY <1>2 DEF QuietStep, OnceInv, AtMostOnce, Group
    <2>3. QED
        BY <1>1, <1>2, <2>1, <2>2 DEF QuietStep, OnceInv, NothingLate
<1>3. ASSUME NEW s \in Tabs, FetchForApply(s)
      PROVE  OnceInv'
    <2>1. UNCHANGED <<wrote, mark, late, queue>> /\ Group(s) \in Convs
        BY <1>1, <1>3, GroupType DEF FetchForApply, ServerSteps, ApplySteps,
            LockedSteps
    <2>2. \A u \in safe'[s] : ~IsExcluded(u.id) /\ u.id \in Txns
        BY <1>1, <1>3 DEF FetchForApply, IsSafe, GetTransactions, TypeInv,
            TypeOK
    <2>3. \A u \in safe'[s] : u.id \notin wrote[Group(s)]
        BY <1>1, <2>1, <2>2 DEF IsExcluded, IsConverted, IsSkipped, OnceInv,
            WrittenIsMarked, TypeInv, TypeOK, Marks
    <2>4. \A r \in Tabs \ {s} : pc'[r] = pc[r] /\ safe'[r] = safe[r]
        BY <1>1, <1>3 DEF FetchForApply, Goto, TypeInv, TypeOK
    <2>5. AtMostOnce'
        BY <2>1, <2>3, <2>4 DEF OnceInv, AtMostOnce, Group, Ids
    <2>6. QED
        BY <1>1, <2>1, <2>5 DEF OnceInv, WrittenIsMarked, NothingLate
<1>4. ASSUME NEW s \in Tabs, Patch(s)
      PROVE  OnceInv'
    <2>1. PICK done \in SUBSET {u \in safe[s] : st[u.id] = "present"} :
             /\ Store(done)
             /\ wrote' = [wrote EXCEPT ![Group(s)] = @ \cup Ids(done)]
        BY <1>4 DEF Patch
    <2>2. done \in SUBSET Updates
        BY <1>1 DEF TypeInv, TypeOK
    <2>3. \A t \in Txns : t \in Ids(done) \/ mark[t] # "none"
                          => mark'[t] # "none"
        BY <1>1, <2>1, <2>2, StoreMarks
    <2>4. pc[s] = "ap_patch" /\ Group(s) \in Convs
        BY <1>1, <1>4, GroupType DEF Patch, ServerSteps, ApplySteps, LockedSteps
    <2>5. WrittenIsMarked'
        <3>1. ASSUME NEW c \in Convs, NEW t \in wrote'[c]
              PROVE  t \in wrote[c] \/ t \in Ids(done)
            BY <1>1, <2>1, <2>4, <3>1 DEF TypeInv, TypeOK
        <3>2. \A c \in Convs : \A t \in wrote'[c] : t \in Txns
            BY <1>1 DEF TypeInv, TypeOK
        <3>3. QED
            BY <2>3, <3>1, <3>2 DEF WrittenIsMarked, OnceInv
    <2>6. ASSUME NEW r \in Tabs, pc'[r] = "ap_patch"
          PROVE  Ids(safe'[r]) \cap wrote'[Group(r)'] = {}
        <3>1. /\ r # s /\ pc[r] = "ap_patch"
              /\ safe'[r] = safe[r] /\ Group(r)' = Group(r)
            BY <1>1, <1>4, <2>6 DEF Patch, Goto, Group, TypeInv, TypeOK
        <3>2. Group(r) # Group(s)
            BY <1>1, <2>4, <3>1 DEF HoldsLock, LockedSteps
        <3>3. wrote'[Group(r)] = wrote[Group(r)]
            <4>1. Group(r) \in Convs
                BY <1>1, <3>1, GroupType DEF ServerSteps, ApplySteps,
                    LockedSteps
            <4>2. QED
                BY <1>1, <2>1, <3>2, <4>1 DEF TypeInv, TypeOK
        <3>4. QED
            BY <3>1, <3>3 DEF OnceInv, AtMostOnce
    <2>7. late' = late
        BY <1>4 DEF Patch
    <2>8. QED
        BY <1>1, <2>5, <2>6, <2>7 DEF OnceInv, AtMostOnce, NothingLate
<1>5. ~LatePatch
    BY <1>1 DEF LatePatch
<1>6. QED
    BY <1>1, <1>2, <1>3, <1>4, <1>5, WhichStepsWrite

\* When YNAB does not process a PATCH after the client gave up on it, an apply
\* never holds a PATCH with a transaction that an apply of the same conversion
\* already wrote: double clicks, stale tabs, retries after a lost answer,
\* restarts and settings edits write each transaction once.
THEOREM WrittenOnce ==
    ASSUME "late" \notin Moves
    PROVE  Spec => []AtMostOnce
<1>1. Init => OnceInv
    BY OnceInit
<1>2. OnceInv /\ [Next]_vars => OnceInv'
    BY OnceStep
<1>3. OnceInv => AtMostOnce
    BY DEF OnceInv
<1>4. QED
    BY <1>1, <1>2, <1>3, PTL DEF Spec

-----------------------------------------------------------------------------
(* Never converted twice: an amount that is a conversion carries a marker,   *)
(* so whatever a page, a submission, a PATCH on its way or a late one holds  *)
(* is an amount as the user typed it.                                        *)

AsTyped(holders) == \A h \in holders : h.original.k = 0
ConvertedIsMarked ==
    \A t \in Txns : amt[t].k <= 1 /\ (mark[t] = "none" => amt[t].k = 0)
CleanInv ==
    /\ TypeInv
    /\ ConvertedIsMarked
    /\ AsTyped(late)
    /\ \A s \in Tabs : AsTyped(form[s]) /\ AsTyped(plan[s]) /\ AsTyped(safe[s])

\* Storing updates taken from unconverted amounts leaves none converted twice.
LEMMA StoreClean ==
    ASSUME TypeInv, ConvertedIsMarked, NEW updates \in SUBSET Updates,
           AsTyped(updates), Store(updates)
    PROVE  ConvertedIsMarked'
<1>1. ASSUME NEW u \in updates
      PROVE  NewAmount(u).k <= 1 /\ NewMark(u) # "none"
    <2>1. u \in Updates /\ u.original.k = 0 /\ u.original \in Amounts
          /\ u.id \in Txns
        BY DEF AsTyped, Updates
    <2>2. ConvertMilliunits(u.original).k = 1
        BY <2>1 DEF ConvertMilliunits, Amounts
    <2>3. amt[u.id].k <= 1
        BY <2>1 DEF ConvertedIsMarked
    <2>4. QED
        BY <2>2, <2>3 DEF NewAmount, NewMark
<1>2. ASSUME NEW t \in Txns
      PROVE  amt'[t].k <= 1 /\ (mark'[t] = "none" => amt'[t].k = 0)
    <2>1. CASE \E u \in updates : u.id = t
        <3> DEFINE w == CHOOSE u \in updates : u.id = t
        <3>1. w \in updates
            BY <2>1
        <3>2. amt'[t] = NewAmount(w) /\ mark'[t] = NewMark(w)
            BY <2>1 DEF Store
        <3>3. QED
            BY <1>1, <3>1, <3>2
    <2>2. CASE ~ \E u \in updates : u.id = t
        BY <2>2 DEF Store, ConvertedIsMarked
    <2>3. QED
        BY <2>1, <2>2
<1>3. QED
    BY <1>2 DEF ConvertedIsMarked

\* What a request carries is only ever dropped by the steps that end its work.
LEMMA ForgetClean ==
    ASSUME TypeInv, NEW s \in Tabs, AsTyped(safe[s]), ForgetWork(s)
    PROVE  AsTyped(safe'[s]) /\ \A r \in Tabs \ {s} : safe'[r] = safe[r]
    BY DEF ForgetWork, AsTyped, TypeInv, TypeOK

\* No amount is converted initially.
LEMMA CleanInit == Init => CleanInv
<1>1. Init => TypeInv
    BY TypeInit
<1>2. QED
    BY <1>1 DEF Init, CleanInv, ConvertedIsMarked, AsTyped

\* Every step keeps it that only unconverted amounts are proposed and sent.
LEMMA CleanStep == CleanInv /\ [Next]_vars => CleanInv'
<1> SUFFICES ASSUME CleanInv, [Next]_vars
             PROVE  CleanInv'
    OBVIOUS
<1> USE DEF CleanInv
<1>t. TypeInv /\ TypeInv'
    BY TypeStep
<1>1. ASSUME NEW s \in Tabs,
             Preview(s) \/ OnloadRefresh(s) \/ Submit(s) \/ PreviewStep(s)
      PROVE  CleanInv'
    <2>1. CASE Preview(s)
        <3>1. UNCHANGED <<amt, mark, late, plan, safe>>
              /\ form' = [form EXCEPT ![s] = {}]
            BY <2>1 DEF Preview
        <3>2. QED
            BY <1>t, <3>1 DEF AsTyped, ConvertedIsMarked, TypeInv, TypeOK
    <2>2. CASE Submit(s)
        <3>1. PICK rows \in SUBSET form[s] : \E act \in [rows -> Picks] :
                plan' = [plan EXCEPT ![s] =
                   {[conv |-> r.conv, id |-> r.id, original |-> r.original,
                     action |-> act[r]] : r \in rows}]
            BY <2>2 DEF Submit
        <3>2. AsTyped(plan'[s])
            BY <1>t, <3>1 DEF AsTyped, TypeInv, TypeOK
        <3>3. /\ \A r \in Tabs \ {s} : plan'[r] = plan[r]
              /\ UNCHANGED <<amt, mark, late, form, safe>>
            BY <1>t, <2>2, <3>1 DEF Submit, TypeInv, TypeOK
        <3>4. QED
            BY <1>t, <3>2, <3>3 DEF ConvertedIsMarked, AsTyped
    <2>3. CASE BuildGroup(s)
        <3>1. UNCHANGED <<amt, mark, late, plan, safe>>
            BY <2>3 DEF BuildGroup
        <3>2. PICK found \in SUBSET {t \in Txns : IsConvertible(t)} :
                form' = [form EXCEPT ![s] = @ \cup
                  {[conv |-> Group(s), id |-> t, original |-> amt[t]] :
                     t \in found}]
            BY <2>3 DEF BuildGroup, GetTransactions
        <3>3. \A t \in found : amt[t].k = 0
            BY <1>t, <3>2 DEF IsConvertible, IsExcluded, IsConverted,
                IsSkipped, ConvertedIsMarked, TypeInv, TypeOK, Marks
        <3>4. AsTyped(form'[s]) /\ \A r \in Tabs \ {s} : form'[r] = form[r]
            BY <1>t, <3>2, <3>3 DEF AsTyped, TypeInv, TypeOK
        <3>5. QED
            BY <1>t, <3>1, <3>4 DEF ConvertedIsMarked, AsTyped
    <2>4. CASE FailedGroup(s)
        BY <1>t, <2>4, NextGroupFrame
        DEF FailedGroup, ConvertedIsMarked, AsTyped
    <2>5. CASE PreviewAborts(s)
        <3>1. UNCHANGED <<amt, mark, late, safe>> /\ Abort(s, "idle")
              /\ form' = [form EXCEPT ![s] = {}]
            BY <2>5 DEF PreviewAborts
        <3>2. \A r \in Tabs : plan'[r] \in {plan[r], {}}
                              /\ form'[r] \in {form[r], {}}
            BY <1>t, <3>1, NextGroupFrame DEF TypeInv, TypeOK
        <3>3. QED
            BY <1>t, <3>1, <3>2 DEF ConvertedIsMarked, AsTyped
    <2>6. CASE PreviewMarkSynced(s)
        BY <1>t, <2>6 DEF PreviewMarkSynced, ConvertedIsMarked, AsTyped
    <2>7. CASE PreviewSetPending(s)
        <3>1. UNCHANGED <<amt, mark, late, form>>
            BY <2>7 DEF PreviewSetPending
        <3>2. \A r \in Tabs : AsTyped(plan'[r]) /\ AsTyped(safe'[r])
            BY <1>t, <2>7, NextGroupFrame, ForgetClean
            DEF PreviewSetPending, AsTyped
        <3>3. QED
            BY <1>t, <3>1, <3>2 DEF ConvertedIsMarked, AsTyped
    <2>8. CASE OnloadRefresh(s)
        <3>1. UNCHANGED <<amt, mark, late, plan, safe>>
              /\ form' = [form EXCEPT ![s] = {}]
            BY <2>8 DEF OnloadRefresh
        <3>2. QED
            BY <1>t, <3>1 DEF AsTyped, ConvertedIsMarked, TypeInv, TypeOK
    <2>9. CASE RefreshFetch(s)
        BY <1>t, <2>9 DEF RefreshFetch, ConvertedIsMarked, AsTyped
    <2>10. CASE RefreshFails(s)
        BY <1>t, <2>10, NextGroupFrame
        DEF RefreshFails, ConvertedIsMarked, AsTyped
    <2>11. CASE RefreshSetPending(s)
        <3>1. UNCHANGED <<amt, mark, late, form>>
            BY <2>11 DEF RefreshSetPending
        <3>2. \A r \in Tabs : AsTyped(plan'[r]) /\ AsTyped(safe'[r])
            BY <1>t, <2>11, NextGroupFrame, ForgetClean
            DEF RefreshSetPending, AsTyped
        <3>3. QED
            BY <1>t, <3>1, <3>2 DEF ConvertedIsMarked, AsTyped
    <2>12. QED
        BY <1>1, <2>1, <2>2, <2>3, <2>4, <2>5, <2>6, <2>7, <2>8, <2>9, <2>10,
            <2>11 DEF PreviewStep
<1>2. ASSUME NEW s \in Tabs,
             \/ ReadConversion(s) \/ SkipGroup(s)
             \/ EnterLock(s) \/ ConversionGone(s)
             \/ PatchConfirmed(s) \/ ApplyMarkSynced(s) \/ ApplySetPending(s)
      PROVE  CleanInv'
    <2>1. UNCHANGED <<amt, mark, late, form, safe>>
        BY <1>2 DEF ReadConversion, SkipGroup, EnterLock, ConversionGone,
            PatchConfirmed, ApplyMarkSynced, ApplySetPending
    <2>2. \A r \in Tabs : plan'[r] \in {plan[r], {}}
        BY <1>t, <1>2, NextGroupFrame DEF ReadConversion, SkipGroup, EnterLock,
            ConversionGone, PatchConfirmed, ApplyMarkSynced, ApplySetPending
    <2>3. QED
        BY <1>t, <2>1, <2>2 DEF ConvertedIsMarked, AsTyped
<1>3. ASSUME NEW s \in Tabs,
             \/ FetchFails(s) \/ PatchRejected(s) \/ PatchTimesOut(s)
             \/ AnswerLost(s) \/ ApplySetStartDate(s)
      PROVE  CleanInv'
    <2>1. /\ UNCHANGED <<amt, mark, form>>
          /\ late' = late \/ late' = late \cup safe[s]
          /\ NextGroup(s, "ap_read") \/ Abort(s, "shown")
          /\ ForgetWork(s)
        BY <1>3 DEF FetchFails, PatchRejected, PatchTimesOut, AnswerLost,
            ApplySetStartDate, LeaveWithError
    <2>2. \A r \in Tabs : AsTyped(plan'[r]) /\ AsTyped(safe'[r])
        BY <1>t, <2>1, NextGroupFrame, ForgetClean DEF AsTyped
    <2>3. AsTyped(late')
        BY <2>1 DEF AsTyped
    <2>4. QED
        BY <1>t, <2>1, <2>2, <2>3 DEF ConvertedIsMarked, AsTyped
<1>4. ASSUME NEW s \in Tabs, FetchForApply(s)
      PROVE  CleanInv'
    <2>1. UNCHANGED <<amt, mark, late, form, plan>>
        BY <1>4 DEF FetchForApply
    <2>2. safe'[s] \subseteq plan[s] /\ \A r \in Tabs \ {s} : safe'[r] = safe[r]
        BY <1>t, <1>4 DEF FetchForApply, GroupPlan, TypeInv, TypeOK
    <2>3. QED
        BY <1>t, <2>1, <2>2 DEF ConvertedIsMarked, AsTyped
<1>5. ASSUME NEW s \in Tabs, Patch(s)
      PROVE  CleanInv'
    <2>1. PICK done \in SUBSET {u \in safe[s] : st[u.id] = "present"} :
            Store(done)
        BY <1>5 DEF Patch
    <2>2. done \in SUBSET Updates /\ AsTyped(done)
        BY <1>t DEF AsTyped, TypeInv, TypeOK
    <2>3. ConvertedIsMarked'
        BY <1>t, <2>1, <2>2, StoreClean
    <2>4. UNCHANGED <<late, form, plan, safe>>
        BY <1>5 DEF Patch
    <2>5. QED
        BY <1>t, <2>3, <2>4 DEF AsTyped
<1>6. CASE ConfigStep
    BY <1>t, <1>6 DEF ConfigStep, Delete, Create, Edit, ConvertedIsMarked,
        AsTyped
<1>7. ASSUME NEW t \in Txns,
             EditAmount(t) \/ MarkByHand(t) \/ DeleteTxn(t) \/ Import(t)
      PROVE  CleanInv'
    <2>1. UNCHANGED <<late, form, plan, safe>>
        BY <1>7 DEF EditAmount, MarkByHand, DeleteTxn, Import, InYNAB
    <2>2. \/ UNCHANGED <<amt, mark>>
          \/ /\ \E v \in Values : amt' = [amt EXCEPT ![t] = [v |-> v, k |-> 0]]
             /\ UNCHANGED mark
          \/ /\ \E m \in Marks \ {"none"} : mark' = [mark EXCEPT ![t] = m]
             /\ UNCHANGED amt
        BY <1>7 DEF EditAmount, MarkByHand, DeleteTxn, Import
    <2>3. ConvertedIsMarked'
        BY <1>t, <2>2 DEF ConvertedIsMarked, TypeInv, TypeOK
    <2>4. QED
        BY <1>t, <2>1, <2>3 DEF AsTyped
<1>8. CASE LatePatch
    <2>1. PICK u \in late : Store({u}) \/ UNCHANGED <<amt, mark>>
        BY <1>8 DEF LatePatch
    <2>2. {u} \in SUBSET Updates /\ AsTyped({u})
        BY <1>t DEF AsTyped, TypeInv, TypeOK
    <2>3. ConvertedIsMarked'
        <3>1. CASE Store({u})
            BY <1>t, <2>2, <3>1, StoreClean
        <3>2. CASE UNCHANGED <<amt, mark>>
            BY <3>2 DEF ConvertedIsMarked
        <3>3. QED
            BY <2>1, <3>1, <3>2
    <2>4. late' \subseteq late /\ UNCHANGED <<form, plan, safe>>
        BY <1>8 DEF LatePatch
    <2>5. QED
        BY <1>t, <2>3, <2>4 DEF AsTyped
<1>9. CASE Crash
    <2>1. UNCHANGED <<amt, mark>>
        BY <1>9 DEF Crash
    <2>2. AsTyped(late')
        BY <1>t, <1>9 DEF Crash, Sent, AsTyped
    <2>3. \A s \in Tabs : /\ form'[s] \in {form[s], {}}
                          /\ plan'[s] = {} /\ safe'[s] = {}
        BY <1>9 DEF Crash
    <2>4. QED
        BY <1>t, <2>1, <2>2, <2>3 DEF ConvertedIsMarked, AsTyped
<1>10. CASE UNCHANGED vars
    BY <1>t, <1>10 DEF vars, ConvertedIsMarked, AsTyped
<1>11. QED
    BY <1>1, <1>2, <1>3, <1>4, <1>5, <1>6, <1>7, <1>8, <1>9, <1>10
    DEF Next, ApplyStep, LockedStep, WorldStep

\* No amount is ever the conversion of a converted amount, with any number of
\* tabs, stale pages, late PATCHes, restarts and edits.
THEOREM NeverConvertedTwice == Spec => []NoDoubleConversion
<1>1. CleanInv => NoDoubleConversion
    BY DEF CleanInv, ConvertedIsMarked, NoDoubleConversion
<1>2. CleanInv /\ [Next]_vars => CleanInv'
    BY CleanStep
<1>3. QED
    BY <1>1, <1>2, CleanInit, PTL DEF Spec

-----------------------------------------------------------------------------
(* What the user typed is kept: an update that would convert an amount was   *)
(* computed from the one typed last, or was under way when it was typed.     *)

\* While a request is between its fetch and its PATCH, its updates stay.
LEMMA SentFrame ==
    ASSUME TypeInv, [Next]_vars, NEW s \in Tabs, pc'[s] = "ap_patch"
    PROVE  FetchForApply(s) \/ (pc[s] = "ap_patch" /\ safe'[s] = safe[s])
<1>1. CASE QuietStep
    BY <1>1 DEF QuietStep
<1>2. ASSUME NEW r \in Tabs, FetchForApply(r), r # s
      PROVE  pc[s] = "ap_patch" /\ safe'[s] = safe[s]
    BY <1>2 DEF FetchForApply, Goto, TypeInv, TypeOK
<1>3. ASSUME NEW r \in Tabs, Patch(r)
      PROVE  pc[s] = "ap_patch" /\ safe'[s] = safe[s]
    <2>1. r # s
        BY <1>3 DEF Patch, Goto, TypeInv, TypeOK
    <2>2. QED
        BY <1>3, <2>1 DEF Patch, Goto, TypeInv, TypeOK
<1>4. CASE LatePatch
    BY <1>4 DEF LatePatch
<1>5. QED
    BY <1>1, <1>2, <1>3, <1>4, WhichStepsWrite

\* Who changes the transactions themselves.
LEMMA WhoWrites ==
    ASSUME TypeInv, [Next]_vars
    PROVE  \/ UNCHANGED <<st, amt, mark>>
           \/ \E s \in Tabs : Patch(s)
           \/ LatePatch
           \/ \E t \in Txns : EditAmount(t) \/ MarkByHand(t) \/ DeleteTxn(t)
                             \/ Import(t)
<1>1. ASSUME NEW s \in Tabs,
             Preview(s) \/ OnloadRefresh(s) \/ Submit(s) \/ PreviewStep(s)
      PROVE  UNCHANGED <<st, amt, mark>>
    BY <1>1 DEF Preview, OnloadRefresh, Submit, PreviewStep, BuildGroup,
        FailedGroup, PreviewAborts, PreviewMarkSynced, PreviewSetPending,
        RefreshFetch, RefreshFails, RefreshSetPending
<1>2. ASSUME NEW s \in Tabs, ApplyStep(s), ~Patch(s)
      PROVE  UNCHANGED <<st, amt, mark>>
    BY <1>2 DEF ApplyStep, LockedStep, ReadConversion, SkipGroup, EnterLock,
        ConversionGone, FetchForApply, FetchFails, PatchRejected,
        PatchTimesOut, PatchConfirmed, AnswerLost, ApplyMarkSynced,
        ApplySetPending, ApplySetStartDate
<1>3. CASE ConfigStep
    BY <1>3 DEF ConfigStep, Delete, Create, Edit
<1>4. CASE Crash \/ UNCHANGED vars
    BY <1>4 DEF Crash, vars
<1>5. QED
    BY <1>1, <1>2, <1>3, <1>4 DEF Next, WorldStep

\* Every conversion among the updates is of an amount the user meant.
Meant(updates) ==
    \A u \in updates : u.action = "convert" => u.original.v \in typed[u.id]
KeptInv ==
    /\ TypeInv
    /\ EditsAreKept
    /\ Meant(late)
    /\ \A s \in Tabs : pc[s] = "ap_patch" => Meant(safe[s])

\* A PATCH becomes late only from under way, and only typing counts as typing.
LEMMA TypedFrame ==
    ASSUME TypeInv, [Next]_vars
    PROVE  /\ late' \subseteq late \cup Sent
           /\ typed' = typed \/ \E t \in Txns : EditAmount(t)
<1>1. ASSUME NEW s \in Tabs,
             Preview(s) \/ OnloadRefresh(s) \/ Submit(s) \/ PreviewStep(s)
      PROVE  UNCHANGED <<late, typed>>
    BY <1>1 DEF Preview, OnloadRefresh, Submit, PreviewStep, BuildGroup,
        FailedGroup, PreviewAborts, PreviewMarkSynced, PreviewSetPending,
        RefreshFetch, RefreshFails, RefreshSetPending
<1>2. ASSUME NEW s \in Tabs, ApplyStep(s)
      PROVE  late' \subseteq late \cup Sent /\ typed' = typed
    <2>1. CASE PatchTimesOut(s)
        BY <2>1 DEF PatchTimesOut, Sent
    <2>2. CASE ~PatchTimesOut(s)
        BY <1>2, <2>2 DEF ApplyStep, LockedStep, ReadConversion, SkipGroup,
            EnterLock, ConversionGone, FetchForApply, FetchFails, Patch,
            PatchRejected, PatchConfirmed, AnswerLost, ApplyMarkSynced,
            ApplySetPending, ApplySetStartDate
    <2>3. QED
        BY <2>1, <2>2
<1>3. CASE ConfigStep
    BY <1>3 DEF ConfigStep, Delete, Create, Edit
<1>4. CASE WorldStep
    BY <1>4 DEF WorldStep, EditAmount, MarkByHand, DeleteTxn, Import, InYNAB,
        LatePatch, Crash
<1>5. CASE UNCHANGED vars
    BY <1>5 DEF vars
<1>6. QED
    BY <1>1, <1>2, <1>3, <1>4, <1>5 DEF Next

\* Storing such updates leaves amounts that were meant.
LEMMA StoreKept ==
    ASSUME TypeInv, EditsAreKept, NEW updates \in SUBSET Updates,
           Meant(updates), Store(updates), typed' = typed
    PROVE  EditsAreKept'
<1>1. ASSUME NEW u \in updates
      PROVE  NewAmount(u).v \in typed[u.id]
    <2>1. u \in Updates /\ u.original \in Amounts /\ u.id \in Txns
        BY DEF Updates
    <2>2. ConvertMilliunits(u.original).v = u.original.v
        BY <2>1 DEF ConvertMilliunits, Amounts
    <2>3. QED
        BY <2>1, <2>2 DEF NewAmount, Meant, EditsAreKept
<1>2. ASSUME NEW t \in Txns
      PROVE  amt'[t].v \in typed[t]
    <2>1. CASE \E u \in updates : u.id = t
        <3> DEFINE w == CHOOSE u \in updates : u.id = t
        <3>1. w \in updates /\ w.id = t
            BY <2>1
        <3>2. amt'[t] = NewAmount(w)
            BY <2>1 DEF Store
        <3>3. QED
            BY <1>1, <3>1, <3>2
    <2>2. CASE ~ \E u \in updates : u.id = t
        BY <2>2 DEF Store, EditsAreKept
    <2>3. QED
        BY <2>1, <2>2
<1>3. QED
    BY <1>2 DEF EditsAreKept

\* Every step keeps it that only amounts the user meant are on their way.
LEMMA KeptStep == KeptInv /\ [Next]_vars => KeptInv'
<1> SUFFICES ASSUME KeptInv, [Next]_vars
             PROVE  KeptInv'
    OBVIOUS
<1>1. TypeInv /\ TypeInv' /\ EditsAreKept /\ Meant(late) /\ Meant(Sent)
    BY TypeStep DEF KeptInv, Sent, Meant
<1>2. late' \subseteq late \cup Sent
    BY <1>1, TypedFrame
<1>3. CASE typed' = typed
    <2>1. Meant(late)'
        BY <1>1, <1>2, <1>3 DEF Meant
    <2>2. ASSUME NEW s \in Tabs, pc'[s] = "ap_patch"
          PROVE  Meant(safe[s])'
        <3>1. CASE FetchForApply(s)
            <4>1. \A u \in safe'[s] :
                    IsSafe(u, GetTransactions(snap[s][Group(s)].acct,
                                              snap[s][Group(s)].start))
                BY <1>1, <3>1 DEF FetchForApply, TypeInv, TypeOK
            <4>2. \A u \in safe'[s] :
                    u.id \in Txns /\ (u.action = "skip" \/ amt[u.id] = u.original)
                BY <4>1 DEF IsSafe, GetTransactions
            <4>3. QED
                BY <1>1, <1>3, <4>2 DEF Meant, EditsAreKept
        <3>2. CASE pc[s] = "ap_patch" /\ safe'[s] = safe[s]
            BY <1>3, <3>2 DEF KeptInv, Meant
        <3>3. QED
            BY <1>1, <2>2, <3>1, <3>2, SentFrame
    <2>3. EditsAreKept'
        <3>1. CASE UNCHANGED <<st, amt, mark>>
            BY <1>1, <1>3, <3>1 DEF EditsAreKept
        <3>2. ASSUME NEW s \in Tabs, Patch(s)
              PROVE  EditsAreKept'
            <4>1. PICK done \in SUBSET {u \in safe[s] : st[u.id] = "present"} :
                    Store(done)
                BY <3>2 DEF Patch
            <4>2. done \in SUBSET Updates /\ Meant(done)
                BY <1>1, <3>2 DEF Patch, KeptInv, Meant, TypeInv, TypeOK
            <4>3. QED
                BY <1>1, <1>3, <4>1, <4>2, StoreKept
        <3>3. CASE LatePatch
            <4>1. PICK u \in late : Store({u}) \/ UNCHANGED amt
                BY <3>3 DEF LatePatch
            <4>2. {u} \in SUBSET Updates /\ Meant({u})
                BY <1>1 DEF Meant, TypeInv, TypeOK
            <4>3. QED
                BY <1>1, <1>3, <4>1, <4>2, StoreKept DEF EditsAreKept
        <3>4. ASSUME NEW t \in Txns, EditAmount(t)
              PROVE  EditsAreKept'
            <4>1. PICK v \in Values :
                    /\ amt' = [amt EXCEPT ![t] = [v |-> v, k |-> 0]]
                    /\ typed' = [typed EXCEPT ![t] = {v} \cup UnderWay(t)]
                BY <3>4 DEF EditAmount
            <4>2. QED
                BY <1>1, <4>1 DEF EditsAreKept, TypeInv, TypeOK
        <3>5. ASSUME NEW t \in Txns, MarkByHand(t) \/ DeleteTxn(t) \/ Import(t)
              PROVE  EditsAreKept'
            BY <1>1, <1>3, <3>5 DEF MarkByHand, DeleteTxn, Import, EditsAreKept
        <3>6. QED
            BY <1>1, <3>1, <3>2, <3>3, <3>4, <3>5, WhoWrites
    <2>4. QED
        BY <1>1, <2>1, <2>2, <2>3 DEF KeptInv
<1>4. ASSUME NEW t \in Txns, EditAmount(t)
      PROVE  KeptInv'
    <2>1. PICK v \in Values :
            /\ amt' = [amt EXCEPT ![t] = [v |-> v, k |-> 0]]
            /\ typed' = [typed EXCEPT ![t] = {v} \cup UnderWay(t)]
        BY <1>4 DEF EditAmount
    <2>2. UNCHANGED <<late, pc, safe>>
        BY <1>4 DEF EditAmount, InYNAB
    <2>3. ASSUME NEW u \in late \cup Sent, u.action = "convert"
          PROVE  u.original.v \in typed'[u.id]
        <3>1. u.original.v \in typed[u.id] /\ u.id \in Txns
            BY <1>1, <2>3 DEF Meant, Sent, Updates, TypeInv, TypeOK
        <3>2. CASE u.id = t
            BY <1>1, <2>1, <2>3, <3>2 DEF UnderWay, TypeInv, TypeOK
        <3>3. CASE u.id # t
            BY <1>1, <2>1, <3>1, <3>3 DEF TypeInv, TypeOK
        <3>4. QED
            BY <3>2, <3>3
    <2>4. EditsAreKept'
        BY <1>1, <2>1 DEF EditsAreKept, TypeInv, TypeOK
    <2>5. QED
        BY <1>1, <2>2, <2>3, <2>4 DEF KeptInv, Meant, Sent
<1>5. QED
    BY <1>1, <1>3, <1>4, TypedFrame

\* With any number of tabs, stale pages, late PATCHes, restarts and hand edits,
\* an amount the user typed is only ever overwritten by its own conversion, or
\* by a PATCH that was under way when it was typed.
THEOREM TypedIsKept == Spec => []EditsAreKept
<1>1. Init => KeptInv
    <2>1. Init => EditsAreKept /\ Meant(late)
                  /\ \A s \in Tabs : pc[s] # "ap_patch"
        BY DEF Init, EditsAreKept, Meant
    <2>2. QED
        BY <2>1, TypeInit DEF KeptInv
<1>2. KeptInv => EditsAreKept
    BY DEF KeptInv
<1>3. QED
    BY <1>1, <1>2, KeptStep, PTL DEF Spec

-----------------------------------------------------------------------------
(* The floor: a request past its fetch has fetched whatever its conversion   *)
(* owes, unless an edit overtook it, because the lock keeps others from      *)
(* fetching for it; what YNAB confirmed is marked; so the date it leaves is  *)
(* before all that is owed.                                                  *)

PastFetch == {"ap_patch", "ap_answer", "ap_sync", "ap_badge", "ap_floor"}
\* The account fetched is the one of the row.
LockedKnown ==
    \A s \in Tabs : pc[s] \in LockedSteps =>
        /\ Group(s) \in used
        /\ ~overtaken[s] => snap[s][Group(s)].acct = acct[Group(s)]
OwedFetched ==
    \A s \in Tabs : pc[s] \in PastFetch /\ ~overtaken[s] =>
        \A t \in owed[Group(s)] : t \in open[s] /\ Date[t] >= start[Group(s)]
ConfirmedMarked == \A s \in Tabs : \A t \in conf[s] : mark[t] # "none"
HideInv ==
    /\ TypeInv /\ HoldsLock /\ live \subseteq used
    /\ LockedKnown /\ OwedFetched /\ ConfirmedMarked

\* What each step may change of what the floor depends on.
FloorFramed ==
    /\ \A s \in Tabs : pc'[s] \in PastFetch =>
         \/ FetchForApply(s)
         \/ pc[s] \in PastFetch /\ queue'[s] = queue[s] /\ open'[s] = open[s]
    /\ \A s \in Tabs : conf'[s] \in {conf[s], {}} \/ Patch(s)
    /\ \A c \in Convs : \/ owed'[c] \in {owed[c], {}}
                       \/ Edit(c)
                       \/ \E s \in Tabs : FetchForApply(s) /\ c = Group(s)
    /\ \A c \in Convs : \/ start'[c] = start[c]
                       \/ owed'[c] = {}
                       \/ Edit(c)
                       \/ \E s \in Tabs : ApplySetStartDate(s) /\ c = Group(s)

\* Every step is framed so.
LEMMA FloorFrame ==
    ASSUME TypeInv, [Next]_vars
    PROVE  FloorFramed
<1> USE DEF PastFetch
<1>1. ASSUME NEW s \in Tabs,
             \/ Preview(s) \/ OnloadRefresh(s) \/ Submit(s) \/ BuildGroup(s)
             \/ FailedGroup(s) \/ PreviewAborts(s) \/ PreviewMarkSynced(s)
             \/ PreviewSetPending(s)
             \/ RefreshFetch(s) \/ RefreshFails(s) \/ RefreshSetPending(s)
             \/ ReadConversion(s) \/ SkipGroup(s)
             \/ EnterLock(s) \/ ConversionGone(s)
      PROVE  FloorFramed
    <2>1. UNCHANGED <<start, owed>>
        BY <1>1 DEF Preview, OnloadRefresh, Submit, BuildGroup, FailedGroup,
            PreviewAborts, PreviewMarkSynced, PreviewSetPending, RefreshFetch,
            RefreshFails, RefreshSetPending, ReadConversion, SkipGroup,
            EnterLock, ConversionGone
    <2>2. \A r \in Tabs : conf'[r] \in {conf[r], {}}
        BY <1>1 DEF Preview, OnloadRefresh, Submit, BuildGroup, FailedGroup,
            PreviewAborts, PreviewMarkSynced, PreviewSetPending, RefreshFetch,
            RefreshFails, RefreshSetPending, ReadConversion, SkipGroup,
            EnterLock, ConversionGone, ForgetWork, TypeInv, TypeOK
    <2>3. pc'[s] \notin PastFetch
        BY <1>1, NextGroupFrame DEF Preview, OnloadRefresh, Submit, BuildGroup,
            FailedGroup, PreviewAborts, PreviewMarkSynced, PreviewSetPending,
            RefreshFetch, RefreshFails, RefreshSetPending, ReadConversion,
            SkipGroup, EnterLock, ConversionGone, Goto, TypeInv, TypeOK
    <2>4. \A r \in Tabs \ {s} : pc'[r] = pc[r] /\ queue'[r] = queue[r]
        BY <1>1, NextGroupFrame DEF Preview, OnloadRefresh, Submit, BuildGroup,
            FailedGroup, PreviewAborts, PreviewMarkSynced, PreviewSetPending,
            RefreshFetch, RefreshFails, RefreshSetPending, ReadConversion,
            SkipGroup, EnterLock, ConversionGone, Goto, TypeInv, TypeOK
    <2>5. \A r \in Tabs \ {s} : open'[r] = open[r]
        BY <1>1 DEF Preview, OnloadRefresh, Submit, BuildGroup, FailedGroup,
            PreviewAborts, PreviewMarkSynced, PreviewSetPending, RefreshFetch,
            RefreshFails, RefreshSetPending, ReadConversion, SkipGroup,
            EnterLock, ConversionGone, ForgetWork, TypeInv, TypeOK
    <2>6. QED
        BY <2>1, <2>2, <2>3, <2>4, <2>5 DEF FloorFramed
<1>2. ASSUME NEW s \in Tabs,
             PatchConfirmed(s) \/ ApplyMarkSynced(s) \/ ApplySetPending(s)
      PROVE  FloorFramed
    <2>1. UNCHANGED <<start, owed, conf, open, queue>>
        BY <1>2 DEF PatchConfirmed, ApplyMarkSynced, ApplySetPending
    <2>2. pc[s] \in PastFetch /\ \A r \in Tabs \ {s} : pc'[r] = pc[r]
        BY <1>2 DEF PatchConfirmed, ApplyMarkSynced, ApplySetPending, Goto,
            TypeInv, TypeOK
    <2>3. QED
        BY <2>1, <2>2 DEF FloorFramed
<1>3. ASSUME NEW s \in Tabs,
             \/ FetchFails(s) \/ PatchRejected(s) \/ PatchTimesOut(s)
             \/ AnswerLost(s) \/ ApplySetStartDate(s)
      PROVE  FloorFramed
    <2>1. /\ UNCHANGED owed
          /\ NextGroup(s, "ap_read") \/ Abort(s, "shown")
          /\ ForgetWork(s)
        BY <1>3 DEF FetchFails, PatchRejected, PatchTimesOut, AnswerLost,
            ApplySetStartDate, LeaveWithError
    <2>2. \A c \in Convs : start'[c] = start[c]
                          \/ (ApplySetStartDate(s) /\ c = Group(s))
        BY <1>3 DEF FetchFails, PatchRejected, PatchTimesOut, AnswerLost,
            ApplySetStartDate, LeaveWithError, TypeInv, TypeOK
    <2>3. pc'[s] \notin PastFetch
          /\ \A r \in Tabs \ {s} : pc'[r] = pc[r] /\ queue'[r] = queue[r]
        BY <2>1, NextGroupFrame
    <2>4. /\ \A r \in Tabs \ {s} : open'[r] = open[r]
          /\ \A r \in Tabs : conf'[r] \in {conf[r], {}}
        BY <2>1 DEF ForgetWork, TypeInv, TypeOK
    <2>5. QED
        BY <2>1, <2>2, <2>3, <2>4 DEF FloorFramed
<1>4. ASSUME NEW s \in Tabs, FetchForApply(s)
      PROVE  FloorFramed
    <2>1. UNCHANGED <<start, conf, queue>>
        BY <1>4 DEF FetchForApply
    <2>2. \A r \in Tabs \ {s} : pc'[r] = pc[r] /\ open'[r] = open[r]
        BY <1>4 DEF FetchForApply, Goto, TypeInv, TypeOK
    <2>3. \A c \in Convs \ {Group(s)} : owed'[c] = owed[c]
        BY <1>4 DEF FetchForApply, TypeInv, TypeOK
    <2>4. QED
        BY <1>4, <2>1, <2>2, <2>3 DEF FloorFramed
<1>5. ASSUME NEW s \in Tabs, Patch(s)
      PROVE  FloorFramed
    <2>1. UNCHANGED <<start, owed, open, queue>> /\ pc[s] \in PastFetch
        BY <1>5 DEF Patch
    <2>2. \A r \in Tabs \ {s} : pc'[r] = pc[r] /\ conf'[r] = conf[r]
        BY <1>5 DEF Patch, Goto, TypeInv, TypeOK
    <2>3. QED
        BY <1>5, <2>1, <2>2 DEF FloorFramed
<1>6. CASE ConfigStep
    <2>1. UNCHANGED <<pc, queue, open, conf>>
        BY <1>6 DEF ConfigStep, Delete, Create, Edit
    <2>2. CASE Delete
        BY <2>1, <2>2 DEF Delete, FloorFramed
    <2>3. ASSUME NEW c \in Convs, Create(c) \/ Edit(c)
          PROVE  FloorFramed
        <3>1. (owed'[c] = {} \/ Edit(c)) /\ \A d \in Convs \ {c} :
                                  owed'[d] = owed[d] /\ start'[d] = start[d]
            BY <2>3 DEF Create, Edit, TypeInv, TypeOK
        <3>2. QED
            BY <2>1, <2>3, <3>1 DEF FloorFramed
    <2>4. QED
        BY <1>6, <2>2, <2>3 DEF ConfigStep
<1>7. CASE (WorldStep /\ ~Crash) \/ UNCHANGED vars
    BY <1>7 DEF WorldStep, EditAmount, MarkByHand, DeleteTxn, Import, InYNAB,
        LatePatch, FloorFramed, vars
<1>8. CASE Crash
    BY <1>8 DEF Crash, FloorFramed, ApplySteps, LockedSteps
<1>9. QED
    BY <1>1, <1>2, <1>3, <1>4, <1>5, <1>6, <1>7, <1>8
    DEF Next, PreviewStep, ApplyStep, LockedStep, WorldStep

\* No marker is ever taken away.
LEMMA MarksStay ==
    ASSUME TypeInv, [Next]_vars
    PROVE  \A t \in Txns : mark[t] # "none" => mark'[t] # "none"
<1>1. CASE QuietStep
    BY <1>1 DEF QuietStep
<1>2. ASSUME NEW s \in Tabs, FetchForApply(s)
      PROVE  mark' = mark
    BY <1>2 DEF FetchForApply
<1>3. ASSUME NEW s \in Tabs, Patch(s)
      PROVE  \A t \in Txns : mark[t] # "none" => mark'[t] # "none"
    <2>1. PICK done \in SUBSET {u \in safe[s] : st[u.id] = "present"} :
            Store(done)
        BY <1>3 DEF Patch
    <2>2. done \in SUBSET Updates
        BY DEF TypeInv, TypeOK
    <2>3. QED
        BY <2>1, <2>2, StoreMarks
<1>4. CASE LatePatch
    <2>1. PICK u \in late : Store({u}) \/ mark' = mark
        BY <1>4 DEF LatePatch
    <2>2. {u} \in SUBSET Updates
        BY DEF TypeInv, TypeOK
    <2>3. QED
        BY <2>1, <2>2, StoreMarks
<1>5. QED
    BY <1>1, <1>2, <1>3, <1>4, WhichStepsWrite

\* What YNAB confirmed to a request stays marked.
LEMMA ConfirmedStep ==
    ASSUME TypeInv, ConfirmedMarked, [Next]_vars
    PROVE  ConfirmedMarked'
<1>1. TypeInv' /\ FloorFramed
    BY TypeStep, FloorFrame
<1>2. \A t \in Txns : mark[t] # "none" => mark'[t] # "none"
    BY MarksStay
<1>3. ASSUME NEW s \in Tabs, NEW t \in conf'[s]
      PROVE  mark'[t] # "none"
    <2>1. t \in Txns
        BY <1>1 DEF TypeInv, TypeOK
    <2>2. CASE conf'[s] \in {conf[s], {}}
        BY <1>2, <1>3, <2>1, <2>2 DEF ConfirmedMarked
    <2>3. CASE Patch(s)
        <3>1. PICK done \in SUBSET {u \in safe[s] : st[u.id] = "present"} :
                Store(done) /\ conf' = [conf EXCEPT ![s] = Ids(done)]
            BY <2>3 DEF Patch
        <3>2. done \in SUBSET Updates /\ t \in Ids(done)
            BY <1>1, <1>3, <3>1 DEF TypeInv, TypeOK
        <3>3. QED
            BY <1>1, <2>1, <3>1, <3>2, StoreMarks
    <2>4. QED
        BY <1>1, <2>2, <2>3 DEF FloorFramed
<1>4. QED
    BY <1>3 DEF ConfirmedMarked

\* An apply past its lock goes on with the row it has read there.
LEMMA LockedFrame ==
    ASSUME TypeInv, [Next]_vars, NEW s \in Tabs, pc'[s] \in LockedSteps
    PROVE  \/ EnterLock(s)
           \/ pc[s] \in LockedSteps /\ queue'[s] = queue[s] /\ snap'[s] = snap[s]
<1> DEFINE Kept == pc[s] \in LockedSteps /\ queue'[s] = queue[s] /\ snap'[s] = snap[s]
<1> USE DEF LockedSteps
<1>1. ASSUME NEW r \in Tabs,
             \/ Preview(r) \/ OnloadRefresh(r) \/ Submit(r) \/ BuildGroup(r)
             \/ FailedGroup(r) \/ PreviewAborts(r) \/ PreviewMarkSynced(r)
             \/ PreviewSetPending(r)
             \/ RefreshFetch(r) \/ RefreshFails(r) \/ RefreshSetPending(r)
             \/ SkipGroup(r) \/ ConversionGone(r) \/ ReadConversion(r)
             \/ FetchFails(r) \/ PatchRejected(r) \/ PatchTimesOut(r)
             \/ AnswerLost(r) \/ ApplySetStartDate(r)
      PROVE  Kept
    <2>1. r # s
        BY <1>1, NextGroupFrame DEF Preview, OnloadRefresh, Submit, BuildGroup,
            FailedGroup, PreviewAborts, PreviewMarkSynced, PreviewSetPending,
            RefreshFetch, RefreshFails, RefreshSetPending, SkipGroup,
            ConversionGone, FetchFails, PatchRejected, PatchTimesOut,
            AnswerLost, ApplySetStartDate, LeaveWithError, ReadConversion, Goto,
            TypeInv, TypeOK
    <2>2. pc'[s] = pc[s] /\ queue'[s] = queue[s]
        BY <1>1, <2>1, NextGroupFrame DEF Preview, OnloadRefresh, Submit,
            BuildGroup, FailedGroup, PreviewAborts, PreviewMarkSynced,
            PreviewSetPending, RefreshFetch, RefreshFails, RefreshSetPending,
            SkipGroup, ConversionGone, FetchFails, PatchRejected, PatchTimesOut,
            AnswerLost, ApplySetStartDate, LeaveWithError, ReadConversion,
            Goto, TypeInv, TypeOK
    <2>3. snap'[s] = snap[s]
        BY <1>1, <2>1 DEF Preview, OnloadRefresh, Submit, BuildGroup, NextGroup,
            Abort, FailedGroup, PreviewAborts, PreviewMarkSynced,
            PreviewSetPending, RefreshFetch, RefreshFails, RefreshSetPending,
            SkipGroup, ConversionGone, FetchFails, PatchRejected, PatchTimesOut,
            AnswerLost, ApplySetStartDate, LeaveWithError, ReadConversion,
            TypeInv, TypeOK
    <2>4. QED
        BY <2>2, <2>3
<1>2. ASSUME NEW r \in Tabs,
             \/ FetchForApply(r) \/ Patch(r) \/ PatchConfirmed(r)
             \/ ApplyMarkSynced(r) \/ ApplySetPending(r)
      PROVE  Kept
    BY <1>2 DEF FetchForApply, Patch, PatchConfirmed, ApplyMarkSynced,
        ApplySetPending, Goto, TypeInv, TypeOK
<1>3. ASSUME NEW r \in Tabs, r # s, EnterLock(r)
      PROVE  Kept
    BY <1>3 DEF EnterLock, Goto, TypeInv, TypeOK
<1>4. CASE ConfigStep \/ (WorldStep /\ ~Crash) \/ UNCHANGED vars
    BY <1>4 DEF ConfigStep, Delete, Create, Edit, WorldStep, EditAmount,
        MarkByHand, DeleteTxn, Import, InYNAB, LatePatch, vars
<1>5. ~Crash
    BY DEF Crash, ApplySteps
<1>6. QED
    BY <1>1, <1>2, <1>3, <1>4, <1>5
    DEF Next, PreviewStep, ApplyStep, LockedStep

\* Who hands out ids, who moves a conversion and who moves a floor.
LEMMA FloorMoves ==
    ASSUME TypeInv, [Next]_vars
    PROVE  /\ used \subseteq used'
           /\ live \subseteq used => live' \subseteq used'
           /\ \A c \in Convs : acct'[c] = acct[c] \/ Create(c) \/ Edit(c)
           /\ \A c \in Convs : \/ start'[c] = start[c]
                              \/ Create(c) \/ Edit(c)
                              \/ \E s \in Tabs : ApplySetStartDate(s) /\ c = Group(s)
<1>1. ASSUME NEW s \in Tabs,
             \/ Preview(s) \/ OnloadRefresh(s) \/ Submit(s) \/ PreviewStep(s)
             \/ (ApplyStep(s) /\ ~ApplySetStartDate(s))
      PROVE  UNCHANGED <<live, used, acct, start>>
    BY <1>1 DEF Preview, OnloadRefresh, Submit, PreviewStep, BuildGroup,
        FailedGroup, PreviewAborts, PreviewMarkSynced, PreviewSetPending,
        RefreshFetch, RefreshFails, RefreshSetPending, ApplyStep, LockedStep,
        ReadConversion, SkipGroup, EnterLock, ConversionGone, FetchForApply,
        FetchFails, Patch, PatchRejected, PatchTimesOut, PatchConfirmed,
        AnswerLost, ApplyMarkSynced, ApplySetPending, LeaveWithError
<1>2. ASSUME NEW s \in Tabs, ApplySetStartDate(s)
      PROVE  UNCHANGED <<live, used, acct>>
             /\ \A c \in Convs : start'[c] = start[c] \/ c = Group(s)
    BY <1>2 DEF ApplySetStartDate, TypeInv, TypeOK
<1>3. CASE WorldStep \/ UNCHANGED vars
    BY <1>3 DEF WorldStep, EditAmount, MarkByHand, DeleteTxn, Import, InYNAB,
        LatePatch, Crash, vars
<1>4. CASE Delete
    BY <1>4 DEF Delete
<1>5. ASSUME NEW c \in Convs, Create(c) \/ Edit(c)
      PROVE  /\ used \subseteq used'
             /\ live \subseteq used => live' \subseteq used'
             /\ \A d \in Convs \ {c} : start'[d] = start[d] /\ acct'[d] = acct[d]
    BY <1>5 DEF Create, Edit, TypeInv, TypeOK
<1>6. QED
    BY <1>1, <1>2, <1>3, <1>4, <1>5 DEF Next, ConfigStep

\* Whether an edit overtook an apply is settled when it enters its lock, and
\* by the edits after that.
LEMMA OvertakenFrame ==
    ASSUME TypeInv, [Next]_vars, NEW s \in Tabs
    PROVE  /\ pc'[s] \in LockedSteps /\ ~overtaken'[s] =>
                EnterLock(s) \/ (~overtaken[s] /\ ~Edit(Group(s)))
           /\ overtaken'[s] =>
                overtaken[s] \/ EnterLock(s) \/ \E c \in Convs : Edit(c)
<1> DEFINE Kept == overtaken'[s] = overtaken[s] /\ \A c \in Convs : ~Edit(c)
           Framed == /\ pc'[s] \in LockedSteps /\ ~overtaken'[s] =>
                            EnterLock(s) \/ (~overtaken[s] /\ ~Edit(Group(s)))
                     /\ overtaken'[s] =>
                            overtaken[s] \/ EnterLock(s) \/ \E c \in Convs : Edit(c)
<1>0. CASE overtaken' = overtaken
    <2>1. ASSUME pc'[s] \in LockedSteps, Edit(Group(s))
          PROVE  overtaken'[s]
        BY <2>1 DEF Edit, TypeInv, TypeOK
    <2>2. QED
        BY <1>0, <2>1
<1>1. ASSUME NEW r \in Tabs,
             \/ Preview(r) \/ OnloadRefresh(r) \/ Submit(r) \/ BuildGroup(r)
             \/ FailedGroup(r) \/ PreviewAborts(r) \/ PreviewMarkSynced(r)
             \/ RefreshFetch(r) \/ RefreshFails(r)
             \/ ReadConversion(r) \/ SkipGroup(r) \/ ConversionGone(r)
             \/ FetchForApply(r) \/ Patch(r) \/ PatchConfirmed(r)
             \/ ApplyMarkSynced(r) \/ ApplySetPending(r)
      PROVE  Framed
    <2>1. overtaken' = overtaken
        BY <1>1 DEF Preview, OnloadRefresh, Submit, BuildGroup, FailedGroup,
            PreviewAborts, PreviewMarkSynced, RefreshFetch, RefreshFails,
            ReadConversion, SkipGroup, ConversionGone, FetchForApply, Patch,
            PatchConfirmed, ApplyMarkSynced, ApplySetPending
    <2>2. QED
        BY <1>0, <2>1
<1>2. ASSUME NEW r \in Tabs,
             \/ PreviewSetPending(r) \/ RefreshSetPending(r)
             \/ FetchFails(r) \/ PatchRejected(r) \/ PatchTimesOut(r)
             \/ AnswerLost(r) \/ ApplySetStartDate(r)
      PROVE  Framed
    <2>1. /\ ForgetWork(r)
          /\ \E label \in {"ap_read", "pv_fetch", "rf_fetch"} :
                NextGroup(r, label) \/ Abort(r, "shown")
        BY <1>2 DEF PreviewSetPending, RefreshSetPending, FetchFails,
            PatchRejected, PatchTimesOut, AnswerLost, ApplySetStartDate,
            LeaveWithError
    <2>2. pc'[r] \notin LockedSteps
        BY <2>1, NextGroupFrame DEF LockedSteps
    <2>3. overtaken' = [overtaken EXCEPT ![r] = FALSE]
        BY <2>1 DEF ForgetWork
    <2>4. QED
        <3>1. CASE r = s
            BY <2>2, <2>3, <3>1 DEF TypeInv, TypeOK
        <3>2. CASE r # s
            <4>1. overtaken'[s] = overtaken[s]
                BY <2>3, <3>2 DEF TypeInv, TypeOK
            <4>2. ASSUME NEW c \in Convs, Edit(c)
                  PROVE  pc' = pc
                BY <4>2 DEF Edit
            <4>3. ASSUME pc'[s] \in LockedSteps, Edit(Group(s))
                  PROVE  overtaken'[s]
                BY <4>3 DEF Edit, TypeInv, TypeOK
            <4>4. QED
                BY <4>1, <4>3
        <3>3. QED
            BY <3>1, <3>2
<1>3. ASSUME NEW r \in Tabs, EnterLock(r)
      PROVE  Framed
    <2>1. CASE r = s
        BY <1>3, <2>1
    <2>2. CASE r # s
        <3>1. overtaken'[s] = overtaken[s]
            BY <1>3, <2>2 DEF EnterLock, TypeInv, TypeOK
        <3>2. ASSUME pc'[s] \in LockedSteps, Edit(Group(s))
              PROVE  overtaken'[s]
            BY <3>2 DEF Edit, TypeInv, TypeOK
        <3>3. QED
            BY <3>1, <3>2
    <2>3. QED
        BY <2>1, <2>2
<1>4. ASSUME NEW c \in Convs, Edit(c)
      PROVE  Framed
    <2>1. overtaken'[s] = (overtaken[s] \/ (pc[s] \in LockedSteps /\ Group(s) = c))
          /\ pc' = pc
        BY <1>4 DEF Edit
    <2>2. overtaken'[s] => overtaken[s] \/ \E d \in Convs : Edit(d)
        BY <1>4
    <2>3. ASSUME pc'[s] \in LockedSteps, Edit(Group(s))
          PROVE  overtaken'[s]
        BY <2>3 DEF Edit, TypeInv, TypeOK
    <2>4. overtaken[s] => overtaken'[s]
        BY <2>1
    <2>5. QED
        BY <2>2, <2>3, <2>4
<1>5. CASE Delete \/ (\E c \in Convs : Create(c)) \/ (WorldStep /\ ~Crash)
           \/ UNCHANGED vars
    <2>1. overtaken' = overtaken
        BY <1>5 DEF Delete, Create, WorldStep, EditAmount, MarkByHand,
            DeleteTxn, Import, InYNAB, LatePatch, vars
    <2>2. QED
        BY <1>0, <2>1
<1>6. CASE Crash
    BY <1>6 DEF Crash, ApplySteps, LockedSteps
<1>7. QED
    BY <1>1, <1>2, <1>3, <1>4, <1>5, <1>6
    DEF Next, PreviewStep, ApplyStep, LockedStep, ConfigStep

\* Two applies past the lock are of different conversions.
LEMMA OthersApart ==
    ASSUME HoldsLock, NEW s \in Tabs, NEW r \in Tabs, r # s,
           pc[s] \in LockedSteps, pc[r] \in LockedSteps
    PROVE  Group(r) # Group(s)
    BY DEF HoldsLock

\* Every step keeps it that an apply not overtaken knows its row and has
\* fetched what is owed.
LEMMA HideStep == HideInv /\ [Next]_vars => HideInv'
<1> SUFFICES ASSUME HideInv, [Next]_vars
             PROVE  HideInv'
    OBVIOUS
<1>1. /\ TypeInv /\ HoldsLock /\ TypeInv' /\ HoldsLock' /\ FloorFramed
      /\ (live \subseteq used)'
    BY TypeStep, LockStep, FloorFrame, FloorMoves DEF HideInv
<1>2. ConfirmedMarked'
    BY <1>1, ConfirmedStep DEF HideInv
<1>3. ASSUME NEW s \in Tabs, pc'[s] \in LockedSteps, pc[s] \in LockedSteps,
             queue'[s] = queue[s]
      PROVE  /\ Group(s)' = Group(s) /\ Group(s) \in Convs
             /\ Group(s) \in used /\ Group(s) \in used'
             /\ ~overtaken'[s] => ~overtaken[s] /\ acct'[Group(s)] = acct[Group(s)]
                                  /\ ~Edit(Group(s))
    <2>1. Group(s)' = Group(s) /\ Group(s) \in Convs
        BY <1>1, <1>3, GroupType DEF Group, ServerSteps, ApplySteps
    <2>2. Group(s) \in used /\ Group(s) \in used'
        BY <1>1, <1>3, FloorMoves DEF HideInv, LockedKnown
    <2>3. ~Create(Group(s))
        BY <2>2 DEF Create
    <2>4. ~EnterLock(s)
        BY <1>3 DEF EnterLock, LockedSteps
    <2>5. QED
        BY <1>1, <1>3, <2>1, <2>2, <2>3, <2>4, FloorMoves, OvertakenFrame
<1>4. LockedKnown'
    <2>1. ASSUME NEW s \in Tabs, pc'[s] \in LockedSteps
          PROVE  /\ Group(s)' \in used'
                 /\ ~overtaken'[s] =>
                        snap'[s][Group(s)'].acct = acct'[Group(s)']
        <3>1. CASE EnterLock(s)
            <4>1. Group(s) \in live /\ Group(s)' = Group(s) /\ Group(s) \in Convs
                  /\ UNCHANGED <<used, acct>>
                BY <1>1, <3>1 DEF EnterLock, Group, TypeInv, TypeOK
            <4>2. snap'[s][Group(s)].acct = snap[s][Group(s)].acct
                BY <1>1, <3>1, <4>1 DEF EnterLock, TypeInv, TypeOK, Snapshots
            <4>3. ASSUME snap[s][Group(s)].acct # acct[Group(s)]
                  PROVE  overtaken'[s]
                <5>1. overtaken' = [overtaken EXCEPT ![s] =
                                       snap[s][Group(s)].acct # acct[Group(s)]]
                    BY <3>1 DEF EnterLock
                <5>2. overtaken'[s] = (snap[s][Group(s)].acct # acct[Group(s)])
                    BY <1>1, <5>1, Zenon DEF TypeInv, TypeOK
                <5>3. QED
                    BY <4>3, <5>2
            <4>4. QED
                BY <4>1, <4>2, <4>3 DEF HideInv
        <3>2. CASE pc[s] \in LockedSteps /\ queue'[s] = queue[s] /\ snap'[s] = snap[s]
            BY <1>3, <2>1, <3>2 DEF HideInv, LockedKnown
        <3>3. QED
            BY <1>1, <2>1, <3>1, <3>2, LockedFrame
    <2>2. QED
        BY <2>1 DEF LockedKnown
<1>5. OwedFetched'
    <2>1. ASSUME NEW s \in Tabs, pc'[s] \in PastFetch, ~overtaken'[s]
          PROVE  \A t \in owed'[Group(s)'] :
                    t \in open'[s] /\ Date[t] >= start'[Group(s)']
        <3>0. pc'[s] \in LockedSteps
            BY <2>1 DEF PastFetch, LockedSteps
        <3>1. CASE FetchForApply(s)
            <4>1. pc[s] \in LockedSteps /\ queue'[s] = queue[s] /\ start' = start
                BY <3>1 DEF FetchForApply, LockedSteps
            <4>2. /\ Group(s)' = Group(s) /\ Group(s) \in Convs
                  /\ snap[s][Group(s)].acct = acct[Group(s)]
                BY <1>3, <2>1, <3>0, <4>1 DEF HideInv, LockedKnown
            <4>3. PICK found \in SUBSET Txns :
                    /\ open' = [open EXCEPT ![s] = found]
                    /\ owed' = [owed EXCEPT ![Group(s)] =
                                  {t \in found : Date[t] >= start[Group(s)]}]
                BY <3>1, <4>2 DEF FetchForApply, GetTransactions
            <4>4. QED
                BY <1>1, <4>1, <4>2, <4>3 DEF TypeInv, TypeOK
        <3>2. CASE /\ pc[s] \in PastFetch
                   /\ queue'[s] = queue[s] /\ open'[s] = open[s]
            <4>1. pc[s] \in LockedSteps
                BY <3>2 DEF PastFetch, LockedSteps
            <4>2. /\ Group(s)' = Group(s) /\ Group(s) \in Convs
                  /\ ~overtaken[s] /\ ~Edit(Group(s))
                BY <1>3, <2>1, <3>0, <3>2, <4>1
            <4>3. ASSUME NEW r \in Tabs, FetchForApply(r)
                  PROVE  Group(r) # Group(s)
                <5>1. pc[r] \in LockedSteps /\ r # s
                    BY <3>2, <4>3 DEF FetchForApply, PastFetch, LockedSteps
                <5>2. QED
                    BY <1>1, <4>1, <5>1, OthersApart
            <4>4. ASSUME NEW r \in Tabs, ApplySetStartDate(r)
                  PROVE  Group(r) # Group(s)
                <5>1. pc[r] \in LockedSteps
                    BY <4>4 DEF ApplySetStartDate, LockedSteps
                <5>2. pc'[r] \notin LockedSteps
                    BY <1>1, <4>4, NextGroupFrame DEF ApplySetStartDate, LockedSteps
                <5>3. QED
                    BY <1>1, <3>0, <4>1, <5>1, <5>2, OthersApart
            <4>5. /\ owed'[Group(s)] \in {owed[Group(s)], {}}
                  /\ start'[Group(s)] = start[Group(s)] \/ owed'[Group(s)] = {}
                BY <1>1, <4>2, <4>3, <4>4 DEF FloorFramed
            <4>6. QED
                BY <3>2, <4>2, <4>5 DEF HideInv, OwedFetched
        <3>3. QED
            BY <1>1, <2>1, <3>1, <3>2 DEF FloorFramed
    <2>2. QED
        BY <2>1 DEF OwedFetched
<1>6. QED
    BY <1>1, <1>2, <1>4, <1>5 DEF HideInv

\* The floor that an apply not overtaken leaves is before what is owed and
\* unmarked.
LEMMA FloorBefore ==
    ASSUME HideInv, [Next]_vars, NEW s \in Tabs, ApplySetStartDate(s),
           ~overtaken[s], NEW t \in owed[Group(s)], mark[t] = "none"
    PROVE  Date[t] >= start'[Group(s)]
<1>1. TypeInv /\ pc[s] = "ap_floor" /\ Group(s) \in Convs
    BY GroupType DEF HideInv, ApplySetStartDate, ServerSteps, ApplySteps,
        LockedSteps
<1>2. t \in open[s] /\ Date[t] >= start[Group(s)] /\ t \in Txns
    BY <1>1 DEF HideInv, OwedFetched, PastFetch, TypeInv, TypeOK
<1>3. t \notin conf[s]
    BY DEF HideInv, ConfirmedMarked
<1>4. open[s] \ conf[s] \in SUBSET Txns
    BY <1>1 DEF TypeInv, TypeOK
<1>5. NewStart(open[s] \ conf[s]) <= Date[t]
    BY <1>2, <1>3, <1>4, NewStartIsMinimal
<1>6. \/ start'[Group(s)] = start[Group(s)]
      \/ start'[Group(s)] = NewStart(open[s] \ conf[s])
    BY <1>1 DEF ApplySetStartDate, Applied, TypeInv, TypeOK
<1>7. NewStart(open[s] \ conf[s]) \in Dates /\ Date[t] \in Dates
    BY <1>2, <1>4, NewStartIsMinimal, TxnAssumption DEF Dates
<1>8. QED
    BY <1>2, <1>5, <1>6, <1>7 DEF Dates

\* Nothing is owed and nobody is past the lock initially.
LEMMA HideInit == Init => HideInv
<1>1. Init => /\ live \subseteq used
              /\ LockedKnown /\ OwedFetched /\ ConfirmedMarked
    BY DEF Init, LockedKnown, OwedFetched, ConfirmedMarked, PastFetch, LockedSteps
<1>2. QED
    BY <1>1, TypeInit, LockInit DEF HideInv

\* For any number of tabs, transactions and dates, and whatever is edited,
\* imported, deleted, lost or restarted: an apply that no settings edit
\* overtook never moves the floor past a transaction that still waits.
THEOREM OnlyEditsOvertake == Spec => OnlyOvertakenHides
<1>1. ASSUME HideInv, [Next]_vars, NEW s \in Tabs, ApplySetStartDate(s),
             ~overtaken[s], NEW t \in owed[Group(s)], ~IsExcluded(t)
      PROVE  Date[t] >= start'[Group(s)]
    <2>1. t \in Txns /\ mark[t] = "none"
        <3>1. Group(s) \in Convs
            BY <1>1, GroupType DEF HideInv, ApplySetStartDate, ServerSteps,
                ApplySteps, LockedSteps
        <3>2. t \in Txns
            BY <1>1, <3>1 DEF HideInv, TypeInv, TypeOK
        <3>3. QED
            BY <1>1, <3>2 DEF HideInv, TypeInv, TypeOK, IsExcluded, IsConverted,
                IsSkipped, Marks
    <2>2. QED
        BY <1>1, <2>1, FloorBefore
<1>2. HideInv /\ [Next]_vars
        => [\A s \in Tabs : ApplySetStartDate(s) /\ ~overtaken[s] =>
               \A t \in owed[Group(s)] :
                  ~IsExcluded(t) => Date[t] >= start'[Group(s)]]_vars
    BY <1>1
<1>3. QED
    BY <1>2, HideInit, HideStep, PTL DEF Spec, OnlyOvertakenHides

-----------------------------------------------------------------------------
(* Without edits no apply is overtaken, so the floor stays before what is    *)
(* owed.                                                                     *)

Reading == {"ap_wait"} \cup LockedSteps
RowKnown ==
    \A s \in Tabs : pc[s] \in Reading =>
        Group(s) \in used /\ snap[s][Group(s)].acct = acct[Group(s)]
NoneOvertaken == \A s \in Tabs : ~overtaken[s]
OwedAbove ==
    \A c \in Convs : \A t \in owed[c] : mark[t] = "none" => Date[t] >= start[c]
FloorInv == HideInv /\ RowKnown /\ NoneOvertaken /\ OwedAbove

\* A request has read the row it works on, or reads it now.
LEMMA ReadFrame ==
    ASSUME TypeInv, [Next]_vars, NEW s \in Tabs, pc'[s] \in Reading
    PROVE  \/ ReadConversion(s)
           \/ /\ pc[s] \in Reading /\ Group(s) \in Convs /\ Group(s)' = Group(s)
              /\ snap'[s][Group(s)].acct = snap[s][Group(s)].acct
<1> DEFINE Kept == /\ pc[s] \in Reading /\ Group(s) \in Convs
                   /\ Group(s)' = Group(s)
                   /\ snap'[s][Group(s)].acct = snap[s][Group(s)].acct
<1> USE DEF Reading, LockedSteps
<1>1. ASSUME NEW r \in Tabs,
             \/ Preview(r) \/ OnloadRefresh(r) \/ Submit(r) \/ BuildGroup(r)
             \/ FailedGroup(r) \/ PreviewAborts(r) \/ PreviewMarkSynced(r)
             \/ PreviewSetPending(r)
             \/ RefreshFetch(r) \/ RefreshFails(r) \/ RefreshSetPending(r)
             \/ SkipGroup(r) \/ ConversionGone(r)
             \/ FetchFails(r) \/ PatchRejected(r) \/ PatchTimesOut(r)
             \/ AnswerLost(r) \/ ApplySetStartDate(r) \/ ReadConversion(r)
      PROVE  Kept \/ ReadConversion(s)
    <2>1. r # s \/ ReadConversion(s)
        BY <1>1, NextGroupFrame DEF Preview, OnloadRefresh, Submit, BuildGroup,
            FailedGroup, PreviewAborts, PreviewMarkSynced, PreviewSetPending,
            RefreshFetch, RefreshFails, RefreshSetPending, SkipGroup,
            ConversionGone, FetchFails, PatchRejected, PatchTimesOut,
            AnswerLost, ApplySetStartDate, LeaveWithError, Goto,
            TypeInv, TypeOK
    <2>2. r # s => pc'[s] = pc[s] /\ queue'[s] = queue[s]
        BY <1>1, NextGroupFrame DEF Preview, OnloadRefresh, Submit, BuildGroup,
            FailedGroup, PreviewAborts, PreviewMarkSynced, PreviewSetPending,
            RefreshFetch, RefreshFails, RefreshSetPending, SkipGroup,
            ConversionGone, FetchFails, PatchRejected, PatchTimesOut,
            AnswerLost, ApplySetStartDate, LeaveWithError, ReadConversion,
            Goto, TypeInv, TypeOK
    <2>3. r # s => snap'[s] = snap[s]
        BY <1>1 DEF Preview, OnloadRefresh, Submit, BuildGroup, NextGroup, Abort,
            FailedGroup, PreviewAborts, PreviewMarkSynced, PreviewSetPending,
            RefreshFetch, RefreshFails, RefreshSetPending, SkipGroup,
            ConversionGone, FetchFails, PatchRejected, PatchTimesOut,
            AnswerLost, ApplySetStartDate, LeaveWithError, ReadConversion,
            TypeInv, TypeOK
    <2>4. QED
        BY <2>1, <2>2, <2>3, GroupType DEF Group, ServerSteps, ApplySteps
<1>2. ASSUME NEW r \in Tabs,
             \/ FetchForApply(r) \/ Patch(r) \/ PatchConfirmed(r)
             \/ ApplyMarkSynced(r) \/ ApplySetPending(r)
      PROVE  Kept
    <2>1. UNCHANGED <<queue, snap>> /\ pc[s] \in Reading
        BY <1>2 DEF FetchForApply, Patch, PatchConfirmed, ApplyMarkSynced,
            ApplySetPending, Goto, TypeInv, TypeOK
    <2>2. QED
        BY <2>1, GroupType DEF Group, ServerSteps, ApplySteps
<1>3. ASSUME NEW r \in Tabs, EnterLock(r)
      PROVE  Kept
    <2>1. UNCHANGED queue /\ pc[s] \in Reading
        BY <1>3 DEF EnterLock, Goto, TypeInv, TypeOK
    <2>2. Group(s) \in Convs /\ Group(s)' = Group(s)
        BY <2>1, GroupType DEF Group, ServerSteps, ApplySteps
    <2>3. snap'[s][Group(s)].acct = snap[s][Group(s)].acct
        BY <1>3, <2>2 DEF EnterLock, TypeInv, TypeOK, Snapshots
    <2>4. QED
        BY <2>1, <2>2, <2>3
<1>4. CASE ConfigStep \/ (WorldStep /\ ~Crash) \/ UNCHANGED vars
    <2>1. UNCHANGED <<pc, queue, snap>>
        BY <1>4 DEF ConfigStep, Delete, Create, Edit, WorldStep, EditAmount,
            MarkByHand, DeleteTxn, Import, InYNAB, LatePatch, vars
    <2>2. QED
        BY <2>1, GroupType DEF Group, ServerSteps, ApplySteps
<1>5. ~Crash
    BY DEF Crash, ApplySteps
<1>6. QED
    BY <1>1, <1>2, <1>3, <1>4, <1>5
    DEF Next, PreviewStep, ApplyStep, LockedStep

\* Without edits every step keeps the floor behind what is owed.
LEMMA FloorStep ==
    ASSUME "edit" \notin Moves, FloorInv, [Next]_vars
    PROVE  FloorInv'
<1>1. /\ TypeInv /\ HideInv /\ TypeInv' /\ HideInv' /\ FloorFramed
    BY TypeStep, HideStep, FloorFrame DEF FloorInv, HideInv
<1>2. \A t \in Txns : mark[t] # "none" => mark'[t] # "none"
    BY <1>1, MarksStay
<1>3. \A c \in Convs : ~Edit(c)
    BY DEF Edit
<1>4. RowKnown'
    <2>1. ASSUME NEW s \in Tabs, pc'[s] \in Reading
          PROVE  Group(s)' \in used' /\ snap'[s][Group(s)'].acct = acct'[Group(s)']
        <3>1. CASE ReadConversion(s)
            <4>1. Group(s) \in live /\ Group(s)' = Group(s) /\ Group(s) \in Convs
                  /\ UNCHANGED <<used, acct>>
                BY <1>1, <3>1 DEF ReadConversion, Group, TypeInv, TypeOK
            <4>2. snap'[s][Group(s)].acct = acct[Group(s)]
                BY <1>1, <3>1, <4>1 DEF ReadConversion, RowOf, TypeInv, TypeOK
            <4>3. QED
                BY <1>1, <4>1, <4>2 DEF HideInv
        <3>2. CASE /\ pc[s] \in Reading /\ Group(s) \in Convs /\ Group(s)' = Group(s)
                   /\ snap'[s][Group(s)].acct = snap[s][Group(s)].acct
            <4>1. /\ Group(s) \in used
                  /\ snap[s][Group(s)].acct = acct[Group(s)]
                BY <3>2 DEF FloorInv, RowKnown
            <4>2. ~Create(Group(s)) /\ ~Edit(Group(s))
                BY <4>1 DEF Create, Edit
            <4>3. used \subseteq used' /\ acct'[Group(s)] = acct[Group(s)]
                BY <1>1, <3>2, <4>2, FloorMoves
            <4>4. QED
                BY <3>2, <4>1, <4>3
        <3>3. QED
            BY <1>1, <2>1, <3>1, <3>2, ReadFrame
    <2>2. QED
        BY <2>1 DEF RowKnown
<1>5. NoneOvertaken'
    <2>1. ASSUME NEW s \in Tabs, EnterLock(s)
          PROVE  ~overtaken'[s]
        <3>1. snap[s][Group(s)].acct = acct[Group(s)]
            BY <2>1 DEF EnterLock, FloorInv, RowKnown, Reading
        <3>2. QED
            BY <1>1, <2>1, <3>1 DEF EnterLock, TypeInv, TypeOK
    <2>2. QED
        BY <1>1, <1>3, <2>1, OvertakenFrame DEF FloorInv, NoneOvertaken
<1>6. OwedAbove'
    <2>1. ASSUME NEW c \in Convs, NEW t \in owed'[c], mark'[t] = "none"
          PROVE  Date[t] >= start'[c]
        <3>1. t \in Txns /\ mark[t] = "none"
            BY <1>1, <1>2, <2>1 DEF TypeInv, TypeOK
        <3>2. ASSUME NEW s \in Tabs, FetchForApply(s), c = Group(s)
              PROVE  Date[t] >= start'[c]
            <4>1. start' = start /\ snap[s][c].acct = acct[c]
                BY <3>2 DEF FetchForApply, FloorInv, RowKnown, Reading, LockedSteps
            <4>2. PICK found \in SUBSET Txns :
                    owed' = [owed EXCEPT ![c] =
                               {x \in found : Date[x] >= start[c]}]
                BY <3>2, <4>1 DEF FetchForApply, GetTransactions
            <4>3. QED
                BY <1>1, <2>1, <4>1, <4>2 DEF TypeInv, TypeOK
        <3>3. ASSUME NEW s \in Tabs, ApplySetStartDate(s), c = Group(s)
              PROVE  Date[t] >= start'[c]
            <4>1. t \in owed[c] /\ ~overtaken[s]
                BY <2>1, <3>3 DEF ApplySetStartDate, FloorInv, NoneOvertaken
            <4>2. QED
                BY <1>1, <3>1, <3>3, <4>1, FloorBefore
        <3>4. CASE start'[c] = start[c] /\ owed'[c] \in {owed[c], {}}
            BY <2>1, <3>1, <3>4 DEF FloorInv, OwedAbove
        <3>5. QED
            BY <1>1, <1>3, <2>1, <3>2, <3>3, <3>4 DEF FloorFramed
    <2>2. QED
        BY <2>1 DEF OwedAbove
<1>7. QED
    BY <1>1, <1>4, <1>5, <1>6 DEF FloorInv

\* Without settings edits the fetch floor never passes work left over, for any
\* number of tabs, transactions and dates, whatever is imported, typed in
\* YNAB, created, deleted, lost or restarted.
THEOREM FloorNeverHides ==
    ASSUME "edit" \notin Moves
    PROVE  Spec => []FloorKeepsOwed
<1>1. Init => FloorInv
    <2>1. Init => RowKnown /\ NoneOvertaken /\ OwedAbove
        BY DEF Init, RowKnown, NoneOvertaken, OwedAbove, Reading, LockedSteps
    <2>2. QED
        BY <2>1, HideInit DEF FloorInv
<1>2. FloorInv /\ [Next]_vars => FloorInv'
    BY FloorStep
<1>3. FloorInv => FloorKeepsOwed
    BY DEF FloorInv, HideInv, TypeInv, TypeOK, OwedAbove, FloorKeepsOwed,
        IsExcluded, IsConverted, IsSkipped, Marks
<1>4. QED
    BY <1>1, <1>2, <1>3, PTL DEF Spec

-----------------------------------------------------------------------------
(* The floor only advances: an apply compares it with the one it read under  *)
(* the lock, and without edits nobody else has moved that one since.         *)

FloorRead ==
    \A s \in Tabs : pc[s] \in LockedSteps =>
        Group(s) \in used /\ snap[s][Group(s)].start = start[Group(s)]
AdvanceInv == TypeInv /\ HoldsLock /\ live \subseteq used /\ FloorRead

\* Without edits, an apply under the lock knows the floor.
LEMMA AdvanceStep ==
    ASSUME "edit" \notin Moves, AdvanceInv, [Next]_vars
    PROVE  AdvanceInv'
<1>1. TypeInv /\ HoldsLock /\ TypeInv' /\ HoldsLock' /\ (live \subseteq used)'
    BY TypeStep, LockStep, FloorMoves DEF AdvanceInv
<1>2. ASSUME NEW s \in Tabs, pc'[s] \in LockedSteps
      PROVE  Group(s)' \in used' /\ snap'[s][Group(s)'].start = start'[Group(s)']
    <2>1. CASE EnterLock(s)
        <3>1. Group(s) \in live /\ Group(s)' = Group(s) /\ Group(s) \in Convs
              /\ UNCHANGED <<used, start>>
            BY <1>1, <2>1 DEF EnterLock, Group, TypeInv, TypeOK
        <3>2. snap'[s][Group(s)].start = start[Group(s)]
            BY <1>1, <2>1, <3>1 DEF EnterLock, TypeInv, TypeOK, Snapshots
        <3>3. QED
            BY <3>1, <3>2 DEF AdvanceInv
    <2>2. CASE pc[s] \in LockedSteps /\ queue'[s] = queue[s] /\ snap'[s] = snap[s]
        <3> DEFINE c == Group(s)
        <3>1. Group(s)' = c /\ c \in used /\ c \in Convs /\ lock[c] = s
              /\ snap[s][c].start = start[c]
            BY <1>1, <2>2, GroupType
            DEF Group, AdvanceInv, FloorRead, HoldsLock, LockedSteps, ApplySteps,
                ServerSteps
        <3>2. ~Create(c) /\ ~Edit(c)
            BY <3>1 DEF Create, Edit
        <3>3. ASSUME NEW r \in Tabs, ApplySetStartDate(r), c = Group(r)
              PROVE  FALSE
            <4>1. pc[r] \in LockedSteps /\ lock[Group(r)] = r
                BY <1>1, <3>3 DEF ApplySetStartDate, HoldsLock, LockedSteps
            <4>2. r = s
                BY <3>1, <3>3, <4>1
            <4>3. pc'[r] \notin LockedSteps
                BY <1>1, <3>3, NextGroupFrame DEF ApplySetStartDate, LockedSteps
            <4>4. QED
                BY <1>2, <4>2, <4>3
        <3> HIDE DEF c
        <3>4. start'[c] = start[c] /\ used \subseteq used'
            BY <1>1, <3>1, <3>2, <3>3, FloorMoves
        <3>5. QED
            BY <2>2, <3>1, <3>4
    <2>3. QED
        BY <1>1, <1>2, <2>1, <2>2, LockedFrame
<1>3. QED
    BY <1>1, <1>2 DEF AdvanceInv, FloorRead

\* Then only an edit or a new row takes a floor back.
LEMMA FloorBack ==
    ASSUME AdvanceInv, [Next]_vars, NEW c \in Convs, start'[c] < start[c]
    PROVE  Edit(c) \/ Create(c)
<1>1. start \in [Convs -> Dates] /\ start[c] \in Nat
    BY TxnAssumption DEF AdvanceInv, TypeInv, TypeOK, Dates
<1>2. ASSUME NEW s \in Tabs, ApplySetStartDate(s), c = Group(s)
      PROVE  FALSE
    <2>1. snap[s][c].start = start[c]
        BY <1>2 DEF ApplySetStartDate, AdvanceInv, FloorRead, LockedSteps
    <2>2. CASE Advances(s) /\ Group(s) \in live
        <3>1. start'[c] = NewStart(open[s] \ Applied(s))
            BY <1>1, <1>2, <2>2 DEF ApplySetStartDate
        <3>2. start'[c] > start[c]
            BY <1>2, <2>1, <2>2, <3>1 DEF Advances
        <3>3. start'[c] \in Nat
            BY TypeStep DEF AdvanceInv, TypeInv, TypeOK, Dates
        <3>4. QED
            BY <1>1, <3>2, <3>3
    <2>3. CASE ~(Advances(s) /\ Group(s) \in live)
        BY <1>1, <1>2, <2>3 DEF ApplySetStartDate
    <2>4. QED
        BY <2>2, <2>3
<1>3. start'[c] # start[c]
    BY <1>1
<1>4. QED
    BY <1>2, <1>3, FloorMoves DEF AdvanceInv

\* Without edits, whatever applies, previews and new rows do at once, no floor
\* ever goes back.
THEOREM FloorAdvances ==
    ASSUME "edit" \notin Moves
    PROVE  Spec => FloorOnlyAdvances
<1>1. Init => AdvanceInv
    BY TypeInit, LockInit DEF AdvanceInv, Init, FloorRead, LockedSteps
<1>2. AdvanceInv /\ [Next]_vars => AdvanceInv'
    BY AdvanceStep
<1>3. AdvanceInv /\ [Next]_vars
        => [\A c \in Convs : start'[c] < start[c] => Edit(c) \/ Create(c)]_vars
    BY FloorBack
<1>4. QED
    BY <1>1, <1>2, <1>3, PTL DEF Spec, FloorOnlyAdvances

==============================================================================
