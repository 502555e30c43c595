---------------------------- MODULE Badge_proofs -----------------------------
(***************************************************************************)
(* What a badge shows in ConversionApply, for every number of tabs,        *)
(* conversions, transactions, dates and amounts.                           *)
(***************************************************************************)
EXTENDS ConversionApply_proofs

USE DEF ynabVars, rowVars, workVars, pageVars

\* Nobody but a new row gives a conversion more to do.
Steady == Moves \cap {"import", "edit", "zero"} = {}

\* What the next preview of a conversion would find to convert.
Work(c) == {t \in GetTransactions(acct[c], start[c]) : IsConvertible(t)}

Waits == {"ap_wait"} \cup LockedSteps
CountingSteps == {"pv_sync", "pv_badge", "rf_badge"} \cup PastFetch

\* The row a request holds is the conversion's, or the one of a lower floor.
RowCurrent(s, c) ==
    c \in used /\ snap[s][c].acct = acct[c] /\ snap[s][c].start <= start[c]

NothingAbsent == \A t \in Txns : st[t] # "absent"
QueueRead ==
    \A s \in Tabs : pc[s] \in PreviewSteps =>
        \A i \in 1..Len(queue[s]) : RowCurrent(s, queue[s][i])
GroupRead == \A s \in Tabs : pc[s] \in Waits => RowCurrent(s, Group(s))
WorkFetched == \A s \in Tabs : pc[s] \in CountingSteps => Work(Group(s)) \subseteq open[s]
NewUncounted == \A c \in Convs \ used : badge[c] = NoCount
BadgeBound ==
    \A c \in used : badge[c] # NoCount => badge[c] >= Cardinality(Work(c))
BadgeInv ==
    /\ AdvanceInv /\ ConfirmedMarked /\ NothingAbsent
    /\ QueueRead /\ GroupRead /\ WorkFetched /\ NewUncounted /\ BadgeBound

-----------------------------------------------------------------------------
(* Work only gets less. *)

\* No transaction becomes one to convert.
LEMMA WorkFades ==
    ASSUME Steady, TypeInv, NothingAbsent, [Next]_vars, NEW t \in Txns,
           st'[t] = "present", ~IsExcluded(t)'
    PROVE  st[t] = "present" /\ ~IsExcluded(t)
<1> USE DEF IsExcluded, IsConverted, IsSkipped
<1>1. TypeInv'
    BY TypeStep
<1>2. mark'[t] = "none" /\ mark[t] = "none"
    <2>1. mark'[t] \in Marks /\ mark[t] \in Marks
        BY <1>1 DEF TypeInv, TypeOK
    <2>2. QED
        BY <2>1, MarksStay DEF Marks
<1>3. CASE UNCHANGED <<st, amt, mark>>
    BY <1>3
<1>4. ASSUME NEW done \in SUBSET Updates, Store(done), st' = st
      PROVE  st[t] = "present" /\ ~IsExcluded(t)
    <2>1. ~ \E u \in done : u.id = t
        BY <1>2, <1>4, StoreMarks DEF Ids
    <2>2. amt'[t] = amt[t]
        BY <1>4, <2>1 DEF Store
    <2>3. QED
        BY <1>2, <1>4, <2>2
<1>5. ASSUME NEW s \in Tabs, Patch(s)
      PROVE  st[t] = "present" /\ ~IsExcluded(t)
    <2>1. PICK done \in SUBSET {u \in safe[s] : st[u.id] = "present"} :
            Store(done)
        BY <1>5 DEF Patch
    <2>2. done \in SUBSET Updates /\ st' = st
        BY <1>5 DEF Patch, TypeInv, TypeOK
    <2>3. QED
        BY <1>4, <2>1, <2>2
<1>6. CASE LatePatch
    <2>1. PICK u \in late : Store({u}) \/ UNCHANGED <<amt, mark>>
        BY <1>6 DEF LatePatch
    <2>2. {u} \in SUBSET Updates /\ st' = st
        BY <1>6 DEF LatePatch, TypeInv, TypeOK
    <2>3. QED
        BY <1>3, <1>4, <2>1, <2>2
<1>7. ASSUME NEW x \in Txns,
             EditAmount(x) \/ MarkByHand(x) \/ DeleteTxn(x) \/ Import(x)
      PROVE  st[t] = "present" /\ ~IsExcluded(t)
    <2>1. ~Import(x)
        BY DEF NothingAbsent, Import
    <2>2. CASE EditAmount(x)
        <3>1. amt[x].v # 0 /\ st' = st
            BY <2>2 DEF EditAmount, Steady
        <3>2. t = x \/ amt'[t] = amt[t]
            BY <2>2 DEF EditAmount, TypeInv, TypeOK
        <3>3. QED
            BY <1>2, <3>1, <3>2
    <2>3. CASE MarkByHand(x)
        BY <1>2, <2>3 DEF MarkByHand
    <2>4. CASE DeleteTxn(x)
        BY <1>2, <2>4 DEF DeleteTxn, TypeInv, TypeOK
    <2>5. QED
        BY <1>7, <2>1, <2>2, <2>3, <2>4
<1>8. QED
    BY <1>3, <1>5, <1>6, <1>7, WhoWrites

\* A conversion keeps its account, and its floor does not go back.
LEMMA RowsHold ==
    ASSUME Steady, AdvanceInv, [Next]_vars
    PROVE  \A c \in used : /\ c \in Convs /\ acct'[c] = acct[c]
                           /\ start[c] <= start'[c]
<1>1. \A c \in Convs : ~Edit(c)
    BY DEF Steady, Edit
<1>2. ASSUME NEW c \in used
      PROVE  acct'[c] = acct[c]
    <2>1. CASE UNCHANGED acct
        BY <2>1
    <2>2. ASSUME NEW d \in Convs, Create(d)
          PROVE  acct'[c] = acct[c]
        <3>1. c # d /\ c \in Convs
            BY <2>2 DEF Create, AdvanceInv, TypeInv, TypeOK
        <3>2. QED
            BY <2>2, <3>1 DEF Create, AdvanceInv, TypeInv, TypeOK
    <2>3. ASSUME NEW s \in Tabs,
                 \/ Preview(s) \/ OnloadRefresh(s) \/ Submit(s)
                 \/ PreviewStep(s) \/ ApplyStep(s)
          PROVE  UNCHANGED acct
        BY <2>3 DEF Preview, OnloadRefresh, Submit, PreviewStep, BuildGroup,
            FailedGroup, PreviewAborts, PreviewMarkSynced, PreviewSetPending,
            RefreshFetch, RefreshFails, RefreshSetPending, ApplyStep,
            LockedStep, ReadConversion, SkipGroup, EnterLock, ConversionGone,
            FetchForApply, FetchFails, Patch, PatchRejected, PatchTimesOut,
            PatchConfirmed, AnswerLost, ApplyMarkSynced, ApplySetPending,
            ApplySetStartDate, LeaveWithError
    <2>4. CASE WorldStep \/ Delete \/ UNCHANGED vars
        BY <2>1, <2>4 DEF WorldStep, EditAmount, MarkByHand, DeleteTxn, Import,
            InYNAB, LatePatch, Crash, Delete, vars
    <2>5. QED
        BY <1>1, <2>1, <2>2, <2>3, <2>4 DEF Next, ConfigStep
<1>3. ASSUME NEW c \in used
      PROVE  c \in Convs /\ start[c] <= start'[c]
    <2>1. c \in Convs /\ ~Create(c)
        BY DEF Create, AdvanceInv, TypeInv, TypeOK
    <2>2. ~(start'[c] < start[c])
        BY <1>1, <2>1, FloorBack
    <2>3. start[c] \in Dates /\ start'[c] \in Dates
        BY <2>1, TypeStep DEF AdvanceInv, TypeInv, TypeOK
    <2>4. QED
        BY <2>1, <2>2, <2>3, TxnAssumption DEF Dates
<1>4. QED
    BY <1>2, <1>3

\* So what there is to do for a conversion only gets less.
LEMMA WorkShrinks ==
    ASSUME Steady, AdvanceInv, NothingAbsent, [Next]_vars, NEW c \in used
    PROVE  Work(c)' \subseteq Work(c)
<1>1. ASSUME NEW t \in Work(c)'
      PROVE  t \in Work(c)
    <2>1. /\ t \in Txns /\ st'[t] = "present" /\ Home[t] = acct'[c]
          /\ Date[t] >= start'[c] /\ ~IsExcluded(t)' /\ ~IsSplit(t)
        BY <1>1 DEF Work, GetTransactions, IsConvertible, IsSplit
    <2>2. st[t] = "present" /\ ~IsExcluded(t)
        BY <2>1, WorkFades DEF AdvanceInv
    <2>3. acct'[c] = acct[c] /\ start[c] <= start'[c] /\ c \in Convs
        BY RowsHold
    <2>4. start[c] \in Dates /\ start'[c] \in Dates /\ Date[t] \in Dates
        BY <2>1, <2>3, TypeStep, TxnAssumption DEF AdvanceInv, TypeInv, TypeOK,
            Dates
    <2>5. Date[t] >= start[c]
        BY <2>1, <2>3, <2>4, TxnAssumption DEF Dates
    <2>6. QED
        BY <2>1, <2>2, <2>3, <2>5 DEF Work, GetTransactions, IsConvertible
<1>2. QED
    BY <1>1

\* What is fetched by a current row holds all there is to do.
LEMMA FetchFinds ==
    ASSUME AdvanceInv, NEW s \in Tabs, NEW c \in Convs, RowCurrent(s, c)
    PROVE  Work(c) \subseteq
             {t \in GetTransactions(snap[s][c].acct, snap[s][c].start) :
                ~IsExcluded(t)}
<1>1. snap[s][c].start \in Dates /\ start[c] \in Dates
    BY DEF AdvanceInv, TypeInv, TypeOK, Snapshots
<1>2. \A t \in Txns : Date[t] \in Dates
    BY TxnAssumption DEF Dates
<1>3. ASSUME NEW t \in Work(c)
      PROVE  t \in GetTransactions(snap[s][c].acct, snap[s][c].start)
             /\ ~IsExcluded(t)
    <2>1. /\ t \in Txns /\ st[t] = "present" /\ Home[t] = acct[c]
          /\ Date[t] >= start[c] /\ ~IsExcluded(t)
        BY DEF Work, GetTransactions, IsConvertible
    <2>2. Date[t] >= snap[s][c].start
        BY <1>1, <1>2, <2>1, TxnAssumption DEF RowCurrent, Dates
    <2>3. QED
        BY <2>1, <2>2 DEF GetTransactions, RowCurrent
<1>4. QED
    BY <1>3

-----------------------------------------------------------------------------
(* What the steps do to a request's rows, to what it fetched, and to badges. *)

\* A tab that does no server step in the next state, and tells others nothing.
LEMMA OtherTabs ==
    ASSUME TypeInv, [Next]_vars, NEW s \in Tabs, pc'[s] \in ServerSteps
    PROVE  \/ Preview(s) \/ OnloadRefresh(s) \/ Submit(s) \/ PreviewStep(s)
           \/ ApplyStep(s)
           \/ /\ pc'[s] = pc[s] /\ queue'[s] = queue[s]
              /\ snap'[s] = snap[s] /\ open'[s] = open[s]
<1> DEFINE Same == /\ pc'[s] = pc[s] /\ queue'[s] = queue[s]
                   /\ snap'[s] = snap[s] /\ open'[s] = open[s]
<1>1. ASSUME NEW r \in Tabs, r # s,
             \/ Preview(r) \/ OnloadRefresh(r) \/ Submit(r) \/ BuildGroup(r)
             \/ PreviewMarkSynced(r) \/ RefreshFetch(r)
             \/ ReadConversion(r) \/ EnterLock(r)
             \/ FetchForApply(r) \/ Patch(r) \/ PatchConfirmed(r)
             \/ ApplyMarkSynced(r) \/ ApplySetPending(r)
      PROVE  Same
    <2>1. CASE \/ Preview(r) \/ OnloadRefresh(r) \/ Submit(r)
               \/ ReadConversion(r) \/ EnterLock(r)
        BY <1>1, <2>1 DEF Preview, OnloadRefresh, Submit, ReadConversion,
            EnterLock, Goto, TypeInv, TypeOK
    <2>2. CASE BuildGroup(r) \/ RefreshFetch(r) \/ FetchForApply(r)
        BY <1>1, <2>2 DEF BuildGroup, RefreshFetch, FetchForApply, Goto,
            TypeInv, TypeOK
    <2>3. CASE \/ PreviewMarkSynced(r) \/ Patch(r) \/ PatchConfirmed(r)
               \/ ApplyMarkSynced(r) \/ ApplySetPending(r)
        BY <1>1, <2>3 DEF PreviewMarkSynced, Patch, PatchConfirmed,
            ApplyMarkSynced, ApplySetPending, Goto, TypeInv, TypeOK
    <2>4. QED
        BY <1>1, <2>1, <2>2, <2>3
<1>2. ASSUME NEW r \in Tabs, r # s,
             \/ FailedGroup(r) \/ PreviewAborts(r) \/ PreviewSetPending(r)
             \/ RefreshFails(r) \/ RefreshSetPending(r)
             \/ SkipGroup(r) \/ ConversionGone(r)
             \/ FetchFails(r) \/ PatchRejected(r) \/ PatchTimesOut(r)
             \/ AnswerLost(r) \/ ApplySetStartDate(r)
      PROVE  Same
    <2>1. /\ \/ NextGroup(r, "pv_fetch") \/ NextGroup(r, "rf_fetch")
             \/ NextGroup(r, "ap_read")
             \/ Abort(r, "shown") \/ Abort(r, "idle")
          /\ ForgetWork(r) \/ open' = open
        BY <1>2 DEF FailedGroup, PreviewAborts, PreviewSetPending, RefreshFails,
            RefreshSetPending, SkipGroup, ConversionGone, FetchFails,
            PatchRejected, PatchTimesOut, AnswerLost, ApplySetStartDate,
            LeaveWithError
    <2>2. open'[s] = open[s]
        BY <1>2, <2>1 DEF ForgetWork, TypeInv, TypeOK
    <2>3. pc'[s] = pc[s] /\ queue'[s] = queue[s] /\ snap'[s] = snap[s]
        BY <1>2, <2>1 DEF NextGroup, Abort, TypeInv, TypeOK
    <2>4. QED
        BY <2>2, <2>3
<1>3. CASE ConfigStep \/ (WorldStep /\ ~Crash) \/ UNCHANGED vars
    BY <1>3 DEF ConfigStep, Delete, Create, Edit, WorldStep, EditAmount,
        MarkByHand, DeleteTxn, Import, InYNAB, LatePatch, vars
<1>4. ~Crash
    BY DEF Crash, ServerSteps, PreviewSteps, RefreshSteps, ApplySteps, LockedSteps
<1>5. QED
    BY <1>1, <1>2, <1>3, <1>4
    DEF Next, PreviewStep, ApplyStep, LockedStep

\* A preview or a refresh reads all rows at once, and keeps them.
LEMMA QueueFrame ==
    ASSUME TypeInv, [Next]_vars, NEW s \in Tabs, pc'[s] \in PreviewSteps
    PROVE  \/ Preview(s) \/ OnloadRefresh(s)
           \/ /\ pc[s] \in PreviewSteps /\ snap'[s] = snap[s]
              /\ \/ queue'[s] = queue[s]
                 \/ Len(queue[s]) > 1 /\ queue'[s] = Tail(queue[s])
<1> USE DEF PreviewSteps, RefreshSteps
<1>1. pc'[s] \in ServerSteps
    BY DEF ServerSteps
<1>2. ~Submit(s)
    BY DEF Submit, Goto, TypeInv, TypeOK
<1>3. ~ApplyStep(s)
    BY NextGroupFrame DEF ApplyStep, LockedStep, ReadConversion, SkipGroup,
        EnterLock, ConversionGone, FetchForApply, FetchFails, Patch,
        PatchRejected, PatchTimesOut, PatchConfirmed, AnswerLost,
        ApplyMarkSynced, ApplySetPending, ApplySetStartDate, LeaveWithError,
        Goto, TypeInv, TypeOK
<1>4. CASE BuildGroup(s) \/ PreviewMarkSynced(s) \/ RefreshFetch(s)
    BY <1>4 DEF BuildGroup, PreviewMarkSynced, RefreshFetch
<1>5. CASE \/ FailedGroup(s) \/ PreviewSetPending(s)
           \/ RefreshFails(s) \/ RefreshSetPending(s)
    <2>1. pc[s] \in PreviewSteps
          /\ (NextGroup(s, "pv_fetch") \/ NextGroup(s, "rf_fetch"))
        BY <1>5 DEF FailedGroup, PreviewSetPending, RefreshFails,
            RefreshSetPending
    <2>2. ~Abort(s, "shown")
        BY DEF Abort, TypeInv, TypeOK
    <2>3. QED
        BY <2>1, <2>2 DEF NextGroup, TypeInv, TypeOK
<1>6. ~PreviewAborts(s)
    BY DEF PreviewAborts, Abort, TypeInv, TypeOK
<1>7. QED
    BY <1>1, <1>2, <1>3, <1>4, <1>5, <1>6, OtherTabs DEF PreviewStep

\* An apply reads its row before the lock and its floor again under it.
LEMMA GroupFrame ==
    ASSUME TypeInv, [Next]_vars, NEW s \in Tabs, pc'[s] \in Waits
    PROVE  \/ ReadConversion(s) \/ EnterLock(s)
           \/ pc[s] \in Waits /\ queue'[s] = queue[s] /\ snap'[s] = snap[s]
<1> USE DEF Waits
<1>1. CASE pc'[s] \in LockedSteps
    BY <1>1, LockedFrame
<1>2. CASE pc'[s] = "ap_wait"
    <2>1. pc'[s] \in ServerSteps
        BY <1>2 DEF ServerSteps, ApplySteps
    <2>2. ~(Preview(s) \/ OnloadRefresh(s) \/ Submit(s) \/ PreviewStep(s))
        BY <1>2, NextGroupFrame DEF Preview, OnloadRefresh, Submit, PreviewStep,
            BuildGroup, FailedGroup, PreviewAborts, PreviewMarkSynced,
            PreviewSetPending, RefreshFetch, RefreshFails, RefreshSetPending,
            Goto, TypeInv, TypeOK
    <2>3. ApplyStep(s) => ReadConversion(s)
        BY <1>2, NextGroupFrame DEF ApplyStep, LockedStep, SkipGroup,
            EnterLock, ConversionGone, FetchForApply, FetchFails, Patch,
            PatchRejected, PatchTimesOut, PatchConfirmed, AnswerLost,
            ApplyMarkSynced, ApplySetPending, ApplySetStartDate,
            LeaveWithError, Goto, TypeInv, TypeOK
    <2>4. QED
        BY <1>2, <2>1, <2>2, <2>3, OtherTabs
<1>3. QED
    BY <1>1, <1>2

\* What is counted has been fetched for the group it is counted for.
LEMMA FetchFrame ==
    ASSUME TypeInv, [Next]_vars, NEW s \in Tabs, pc'[s] \in CountingSteps
    PROVE  \/ BuildGroup(s) \/ RefreshFetch(s) \/ FetchForApply(s)
           \/ /\ pc[s] \in CountingSteps
              /\ queue'[s] = queue[s] /\ open'[s] = open[s]
<1> USE DEF CountingSteps, PastFetch
<1>1. pc'[s] \in ServerSteps
    BY DEF ServerSteps, PreviewSteps, RefreshSteps, ApplySteps, LockedSteps
<1>2. ~(Preview(s) \/ OnloadRefresh(s) \/ Submit(s))
    BY DEF Preview, OnloadRefresh, Submit, Goto, TypeInv, TypeOK
<1>3. ~ (\/ FailedGroup(s) \/ PreviewAborts(s) \/ PreviewSetPending(s)
         \/ RefreshFails(s) \/ RefreshSetPending(s)
         \/ ReadConversion(s) \/ SkipGroup(s) \/ EnterLock(s)
         \/ ConversionGone(s) \/ FetchFails(s) \/ PatchRejected(s)
         \/ PatchTimesOut(s) \/ AnswerLost(s) \/ ApplySetStartDate(s))
    BY NextGroupFrame DEF FailedGroup, PreviewAborts, PreviewSetPending,
        RefreshFails, RefreshSetPending, ReadConversion, SkipGroup, EnterLock,
        ConversionGone, FetchFails, PatchRejected, PatchTimesOut, AnswerLost,
        ApplySetStartDate, LeaveWithError, Goto, TypeInv, TypeOK
<1>4. CASE \/ PreviewMarkSynced(s) \/ Patch(s) \/ PatchConfirmed(s)
           \/ ApplyMarkSynced(s) \/ ApplySetPending(s)
    BY <1>4 DEF PreviewMarkSynced, Patch, PatchConfirmed, ApplyMarkSynced,
        ApplySetPending
<1>5. QED
    BY <1>1, <1>2, <1>3, <1>4, OtherTabs DEF PreviewStep, ApplyStep, LockedStep

\* A badge is written by a count of what its writer fetched.
LEMMA BadgeWrites ==
    ASSUME TypeInv, [Next]_vars, NEW c \in Convs
    PROVE  \/ badge'[c] = badge[c]
           \/ /\ c \in live
              /\ \E s \in Tabs : \E applied \in {{}, conf[s]} :
                   /\ pc[s] \in CountingSteps /\ c = Group(s)
                   /\ badge'[c] = PendingCount(open[s], applied)
<1>1. ASSUME NEW s \in Tabs,
             PreviewSetPending(s) \/ RefreshSetPending(s) \/ ApplySetPending(s)
      PROVE  \/ badge'[c] = badge[c]
             \/ /\ c \in live
                /\ \E applied \in {{}, conf[s]} :
                     /\ pc[s] \in CountingSteps /\ c = Group(s)
                     /\ badge'[c] = PendingCount(open[s], applied)
    <2>1. pc[s] \in CountingSteps
        BY <1>1 DEF PreviewSetPending, RefreshSetPending, ApplySetPending,
            CountingSteps, PastFetch
    <2>2. PICK applied \in {{}, conf[s]} :
            WriteBadge(Group(s), PendingCount(open[s], applied))
        BY <1>1 DEF PreviewSetPending, RefreshSetPending, ApplySetPending, Applied
    <2>3. QED
        BY <2>1, <2>2 DEF WriteBadge, TypeInv, TypeOK
<1>2. ASSUME NEW s \in Tabs,
             \/ Preview(s) \/ OnloadRefresh(s) \/ Submit(s)
             \/ (PreviewStep(s) /\ ~PreviewSetPending(s) /\ ~RefreshSetPending(s))
             \/ (ApplyStep(s) /\ ~ApplySetPending(s))
      PROVE  UNCHANGED badge
    BY <1>2 DEF Preview, OnloadRefresh, Submit, PreviewStep, BuildGroup,
        FailedGroup, PreviewAborts, PreviewMarkSynced, RefreshFetch,
        RefreshFails, ApplyStep, LockedStep, ReadConversion, SkipGroup,
        EnterLock, ConversionGone, FetchForApply, FetchFails, Patch,
        PatchRejected, PatchTimesOut, PatchConfirmed, AnswerLost,
        ApplyMarkSynced, ApplySetStartDate, LeaveWithError
<1>3. CASE ConfigStep \/ WorldStep \/ UNCHANGED vars
    BY <1>3 DEF ConfigStep, Delete, Create, Edit, WorldStep, EditAmount,
        MarkByHand, DeleteTxn, Import, InYNAB, LatePatch, Crash, vars
<1>4. QED
    BY <1>1, <1>2, <1>3 DEF Next

-----------------------------------------------------------------------------
(* The invariant. *)

\* A row that was current stays so.
LEMMA StaysCurrent ==
    ASSUME Steady, AdvanceInv, [Next]_vars, NEW s \in Tabs, NEW c \in Convs,
           RowCurrent(s, c), snap'[s] = snap[s]
    PROVE  c \in used' /\ snap'[s][c].acct = acct'[c]
           /\ snap'[s][c].start <= start'[c]
<1>1. c \in used /\ used \subseteq used'
    BY FloorMoves DEF AdvanceInv, RowCurrent
<1>2. acct'[c] = acct[c] /\ start[c] <= start'[c]
    BY <1>1, RowsHold
<1>3. start[c] \in Dates /\ start'[c] \in Dates /\ snap[s][c].start \in Dates
    BY TypeStep DEF AdvanceInv, TypeInv, TypeOK, Snapshots
<1>4. QED
    BY <1>1, <1>2, <1>3, TxnAssumption DEF RowCurrent, Dates

\* A row just read is current.
LEMMA JustRead ==
    ASSUME AdvanceInv, NEW c \in live, NEW row, row = RowOf(c)
    PROVE  c \in used /\ row.acct = acct[c] /\ row.start <= start[c]
<1>1. c \in Convs /\ start[c] \in Nat
    BY TxnAssumption DEF AdvanceInv, TypeInv, TypeOK, Dates
<1>2. QED
    BY <1>1 DEF AdvanceInv, RowOf

\* The conversions of a page are the rows that were there.
LEMMA GroupsOf ==
    ASSUME AdvanceInv, NEW cs \in SUBSET live, NEW q \in SetToSeqs(cs),
           NEW i \in 1..Len(q)
    PROVE  q[i] \in live
<1>1. IsFiniteSet(cs)
    BY ConvAssumption, FS_Subset DEF AdvanceInv, TypeInv, TypeOK
<1>2. Cardinality(cs) \in Nat
    BY <1>1, FS_CardinalityType
<1>3. q \in [1..Cardinality(cs) -> cs]
    BY DEF SetToSeqs
<1>4. Len(q) = Cardinality(cs)
    BY <1>2, <1>3
<1>5. QED
    BY <1>3, <1>4

\* Previews and refreshes work from current rows.
LEMMA QueueStep ==
    ASSUME Steady, BadgeInv, [Next]_vars
    PROVE  QueueRead'
<1>1. AdvanceInv /\ TypeInv /\ TypeInv'
    BY TypeStep DEF BadgeInv, AdvanceInv
<1>2. ASSUME NEW s \in Tabs, pc'[s] \in PreviewSteps, NEW i \in 1..Len(queue'[s])
      PROVE  /\ queue'[s][i] \in used'
             /\ snap'[s][queue'[s][i]].acct = acct'[queue'[s][i]]
             /\ snap'[s][queue'[s][i]].start <= start'[queue'[s][i]]
    <2>0. queue'[s][i] \in Convs
        BY <1>1, <1>2 DEF TypeInv, TypeOK
    <2>c. PICK c \in Convs : c = queue'[s][i]
        BY <2>0
    <2>1. CASE Preview(s) \/ OnloadRefresh(s)
        <3>1. PICK cs \in SUBSET live : \E q \in SetToSeqs(cs) :
                queue' = [queue EXCEPT ![s] = q]
            BY <2>1 DEF Preview, OnloadRefresh
        <3>2. PICK q \in SetToSeqs(cs) : queue' = [queue EXCEPT ![s] = q]
            BY <3>1
        <3>3. queue'[s] = q
            BY <1>1, <3>2 DEF TypeInv, TypeOK
        <3>4. c \in live
            BY <1>1, <1>2, <2>c, <3>3, GroupsOf
        <3>5. snap'[s] = [d \in Convs |-> RowOf(d)]
              /\ UNCHANGED <<used, acct, start>>
            BY <1>1, <2>1 DEF Preview, OnloadRefresh, TypeInv, TypeOK
        <3>6. snap'[s][c] = RowOf(c)
            BY <3>5
        <3>7. QED
            BY <1>1, <2>c, <3>4, <3>5, <3>6, JustRead
    <2>2. CASE /\ pc[s] \in PreviewSteps /\ snap'[s] = snap[s]
               /\ \/ queue'[s] = queue[s]
                  \/ Len(queue[s]) > 1 /\ queue'[s] = Tail(queue[s])
        <3>1. queue[s] \in Seq(Convs) /\ Len(queue[s]) \in Nat
            BY <1>1 DEF TypeInv, TypeOK
        <3>2. PICK j \in 1..Len(queue[s]) : c = queue[s][j]
            <4>1. CASE queue'[s] = queue[s]
                BY <1>2, <2>c, <4>1
            <4>2. CASE Len(queue[s]) > 1 /\ queue'[s] = Tail(queue[s])
                <5>1. Len(queue'[s]) = Len(queue[s]) - 1 /\ queue[s] # <<>>
                    BY <3>1, <4>2
                <5>2. i + 1 \in 1..Len(queue[s])
                    BY <1>2, <3>1, <5>1
                <5>3. queue'[s][i] = queue[s][i + 1]
                    BY <1>2, <3>1, <4>2, <5>1
                <5>4. QED
                    BY <2>c, <5>2, <5>3
            <4>3. QED
                BY <2>2, <4>1, <4>2
        <3>3. RowCurrent(s, c)
            BY <2>2, <3>2 DEF BadgeInv, QueueRead
        <3>4. QED
            BY <1>1, <2>2, <2>c, <3>3, StaysCurrent
    <2>3. QED
        BY <1>1, <1>2, <2>1, <2>2, QueueFrame
<1>3. QED
    BY <1>2 DEF QueueRead, RowCurrent

\* Applies work from current rows.
LEMMA GroupStep ==
    ASSUME Steady, BadgeInv, [Next]_vars
    PROVE  GroupRead'
<1>1. AdvanceInv /\ TypeInv /\ TypeInv'
    BY TypeStep DEF BadgeInv, AdvanceInv
<1>2. ASSUME NEW s \in Tabs, pc'[s] \in Waits
      PROVE  RowCurrent(s, Group(s))'
    <2>1. CASE ReadConversion(s)
        <3>1. Group(s) \in live /\ Group(s) \in Convs /\ Group(s)' = Group(s)
              /\ UNCHANGED <<used, acct, start>>
            BY <1>1, <2>1 DEF ReadConversion, Group, TypeInv, TypeOK
        <3>2. snap'[s][Group(s)] = RowOf(Group(s))
            BY <1>1, <2>1, <3>1 DEF ReadConversion, TypeInv, TypeOK
        <3>3. QED
            BY <1>1, <3>1, <3>2, JustRead DEF RowCurrent
    <2>2. CASE EnterLock(s)
        <3>1. Group(s) \in live /\ Group(s) \in Convs /\ Group(s)' = Group(s)
              /\ UNCHANGED <<used, acct, start>>
            BY <1>1, <2>2 DEF EnterLock, Group, TypeInv, TypeOK
        <3>2. RowCurrent(s, Group(s))
            BY <2>2 DEF EnterLock, BadgeInv, GroupRead, Waits
        <3>3. snap'[s][Group(s)].acct = snap[s][Group(s)].acct
              /\ snap'[s][Group(s)].start = start[Group(s)]
            BY <1>1, <2>2, <3>1 DEF EnterLock, TypeInv, TypeOK, Snapshots
        <3>4. start[Group(s)] \in Nat
            BY <1>1, <3>1, TxnAssumption DEF TypeInv, TypeOK, Dates
        <3>5. QED
            BY <3>1, <3>2, <3>3, <3>4 DEF RowCurrent
    <2>3. CASE pc[s] \in Waits /\ queue'[s] = queue[s] /\ snap'[s] = snap[s]
        <3>0. Group(s) \in Convs /\ Group(s)' = Group(s)
            BY <1>1, <2>3, GroupType DEF Group, Waits, ServerSteps, ApplySteps
        <3>c. PICK c \in Convs : c = Group(s)
            BY <3>0
        <3>1. Group(s)' = c /\ RowCurrent(s, c)
            BY <2>3, <3>0, <3>c DEF BadgeInv, GroupRead
        <3>2. c \in used' /\ snap'[s][c].acct = acct'[c]
              /\ snap'[s][c].start <= start'[c]
            BY <1>1, <2>3, <3>1, StaysCurrent
        <3>3. QED
            BY <3>1, <3>2 DEF RowCurrent
    <2>4. QED
        BY <1>1, <1>2, <2>1, <2>2, <2>3, GroupFrame
<1>3. QED
    BY <1>2 DEF GroupRead

\* What is counted was fetched, and nothing came after.
LEMMA FetchStep ==
    ASSUME Steady, BadgeInv, [Next]_vars
    PROVE  WorkFetched'
<1>1. AdvanceInv /\ TypeInv /\ NothingAbsent /\ TypeInv'
    BY TypeStep DEF BadgeInv, AdvanceInv
<1>2. ASSUME NEW s \in Tabs, pc[s] \in PreviewSteps \cup LockedSteps
      PROVE  Group(s) \in Convs /\ RowCurrent(s, Group(s))
    <2>1. Group(s) \in Convs
        BY <1>1, <1>2, GroupType DEF ServerSteps, ApplySteps
    <2>2. CASE pc[s] \in PreviewSteps
        <3>1. queue[s] \in Seq(Convs) /\ queue[s] # <<>>
            BY <1>1, <2>2 DEF TypeInv, TypeOK, Busy, ServerSteps
        <3>2. 1 \in 1..Len(queue[s]) /\ Group(s) = queue[s][1]
            BY <3>1 DEF Group
        <3>3. QED
            BY <2>1, <2>2, <3>2 DEF BadgeInv, QueueRead
    <2>3. CASE pc[s] \in LockedSteps
        BY <2>1, <2>3 DEF BadgeInv, GroupRead, Waits
    <2>4. QED
        BY <1>2, <2>2, <2>3
<1>3. ASSUME NEW s \in Tabs, pc'[s] \in CountingSteps
      PROVE  Work(Group(s))' \subseteq open'[s]
    <2>0. pc[s] \in PreviewSteps \cup LockedSteps /\ Group(s)' = Group(s)
        BY <1>1, <1>3, FetchFrame DEF BuildGroup, RefreshFetch, FetchForApply,
            Group, CountingSteps, PastFetch, PreviewSteps, RefreshSteps,
            LockedSteps
    <2>c. PICK c \in Convs : c = Group(s)
        BY <1>2, <2>0
    <2>1. RowCurrent(s, c) /\ c \in used
        BY <1>2, <2>0, <2>c DEF RowCurrent
    <2>2. Work(c)' \subseteq Work(c)
        BY <1>1, <2>1, WorkShrinks
    <2>3. CASE BuildGroup(s) \/ RefreshFetch(s) \/ FetchForApply(s)
        <3>1. open'[s] = {t \in GetTransactions(snap[s][c].acct, snap[s][c].start) :
                            ~IsExcluded(t)}
            BY <1>1, <2>3, <2>c DEF BuildGroup, RefreshFetch, FetchForApply,
                TypeInv, TypeOK
        <3>2. Work(c) \subseteq open'[s]
            BY <1>1, <2>1, <3>1, FetchFinds
        <3>3. QED
            BY <2>0, <2>c, <2>2, <3>2 DEF Work
    <2>4. CASE /\ pc[s] \in CountingSteps
               /\ queue'[s] = queue[s] /\ open'[s] = open[s]
        <3>1. Work(c) \subseteq open[s]
            BY <2>4, <2>c DEF BadgeInv, WorkFetched
        <3>2. QED
            BY <2>0, <2>c, <2>2, <2>4, <3>1 DEF Work
    <2>5. QED
        BY <1>1, <1>3, <2>3, <2>4, FetchFrame
<1>4. QED
    BY <1>3 DEF WorkFetched

\* A badge stays at or above what there is to do.
LEMMA BoundStep ==
    ASSUME Steady, BadgeInv, [Next]_vars
    PROVE  NewUncounted' /\ BadgeBound'
<1>1. AdvanceInv /\ TypeInv /\ NothingAbsent /\ used \subseteq used'
    BY FloorMoves DEF BadgeInv, AdvanceInv
<1>2. NewUncounted'
    <2>1. ASSUME NEW c \in Convs \ used'
          PROVE  badge'[c] = NoCount
        <3>1. c \notin used /\ c \notin live
            BY <1>1 DEF AdvanceInv
        <3>2. badge'[c] = badge[c]
            BY <1>1, <3>1, BadgeWrites
        <3>3. QED
            BY <3>1, <3>2 DEF BadgeInv, NewUncounted
    <2>2. QED
        BY <2>1 DEF NewUncounted
<1>3. ASSUME NEW c \in used', badge'[c] # NoCount
      PROVE  badge'[c] >= Cardinality(Work(c)')
    <2>1. c \in Convs
        BY TypeStep DEF BadgeInv, AdvanceInv, TypeInv, TypeOK
    <2>2. c \in used
        <3>1. CASE c \notin used
            <4>1. badge'[c] = badge[c]
                BY <1>1, <2>1, <3>1, BadgeWrites DEF AdvanceInv
            <4>2. QED
                BY <1>3, <2>1, <3>1, <4>1 DEF BadgeInv, NewUncounted
        <3>2. QED
            BY <3>1
    <2>3. Work(c)' \subseteq Work(c) /\ Work(c) \in SUBSET Txns
        BY <1>1, <2>2, WorkShrinks DEF Work, GetTransactions
    <2>4. ASSUME NEW bound \in SUBSET Txns, Work(c) \subseteq bound
          PROVE  /\ Cardinality(bound) \in Nat /\ Cardinality(Work(c)') \in Nat
                 /\ Cardinality(Work(c)') <= Cardinality(bound)
        <3>1. IsFiniteSet(bound)
            BY TxnAssumption, FS_Subset
        <3>2. Work(c)' \subseteq bound
            BY <2>3, <2>4
        <3>3. QED
            BY <3>1, <3>2, FS_Subset, FS_CardinalityType
    <2>5. CASE badge'[c] = badge[c]
        <3>1. badge[c] \in Nat /\ badge[c] >= Cardinality(Work(c))
            BY <1>1, <1>3, <2>1, <2>2, <2>5
            DEF BadgeInv, BadgeBound, TypeInv, TypeOK, Counts
        <3>2. QED
            BY <2>3, <2>4, <2>5, <3>1
    <2>6. ASSUME NEW s \in Tabs, NEW applied \in {{}, conf[s]},
                 pc[s] \in CountingSteps, c = Group(s),
                 badge'[c] = PendingCount(open[s], applied)
          PROVE  badge'[c] >= Cardinality(Work(c)')
        <3> DEFINE counted == {t \in open[s] : ~IsSplit(t) /\ t \notin applied}
        <3>1. Work(c) \subseteq open[s]
            BY <2>6 DEF BadgeInv, WorkFetched
        <3>2. \A t \in Work(c) : ~IsSplit(t) /\ mark[t] = "none"
            BY <1>1, <2>3 DEF Work, IsConvertible, IsExcluded, IsConverted,
                IsSkipped, TypeInv, TypeOK, Marks
        <3>3. \A t \in applied : mark[t] # "none"
            BY <2>6 DEF BadgeInv, ConfirmedMarked
        <3>4. Work(c) \subseteq counted
            BY <3>1, <3>2, <3>3
        <3>5. counted \in SUBSET Txns
            BY <1>1 DEF TypeInv, TypeOK
        <3>6. badge'[c] = Cardinality(counted)
            BY <2>6 DEF PendingCount
        <3> HIDE DEF counted
        <3>7. QED
            BY <2>4, <3>4, <3>5, <3>6
    <2>7. QED
        BY <1>1, <2>1, <2>5, <2>6, BadgeWrites
<1>4. QED
    BY <1>2, <1>3 DEF BadgeBound

\* Every step keeps the invariant.
LEMMA BadgeStep ==
    ASSUME Steady, BadgeInv, [Next]_vars
    PROVE  BadgeInv'
<1>1. AdvanceInv' /\ TypeInv
    BY AdvanceStep DEF BadgeInv, AdvanceInv, Steady
<1>2. ConfirmedMarked'
    BY ConfirmedStep DEF BadgeInv, AdvanceInv
<1>3. NothingAbsent'
    <2>1. CASE UNCHANGED st
        BY <2>1 DEF BadgeInv, NothingAbsent
    <2>2. ASSUME NEW t \in Txns, DeleteTxn(t) \/ Import(t)
          PROVE  NothingAbsent'
        BY <1>1, <2>2 DEF DeleteTxn, Import, BadgeInv, NothingAbsent, TypeInv,
            TypeOK
    <2>3. (\E s \in Tabs : Patch(s)) \/ LatePatch => UNCHANGED st
        BY DEF Patch, LatePatch
    <2>4. \A t \in Txns : EditAmount(t) \/ MarkByHand(t) => UNCHANGED st
        BY DEF EditAmount, MarkByHand
    <2>5. QED
        BY <1>1, <2>1, <2>2, <2>3, <2>4, WhoWrites
<1>4. QED
    BY <1>1, <1>2, <1>3, QueueStep, GroupStep, FetchStep, BoundStep DEF BadgeInv

\* Without imports, settings edits and amounts typed over a zero, a badge never
\* shows less than the next preview would find, for any number of tabs that
\* preview, refresh and apply at once, conversions created and deleted,
\* transactions changed or removed, answers lost, and restarts.
THEOREM BadgeNeverLow ==
    ASSUME Moves \cap {"import", "edit", "zero"} = {}
    PROVE  Spec => []BadgeNeverHidesWork
<1> USE DEF Steady
<1>1. Init => BadgeInv
    <2>1. Init => AdvanceInv
        BY TypeInit, LockInit DEF AdvanceInv, Init, FloorRead, LockedSteps
    <2>2. Init => ConfirmedMarked /\ NothingAbsent
        BY DEF Init, ConfirmedMarked, NothingAbsent
    <2>3. Init => QueueRead /\ GroupRead /\ WorkFetched
        BY DEF Init, QueueRead, GroupRead, WorkFetched, CountingSteps, PastFetch,
            PreviewSteps, RefreshSteps, Waits, LockedSteps
    <2>4. Init => NewUncounted /\ BadgeBound
        BY ConvAssumption DEF Init, NewUncounted, BadgeBound
    <2>5. QED
        BY <2>1, <2>2, <2>3, <2>4 DEF BadgeInv
<1>2. BadgeInv /\ [Next]_vars => BadgeInv'
    BY BadgeStep
<1>3. BadgeInv => BadgeNeverHidesWork
    BY DEF BadgeInv, AdvanceInv, BadgeBound, BadgeNeverHidesWork, Work
<1>4. QED
    BY <1>1, <1>2, <1>3, PTL DEF Spec
=============================================================================
