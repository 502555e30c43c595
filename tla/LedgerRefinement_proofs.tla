----------------------- MODULE LedgerRefinement_proofs -----------------------
(***************************************************************************)
(* ConversionApply implements the Ledger, for every number of tabs,        *)
(* conversions, transactions, dates and amounts.                           *)
(***************************************************************************)
EXTENDS ConversionApply_proofs

USE DEF ynabVars, rowVars, workVars, pageVars

-----------------------------------------------------------------------------
(* Without anybody else writing, no two conversions read one account, so a *)
(* request between its fetch and its PATCH has its transactions to itself.  *)

RowsDiffer ==
    /\ live \subseteq used
    /\ \A c, d \in live : acct[c] = acct[d] => c = d
RowsRead ==
    \A s \in Tabs : pc[s] \in Reading =>
        Group(s) \in live /\ snap[s][Group(s)].acct = acct[Group(s)]
Shows(u) ==
    /\ ~IsExcluded(u.id) /\ ~IsSplit(u.id)
    /\ u.action = "skip" \/ amt[u.id] = u.original
SafeAlone ==
    \A s \in Tabs : pc[s] = "ap_patch" =>
        \A u \in safe[s] : Home[u.id] = acct[Group(s)] /\ Shows(u)
RefInv ==
    /\ TypeInv /\ HoldsLock /\ NothingLate
    /\ IsCalm => RowsDiffer /\ RowsRead /\ SafeAlone

\* Calm rows stay as they are, and new ones have an account of their own.
LEMMA RowsStay ==
    ASSUME IsCalm, TypeInv, RowsDiffer, [Next]_vars
    PROVE  /\ RowsDiffer'
           /\ live \subseteq live'
           /\ \A c \in live : acct'[c] = acct[c]
<1>1. CASE UNCHANGED <<live, used, acct>>
    BY <1>1 DEF RowsDiffer
<1>2. ASSUME NEW c \in Convs, Create(c)
      PROVE  /\ RowsDiffer'
             /\ live \subseteq live'
             /\ \A d \in live : acct'[d] = acct[d]
    <2>1. PICK a \in Accounts : ~AccountTaken(a, c)
                                /\ acct' = [acct EXCEPT ![c] = a]
        BY <1>2 DEF Create
    <2>2. c \notin live /\ live' = live \cup {c} /\ used' = used \cup {c}
        BY <1>2 DEF Create, RowsDiffer
    <2>3. acct'[c] = a /\ \A d \in live : d \in Convs /\ acct'[d] = acct[d]
        BY <2>1, <2>2 DEF TypeInv, TypeOK
    <2>4. \A d \in live : acct[d] # a
        BY <2>1, <2>2 DEF AccountTaken
    <2>5. \A d, e \in live' : acct'[d] = acct'[e] => d = e
        BY <2>2, <2>3, <2>4 DEF RowsDiffer
    <2>6. QED
        BY <2>2, <2>3, <2>5 DEF RowsDiffer
<1>3. ~Delete /\ \A c \in Convs : ~Edit(c)
    BY DEF IsCalm, Delete, Edit
<1>4. ASSUME NEW s \in Tabs,
             Preview(s) \/ OnloadRefresh(s) \/ Submit(s) \/ PreviewStep(s)
      PROVE  UNCHANGED <<live, used, acct>>
    BY <1>4 DEF Preview, OnloadRefresh, Submit, PreviewStep, BuildGroup,
        FailedGroup, PreviewAborts, PreviewMarkSynced, PreviewSetPending,
        RefreshFetch, RefreshFails, RefreshSetPending
<1>5. ASSUME NEW s \in Tabs, ApplyStep(s)
      PROVE  UNCHANGED <<live, used, acct>>
    BY <1>5 DEF ApplyStep, LockedStep, ReadConversion, SkipGroup, EnterLock,
        ConversionGone, FetchForApply, FetchFails, Patch, PatchRejected,
        PatchTimesOut, PatchConfirmed, AnswerLost, ApplyMarkSynced,
        ApplySetPending, ApplySetStartDate, LeaveWithError
<1>6. CASE WorldStep \/ UNCHANGED vars
    BY <1>1, <1>6 DEF WorldStep, EditAmount, MarkByHand, DeleteTxn, Import,
        InYNAB, LatePatch, Crash, vars
<1>7. CASE ConfigStep
    BY <1>2, <1>3, <1>7 DEF ConfigStep
<1>8. CASE \E s \in Tabs : \/ Preview(s) \/ OnloadRefresh(s) \/ PreviewStep(s)
                           \/ Submit(s) \/ ApplyStep(s)
    <2>1. UNCHANGED <<live, used, acct>>
        BY <1>4, <1>5, <1>8
    <2>2. QED
        BY <1>1, <2>1
<1>9. QED
    BY <1>6, <1>7, <1>8 DEF Next

\* Without late PATCHes none is pending, and that stays so.
LEMMA LateStep ==
    ASSUME TypeInv, NothingLate, [Next]_vars
    PROVE  NothingLate'
<1>1. "late" \notin Moves => ~LatePatch
    BY DEF NothingLate, LatePatch
<1>2. ASSUME "late" \notin Moves, NEW s \in Tabs, FetchForApply(s) \/ Patch(s)
      PROVE  late' = late
    BY <1>2 DEF FetchForApply, Patch
<1>3. QED
    BY <1>1, <1>2, WhichStepsWrite DEF NothingLate, QuietStep

\* Every step keeps it that, without anybody else writing, a request between
\* its fetch and its PATCH has its transactions to itself, as they were shown.
LEMMA RefStep == RefInv /\ [Next]_vars => RefInv'
<1> SUFFICES ASSUME RefInv, [Next]_vars
             PROVE  RefInv'
    OBVIOUS
<1>1. /\ TypeInv /\ HoldsLock /\ NothingLate
      /\ TypeInv' /\ HoldsLock' /\ NothingLate'
    BY TypeStep, LockStep, LateStep DEF RefInv
<1>2. SUFFICES ASSUME IsCalm
               PROVE  RowsDiffer' /\ RowsRead' /\ SafeAlone'
    BY <1>1 DEF RefInv, IsCalm
<1>3. /\ RowsDiffer /\ RowsRead /\ SafeAlone
      /\ RowsDiffer' /\ live \subseteq live'
      /\ \A c \in live : acct'[c] = acct[c]
    BY <1>1, <1>2, RowsStay DEF RefInv
<1>4. RowsRead'
    <2>1. ASSUME NEW s \in Tabs, pc'[s] \in Reading
          PROVE  Group(s)' \in live' /\ snap'[s][Group(s)'].acct = acct'[Group(s)']
        <3>1. CASE ReadConversion(s)
            <4>1. Group(s) \in live /\ Group(s)' = Group(s) /\ Group(s) \in Convs
                BY <1>1, <3>1 DEF ReadConversion, Group, TypeInv, TypeOK
            <4>2. snap'[s][Group(s)].acct = acct[Group(s)]
                BY <1>1, <3>1, <4>1 DEF ReadConversion, RowOf, TypeInv, TypeOK
            <4>3. QED
                BY <1>3, <4>1, <4>2
        <3>2. CASE /\ pc[s] \in Reading /\ Group(s)' = Group(s)
                   /\ snap'[s][Group(s)].acct = snap[s][Group(s)].acct
            BY <1>3, <3>2 DEF RowsRead
        <3>3. QED
            BY <1>1, <2>1, <3>1, <3>2, ReadFrame
    <2>2. QED
        BY <2>1 DEF RowsRead
<1>5. SafeAlone'
    <2>1. ASSUME NEW s \in Tabs, pc'[s] = "ap_patch", NEW u \in safe'[s]
          PROVE  Home[u.id] = acct'[Group(s)'] /\ Shows(u)'
        <3>1. CASE pc[s] = "ap_patch"
            <4>1. u \in safe[s] /\ u.id \in Txns
                <5>1. safe'[s] = safe[s]
                    BY <1>1, <2>1, <3>1, SentFrame DEF FetchForApply
                <5>2. QED
                    BY <1>1, <2>1, <5>1 DEF TypeInv, TypeOK, Updates
            <4>2. Home[u.id] = acct[Group(s)] /\ Shows(u) /\ Group(s) \in live
                BY <1>3, <3>1, <4>1 DEF SafeAlone, RowsRead, Reading, LockedSteps
            <4>3. acct'[Group(s)'] = acct[Group(s)]
                <5>1. Group(s)' = Group(s)
                    BY <1>1, <2>1, <3>1, ReadFrame DEF Reading, LockedSteps,
                        ReadConversion
                <5>2. QED
                    BY <1>3, <4>2, <5>1
            <4>4. amt'[u.id] = amt[u.id] /\ mark'[u.id] = mark[u.id]
                <5>1. CASE UNCHANGED <<st, amt, mark>>
                    BY <5>1
                <5>2. ASSUME NEW r \in Tabs, Patch(r)
                      PROVE  amt'[u.id] = amt[u.id] /\ mark'[u.id] = mark[u.id]
                    <6>1. PICK done \in SUBSET {x \in safe[r] : st[x.id] = "present"} :
                            Store(done)
                        BY <5>2 DEF Patch
                    <6>2. r # s /\ pc[r] = "ap_patch"
                        BY <1>1, <2>1, <5>2 DEF Patch, Goto, TypeInv, TypeOK
                    <6>3. /\ Group(r) # Group(s) /\ Group(r) \in live
                          /\ \A x \in safe[r] : Home[x.id] = acct[Group(r)]
                        BY <1>1, <1>3, <3>1, <6>2 DEF HoldsLock, SafeAlone,
                            RowsRead, Reading, LockedSteps
                    <6>4. acct[Group(r)] # acct[Group(s)]
                        BY <1>3, <4>2, <6>3 DEF RowsDiffer
                    <6>5. \A x \in done : x.id # u.id
                        BY <4>2, <6>3, <6>4
                    <6>6. QED
                        BY <4>1, <6>1, <6>5 DEF Store
                <5>3. ~LatePatch
                    BY <1>1, <1>2 DEF LatePatch, NothingLate, IsCalm
                <5>4. ASSUME NEW t \in Txns, \/ EditAmount(t) \/ MarkByHand(t)
                                            \/ DeleteTxn(t) \/ Import(t)
                      PROVE  UNCHANGED <<amt, mark>>
                    BY <1>2, <5>4 DEF IsCalm, EditAmount, MarkByHand,
                        DeleteTxn, Import
                <5>5. QED
                    BY <1>1, <5>1, <5>2, <5>3, <5>4, WhoWrites
            <4>5. QED
                BY <4>2, <4>3, <4>4 DEF Shows, IsExcluded, IsConverted,
                    IsSkipped, IsSplit
        <3>2. CASE pc[s] # "ap_patch"
            <4>1. ~QuietStep /\ ~LatePatch
                BY <2>1, <3>2 DEF QuietStep, LatePatch
            <4>2. PICK r \in Tabs : FetchForApply(r) \/ Patch(r)
                BY <1>1, <4>1, WhichStepsWrite
            <4>3. FetchForApply(s)
                BY <1>1, <2>1, <3>2, <4>2 DEF FetchForApply, Patch, Goto,
                    TypeInv, TypeOK
            <4>4. /\ IsSafe(u, GetTransactions(snap[s][Group(s)].acct,
                                               snap[s][Group(s)].start))
                  /\ UNCHANGED <<amt, mark, acct, queue>>
                BY <1>1, <2>1, <4>3 DEF FetchForApply, TypeInv, TypeOK
            <4>5. Home[u.id] = snap[s][Group(s)].acct
                BY <4>4 DEF IsSafe, GetTransactions
            <4>6. snap[s][Group(s)].acct = acct[Group(s)]
                BY <1>3, <4>3 DEF FetchForApply, RowsRead, Reading, LockedSteps
            <4>7. QED
                BY <4>4, <4>5, <4>6 DEF IsSafe, Shows, IsExcluded, IsConverted,
                    IsSkipped, IsSplit, Group
        <3>3. QED
            BY <3>1, <3>2
    <2>2. QED
        BY <2>1 DEF SafeAlone
<1>6. QED
    BY <1>3, <1>4, <1>5

\* Initially nobody reads or writes.
LEMMA RefInit == Init => RefInv
<1>1. Init => NothingLate /\ RowsDiffer /\ RowsRead /\ SafeAlone
    BY ConvAssumption DEF Init, NothingLate, RowsDiffer, RowsRead, SafeAlone,
        Reading, LockedSteps
<1>2. QED
    BY <1>1, TypeInit, LockInit DEF RefInv

-----------------------------------------------------------------------------
(* Offers are only made by previews, of what needs settling; what a request  *)
(* or a PATCH holds afterwards comes from a page.                            *)

\* Only a preview's fetch makes new offers.
LEMMA OffersFrame ==
    ASSUME TypeInv, [Next]_vars
    PROVE  (\E s \in Tabs : BuildGroup(s)) \/ HeldOffers' \subseteq HeldOffers
<1> DEFINE Offered(h) == [id |-> h.id, original |-> h.original] \in HeldOffers
<1>0. \A h \in HeldRows : Offered(h)
    BY DEF HeldOffers
<1>a. /\ \A h \in late : Offered(h)
      /\ \A s \in Tabs : \A h \in form[s] \cup plan[s] \cup safe[s] : Offered(h)
    BY <1>0 DEF HeldRows
<1>b. ASSUME \A h \in late' : Offered(h),
             \A s \in Tabs : \A h \in form'[s] \cup plan'[s] \cup safe'[s] :
                                Offered(h)
      PROVE  HeldOffers' \subseteq HeldOffers
    <2>1. \A h \in HeldRows' : Offered(h)
        BY <1>b DEF HeldRows
    <2>2. QED
        BY <2>1 DEF HeldOffers
<1> HIDE DEF Offered
<1>1. ASSUME NEW s \in Tabs,
             \/ Preview(s) \/ OnloadRefresh(s)
             \/ FailedGroup(s) \/ PreviewAborts(s) \/ PreviewMarkSynced(s)
             \/ PreviewSetPending(s)
             \/ RefreshFetch(s) \/ RefreshFails(s) \/ RefreshSetPending(s)
             \/ ReadConversion(s) \/ SkipGroup(s)
             \/ EnterLock(s) \/ ConversionGone(s)
             \/ PatchConfirmed(s) \/ ApplyMarkSynced(s) \/ ApplySetPending(s)
      PROVE  HeldOffers' \subseteq HeldOffers
    <2>1. late' = late /\ \A r \in Tabs : form'[r] \in {form[r], {}}
        BY <1>1 DEF Preview, OnloadRefresh, FailedGroup, PreviewAborts,
            PreviewMarkSynced, PreviewSetPending, RefreshFetch, RefreshFails,
            RefreshSetPending, ReadConversion, SkipGroup, EnterLock,
            ConversionGone, PatchConfirmed, ApplyMarkSynced, ApplySetPending,
            TypeInv, TypeOK
    <2>2. \A r \in Tabs : plan'[r] \in {plan[r], {}}
        BY <1>1, NextGroupFrame DEF Preview, OnloadRefresh, FailedGroup,
            PreviewAborts, PreviewMarkSynced, PreviewSetPending, RefreshFetch,
            RefreshFails, RefreshSetPending, ReadConversion, SkipGroup,
            EnterLock, ConversionGone, PatchConfirmed, ApplyMarkSynced,
            ApplySetPending
    <2>3. \A r \in Tabs : safe'[r] \in {safe[r], {}}
        BY <1>1 DEF Preview, OnloadRefresh, FailedGroup, PreviewAborts,
            PreviewMarkSynced, PreviewSetPending, RefreshFetch, RefreshFails,
            RefreshSetPending, ReadConversion, SkipGroup, EnterLock,
            ConversionGone, PatchConfirmed, ApplyMarkSynced, ApplySetPending,
            ForgetWork, TypeInv, TypeOK
    <2>4. QED
        BY <1>a, <1>b, <2>1, <2>2, <2>3
<1>2. ASSUME NEW s \in Tabs, Submit(s)
      PROVE  HeldOffers' \subseteq HeldOffers
    <2>1. UNCHANGED <<late, form, safe>>
        BY <1>2 DEF Submit
    <2>2. PICK rows \in SUBSET form[s] : \E act \in [rows -> Picks] :
            plan' = [plan EXCEPT ![s] =
               {[conv |-> r.conv, id |-> r.id, original |-> r.original,
                 action |-> act[r]] : r \in rows}]
        BY <1>2 DEF Submit
    <2>3. \A u \in plan'[s] :
            \E r \in form[s] : u.id = r.id /\ u.original = r.original
        <3>1. PICK act \in [rows -> Picks] :
                plan' = [plan EXCEPT ![s] =
                   {[conv |-> r.conv, id |-> r.id, original |-> r.original,
                     action |-> act[r]] : r \in rows}]
            BY <2>2
        <3>2. plan'[s] = {[conv |-> r.conv, id |-> r.id, original |-> r.original,
                           action |-> act[r]] : r \in rows}
            BY <3>1 DEF TypeInv, TypeOK
        <3>3. QED
            BY <3>2
    <2>4. \A u \in plan'[s] : Offered(u)
        BY <1>a, <2>3 DEF Offered
    <2>5. \A r \in Tabs \ {s} : plan'[r] = plan[r]
        BY <2>2 DEF TypeInv, TypeOK
    <2>6. QED
        BY <1>a, <1>b, <2>1, <2>4, <2>5
<1>3. ASSUME NEW s \in Tabs, FetchForApply(s)
      PROVE  HeldOffers' \subseteq HeldOffers
    <2>1. UNCHANGED <<late, form, plan>>
        BY <1>3 DEF FetchForApply
    <2>2. safe'[s] \subseteq plan[s] /\ \A r \in Tabs \ {s} : safe'[r] = safe[r]
        BY <1>3 DEF FetchForApply, GroupPlan, TypeInv, TypeOK
    <2>3. QED
        BY <1>a, <1>b, <2>1, <2>2
<1>4. ASSUME NEW s \in Tabs,
             \/ FetchFails(s) \/ PatchRejected(s) \/ PatchTimesOut(s)
             \/ AnswerLost(s) \/ ApplySetStartDate(s)
      PROVE  HeldOffers' \subseteq HeldOffers
    <2>1. /\ UNCHANGED form
          /\ late' \in {late, late \cup safe[s]}
          /\ NextGroup(s, "ap_read") \/ Abort(s, "shown")
          /\ ForgetWork(s)
        BY <1>4 DEF FetchFails, PatchRejected, PatchTimesOut, AnswerLost,
            ApplySetStartDate, LeaveWithError
    <2>2. \A r \in Tabs : plan'[r] \in {plan[r], {}} /\ safe'[r] \in {safe[r], {}}
        BY <2>1, NextGroupFrame DEF ForgetWork, TypeInv, TypeOK
    <2>3. QED
        BY <1>a, <1>b, <2>1, <2>2
<1>5. CASE LatePatch \/ (\E s \in Tabs : Patch(s)) \/ ConfigStep \/ UNCHANGED vars
           \/ \E t \in Txns : EditAmount(t) \/ MarkByHand(t) \/ DeleteTxn(t)
                             \/ Import(t)
    <2>1. late' \subseteq late /\ UNCHANGED <<form, plan, safe>>
        BY <1>5 DEF LatePatch, Patch, ConfigStep, Delete, Create, Edit,
            EditAmount, MarkByHand, DeleteTxn, Import, InYNAB, vars
    <2>2. QED
        BY <1>a, <1>b, <2>1
<1>6. CASE Crash
    <2>1. late' \subseteq late \cup UNION {safe[s] : s \in Tabs}
        BY <1>6 DEF Crash, Sent
    <2>2. \A s \in Tabs : /\ form'[s] \in {form[s], {}}
                          /\ plan'[s] = {} /\ safe'[s] = {}
        BY <1>6 DEF Crash
    <2>3. QED
        BY <1>a, <1>b, <2>1, <2>2
<1>7. QED
    BY <1>1, <1>2, <1>3, <1>4, <1>5, <1>6
    DEF Next, PreviewStep, ApplyStep, LockedStep, WorldStep

\* A preview's fetch offers transactions that need settling, as they are.
LEMMA OfferStep ==
    ASSUME TypeInv, NEW s \in Tabs, BuildGroup(s)
    PROVE  LedgerOf!Offer
<1>1. UNCHANGED <<st, amt, mark, late, plan, safe>>
    BY DEF BuildGroup
<1>2. PICK found \in SUBSET {t \in Txns : st[t] = "present" /\ IsConvertible(t)} :
        form' = [form EXCEPT ![s] = @ \cup
           {[conv |-> Group(s), id |-> t, original |-> amt[t]] : t \in found}]
    BY DEF BuildGroup, GetTransactions
<1>3. ASSUME NEW h \in HeldRows', h \notin HeldRows
      PROVE  h.id \in found /\ h.original = amt[h.id]
    <2>1. h \in form'[s] \ form[s]
        BY <1>1, <1>2, <1>3 DEF HeldRows, TypeInv, TypeOK
    <2>2. QED
        BY <1>2, <2>1 DEF TypeInv, TypeOK
<1>4. ASSUME NEW o \in HeldOffers', o \notin HeldOffers
      PROVE  /\ o \in LedgerOf!Offers
             /\ LedgerOf!Unsettled(o.id) /\ o.original = amt[o.id]
    <2>1. PICK h \in HeldRows' : o = [id |-> h.id, original |-> h.original]
        BY <1>4 DEF HeldOffers
    <2>2. h \notin HeldRows
        BY <1>4, <2>1 DEF HeldOffers
    <2>3. h.id \in found /\ h.original = amt[h.id]
        BY <1>3, <2>2
    <2>4. o.id = h.id /\ o.original = h.original
        BY <2>1
    <2>5. amt[h.id] \in Amounts /\ mark[h.id] \in Marks /\ h.id \in Txns
        BY <1>2, <2>3 DEF TypeInv, TypeOK
    <2>6. LedgerOf!Unsettled(h.id)
        BY <1>2, <2>3, <2>5 DEF IsConvertible, IsExcluded, IsConverted,
            IsSkipped, IsSplit, Marks, LedgerOf!Unsettled
    <2>7. QED
        BY <2>1, <2>3, <2>4, <2>5, <2>6 DEF LedgerOf!Offers, LedgerOf!Amounts,
            Amounts
<1>5. QED
    BY <1>1, <1>4 DEF LedgerOf!Offer

\* Storing updates that are on offer, and, without anybody else writing, as
\* they were shown, settles their transactions and no other.
LEMMA StoreSettles ==
    ASSUME TypeInv, NEW updates \in SUBSET Updates, Store(updates),
           amt' \in [Txns -> Amounts], mark' \in [Txns -> Marks],
           UNCHANGED st, HeldOffers' \subseteq HeldOffers,
           \A u \in updates :
             /\ u \in HeldRows /\ st[u.id] = "present"
             /\ IsCalm => Shows(u)
    PROVE  LedgerOf!Settle
<1>1. ASSUME NEW t \in Txns
      PROVE  LedgerOf!Settled(t) \/ (amt'[t] = amt[t] /\ mark'[t] = mark[t])
    <2>1. CASE ~ \E u \in updates : u.id = t
        BY <2>1 DEF Store
    <2>2. CASE \E u \in updates : u.id = t
        <3>1. PICK u \in updates : /\ u.id = t
                                   /\ u = CHOOSE x \in updates : x.id = t
            BY <2>2
        <3>2. amt'[t] = NewAmount(u) /\ mark'[t] = NewMark(u)
            BY <2>2, <3>1 DEF Store
        <3> DEFINE o == [id |-> u.id, original |-> u.original]
        <3>3. o \in HeldOffers /\ o.id = t /\ o.original = u.original
            BY <3>1 DEF HeldOffers
        <3>4. IsCalm => /\ LedgerOf!Unsettled(t)
                        /\ u.action = "skip" \/ amt[t] = u.original
            <4>1. mark[t] \in Marks
                BY DEF TypeInv, TypeOK
            <4>2. QED
                BY <3>1, <4>1 DEF Shows, IsExcluded, IsConverted, IsSkipped,
                    IsSplit, Marks, LedgerOf!Unsettled
        <3>5. u.original \in Amounts /\ u.action \in Actions
            BY DEF Updates
        <3>6. ConvertMilliunits(u.original) = LedgerOf!Converted(u.original)
            BY <3>5 DEF ConvertMilliunits, LedgerOf!Converted, Amounts
        <3>7. amt'[t] \in {amt[t], LedgerOf!Converted(u.original)}
            BY <3>1, <3>2, <3>6 DEF NewAmount
        <3>8. CASE u.action = "skip"
            <4>1. mark'[t] = "skip" /\ amt'[t] = amt[t]
                BY <3>1, <3>2, <3>8 DEF NewAmount, NewMark
            <4>2. QED
                BY <3>1, <3>3, <3>4, <4>1 DEF LedgerOf!Settled
        <3>9. CASE u.action # "skip"
            <4>1. mark'[t] = "fx"
                BY <3>2, <3>9 DEF NewMark
            <4>2. QED
                BY <3>1, <3>3, <3>4, <3>7, <3>9, <4>1 DEF LedgerOf!Settled
        <3>10. QED
            BY <3>8, <3>9
    <2>3. QED
        BY <2>1, <2>2
<1>2. QED
    BY <1>1 DEF LedgerOf!Settle, LedgerOf!Amounts, Amounts, Marks

\* Every step is a step of the ledger, or leaves it alone.
LEMMA LedgerStep ==
    ASSUME RefInv, [Next]_vars
    PROVE  [LedgerOf!Next]_(LedgerOf!ledgerVars)
<1>1. TypeInv /\ TypeInv' /\ NothingLate
    BY TypeStep DEF RefInv
<1>t. amt' \in [Txns -> Amounts] /\ mark' \in [Txns -> Marks]
    BY <1>1 DEF TypeInv, TypeOK
<1>2. CASE \E s \in Tabs : BuildGroup(s)
    BY <1>1, <1>2, OfferStep DEF LedgerOf!Next
<1>3. CASE HeldOffers' \subseteq HeldOffers
    <2>1. CASE UNCHANGED <<st, amt, mark>>
        BY <1>3, <2>1 DEF LedgerOf!Next, LedgerOf!Offer
    <2>2. ASSUME NEW s \in Tabs, Patch(s)
          PROVE  LedgerOf!Settle
        <3>1. PICK done \in SUBSET {u \in safe[s] : st[u.id] = "present"} :
                Store(done)
            BY <2>2 DEF Patch
        <3>2. UNCHANGED st /\ pc[s] = "ap_patch"
            BY <2>2 DEF Patch
        <3>3. done \in SUBSET Updates
            BY <1>1 DEF TypeInv, TypeOK
        <3>4. \A u \in done : /\ u \in HeldRows /\ st[u.id] = "present"
                              /\ IsCalm => Shows(u)
            BY <3>1, <3>2 DEF HeldRows, RefInv, SafeAlone
        <3>5. QED
            BY <1>1, <1>3, <1>t, <3>1, <3>2, <3>3, <3>4, StoreSettles
    <2>3. CASE LatePatch
        <3>1. PICK u \in late : \/ st[u.id] = "present" /\ Store({u})
                                \/ UNCHANGED <<amt, mark>>
            BY <2>3 DEF LatePatch
        <3>2. UNCHANGED st
            BY <2>3 DEF LatePatch
        <3>3. CASE UNCHANGED <<amt, mark>>
            BY <2>1, <3>2, <3>3
        <3>4. CASE st[u.id] = "present" /\ Store({u})
            <4>1. {u} \in SUBSET Updates /\ ~IsCalm /\ u \in HeldRows
                BY <1>1 DEF TypeInv, TypeOK, NothingLate, IsCalm, HeldRows
            <4>2. LedgerOf!Settle
                BY <1>1, <1>3, <1>t, <3>2, <3>4, <4>1, StoreSettles
            <4>3. QED
                BY <4>2 DEF LedgerOf!Next
        <3>5. QED
            BY <3>1, <3>3, <3>4
    <2>4. ASSUME NEW t \in Txns, \/ EditAmount(t) \/ MarkByHand(t)
                                \/ DeleteTxn(t) \/ Import(t)
          PROVE  LedgerOf!Type(t) \/ LedgerOf!Mark(t) \/ LedgerOf!Move(t)
        <3>1. UNCHANGED <<late, form, plan, safe>>
            BY <2>4 DEF EditAmount, MarkByHand, DeleteTxn, Import, InYNAB
        <3>2. HeldOffers' = HeldOffers
            BY <3>1 DEF HeldOffers, HeldRows
        <3>3. CASE EditAmount(t)
            BY <3>2, <3>3 DEF EditAmount, InYNAB, LedgerOf!Type
        <3>4. CASE MarkByHand(t)
            BY <3>2, <3>4 DEF MarkByHand, InYNAB, Marks, LedgerOf!Mark
        <3>5. CASE DeleteTxn(t)
            BY <3>2, <3>5 DEF DeleteTxn, InYNAB, LedgerOf!Move
        <3>6. CASE Import(t)
            BY <3>2, <3>6 DEF Import, LedgerOf!Move
        <3>7. QED
            BY <2>4, <3>3, <3>4, <3>5, <3>6
    <2>5. QED
        BY <1>1, <2>1, <2>2, <2>3, <2>4, WhoWrites DEF LedgerOf!Next
<1>4. QED
    BY <1>1, <1>2, <1>3, OffersFrame

\* The initial states are the ledger's: nothing is on offer.
LEMMA LedgerInit == Init => LedgerOf!Init
<1> SUFFICES ASSUME Init
             PROVE  LedgerOf!Init
    OBVIOUS
<1>1. HeldOffers = {}
    BY DEF Init, HeldOffers, HeldRows
<1>2. /\ st \in [Txns -> {"absent", "present"}]
      /\ amt \in [Txns -> [v : Values, k : {0}]]
    BY TxnAssumption DEF Init
<1>3. QED
    BY <1>1, <1>2 DEF Init, LedgerOf!Init

\* Previews and applies in any number of tabs, with their locks, retries, lost
\* answers and restarts, do to a budget only what the ledger may do.
THEOREM LedgerImplemented == Spec => ImplementsLedger
<1>1. RefInv /\ [Next]_vars => RefInv' /\ [LedgerOf!Next]_(LedgerOf!ledgerVars)
    BY RefStep, LedgerStep
<1>2. QED
    BY <1>1, RefInit, LedgerInit, PTL DEF Spec, ImplementsLedger, LedgerOf!Spec

-----------------------------------------------------------------------------
(* What the ledger promises by itself, and so what follows for the tabs.    *)

\* An amount nobody has marked was typed, and so was every one on offer.
LedgerInv ==
    /\ amt \in [Txns -> LedgerOf!Amounts]
    /\ mark \in [Txns -> {"none", "fx", "skip"}]
    /\ \A t \in Txns : amt[t].k <= 1 /\ (mark[t] = "none" => amt[t].k = 0)
    /\ \A o \in HeldOffers : o \in LedgerOf!Offers /\ o.original.k = 0

LEMMA LedgerInvInit == LedgerOf!Init => LedgerInv
<1> SUFFICES ASSUME LedgerOf!Init
             PROVE  LedgerInv
    OBVIOUS
<1>1. /\ amt \in [Txns -> [v : Values, k : {0}]]
      /\ mark = [t \in Txns |-> "none"]
      /\ HeldOffers = {}
    BY DEF LedgerOf!Init
<1>2. \A t \in Txns : amt[t] \in LedgerOf!Amounts /\ amt[t].k = 0
    BY <1>1 DEF LedgerOf!Amounts
<1>3. QED
    BY <1>1, <1>2 DEF LedgerInv

LEMMA LedgerInvStep ==
    ASSUME LedgerInv, [LedgerOf!Next]_(LedgerOf!ledgerVars)
    PROVE  LedgerInv'
<1>1. CASE LedgerOf!Offer
    <2>1. UNCHANGED <<amt, mark>>
        BY <1>1 DEF LedgerOf!Offer
    <2>2. ASSUME NEW o \in HeldOffers'
          PROVE  o \in LedgerOf!Offers /\ o.original.k = 0
        <3>1. CASE o \in HeldOffers
            BY <3>1 DEF LedgerInv
        <3>2. CASE o \notin HeldOffers
            <4>1. /\ o \in LedgerOf!Offers
                  /\ LedgerOf!Unsettled(o.id) /\ o.original = amt[o.id]
                BY <1>1, <2>2, <3>2 DEF LedgerOf!Offer
            <4>2. o.id \in Txns /\ mark[o.id] = "none"
                BY <4>1 DEF LedgerOf!Offers, LedgerOf!Unsettled
            <4>3. QED
                BY <4>1, <4>2 DEF LedgerInv
        <3>3. QED
            BY <3>1, <3>2
    <2>3. QED
        BY <2>1, <2>2 DEF LedgerInv, LedgerOf!Amounts, LedgerOf!Offers
<1>2. CASE LedgerOf!Settle
    <2>1. /\ amt' \in [Txns -> LedgerOf!Amounts]
          /\ mark' \in [Txns -> {"none", "fx", "skip"}]
          /\ HeldOffers' \subseteq HeldOffers
          /\ \A t \in Txns : LedgerOf!Settled(t) \/ (amt'[t] = amt[t] /\ mark'[t] = mark[t])
        BY <1>2 DEF LedgerOf!Settle
    <2>2. ASSUME NEW t \in Txns
          PROVE  amt'[t].k <= 1 /\ (mark'[t] = "none" => amt'[t].k = 0)
        <3>1. CASE amt'[t] = amt[t] /\ mark'[t] = mark[t]
            BY <3>1 DEF LedgerInv
        <3>2. CASE LedgerOf!Settled(t)
            <4>1. PICK o \in HeldOffers :
                     \/ mark'[t] = "skip" /\ amt'[t] = amt[t]
                     \/ /\ mark'[t] = "fx"
                        /\ amt'[t] \in {amt[t], LedgerOf!Converted(o.original)}
                BY <3>2 DEF LedgerOf!Settled
            <4>2. LedgerOf!Converted(o.original).k = 1
                BY <4>1 DEF LedgerInv, LedgerOf!Converted
            <4>3. amt[t].k <= 1
                BY DEF LedgerInv
            <4>4. QED
                BY <4>1, <4>2, <4>3
        <3>3. QED
            BY <2>1, <3>1, <3>2
    <2>3. QED
        BY <2>1, <2>2 DEF LedgerInv, LedgerOf!Amounts, LedgerOf!Offers
<1>3. ASSUME NEW t \in Txns, LedgerOf!Type(t)
      PROVE  LedgerInv'
    <2>1. PICK v \in Values : amt' = [amt EXCEPT ![t] = [v |-> v, k |-> 0]]
        BY <1>3 DEF LedgerOf!Type
    <2>2. UNCHANGED <<mark, HeldOffers>>
        BY <1>3 DEF LedgerOf!Type
    <2>3. [v |-> v, k |-> 0] \in LedgerOf!Amounts
        BY DEF LedgerOf!Amounts
    <2>4. amt' \in [Txns -> LedgerOf!Amounts]
        BY <2>1, <2>3 DEF LedgerInv
    <2>5. \A u \in Txns : amt'[u].k = 0 \/ amt'[u] = amt[u]
        BY <2>1 DEF LedgerInv
    <2>6. \A u \in Txns : amt'[u].k <= 1 /\ (mark'[u] = "none" => amt'[u].k = 0)
        BY <2>2, <2>5 DEF LedgerInv
    <2>7. QED
        BY <2>2, <2>4, <2>6 DEF LedgerInv, LedgerOf!Amounts, LedgerOf!Offers
<1>4. ASSUME NEW t \in Txns, LedgerOf!Mark(t)
      PROVE  LedgerInv'
    <2>1. PICK m \in {"fx", "skip"} : mark' = [mark EXCEPT ![t] = m]
        BY <1>4 DEF LedgerOf!Mark
    <2>2. UNCHANGED <<amt, HeldOffers>>
        BY <1>4 DEF LedgerOf!Mark
    <2>3. \A u \in Txns : mark'[u] = "none" => mark[u] = "none"
        BY <2>1 DEF LedgerInv
    <2>4. mark' \in [Txns -> {"none", "fx", "skip"}]
        BY <2>1 DEF LedgerInv
    <2>5. QED
        BY <2>2, <2>3, <2>4 DEF LedgerInv, LedgerOf!Amounts, LedgerOf!Offers
<1>5. CASE UNCHANGED <<amt, mark, HeldOffers>>
    BY <1>5 DEF LedgerInv, LedgerOf!Amounts, LedgerOf!Offers
<1>6. QED
    BY <1>1, <1>2, <1>3, <1>4, <1>5
       DEF LedgerOf!Next, LedgerOf!ledgerVars, LedgerOf!Move

\* The ledger is enough of a promise: whoever keeps it, in whatever way, never
\* writes the conversion of a converted amount (convert.py).
THEOREM LedgerConvertsOnce == LedgerOf!Spec => []NoDoubleConversion
<1>1. LedgerInv => NoDoubleConversion
    BY DEF LedgerInv, NoDoubleConversion
<1>2. LedgerInv /\ [LedgerOf!Next]_(LedgerOf!ledgerVars) => LedgerInv'
    BY LedgerInvStep
<1>3. QED
    BY <1>1, <1>2, LedgerInvInit, PTL DEF LedgerOf!Spec

\* What is marked keeps its marker and its amount, but for what is typed over it.
SettledStays ==
    \A t \in Txns : mark[t] # "none" =>
        mark'[t] = mark[t] /\ (amt'[t] = amt[t] \/ amt'[t].k = 0)

LEMMA LedgerStepSettles ==
    ASSUME IsCalm, LedgerInv, [LedgerOf!Next]_(LedgerOf!ledgerVars)
    PROVE  SettledStays
<1> SUFFICES ASSUME NEW t \in Txns, mark[t] # "none"
             PROVE  mark'[t] = mark[t] /\ (amt'[t] = amt[t] \/ amt'[t].k = 0)
    BY DEF SettledStays
<1>1. CASE UNCHANGED <<amt, mark>>
    BY <1>1
<1>2. CASE LedgerOf!Settle
    <2>1. ~LedgerOf!Settled(t)
        BY DEF LedgerOf!Settled, LedgerOf!Unsettled
    <2>2. QED
        BY <1>2, <2>1 DEF LedgerOf!Settle
<1>3. ASSUME NEW u \in Txns, LedgerOf!Type(u)
      PROVE  mark'[t] = mark[t] /\ (amt'[t] = amt[t] \/ amt'[t].k = 0)
    <2>1. PICK v \in Values : amt' = [amt EXCEPT ![u] = [v |-> v, k |-> 0]]
        BY <1>3 DEF LedgerOf!Type
    <2>2. amt'[t].k = 0 \/ amt'[t] = amt[t]
        BY <2>1 DEF LedgerInv
    <2>3. mark' = mark
        BY <1>3 DEF LedgerOf!Type
    <2>4. QED
        BY <2>2, <2>3
<1>4. ASSUME NEW u \in Txns, LedgerOf!Mark(u)
      PROVE  mark'[t] = mark[t] /\ (amt'[t] = amt[t] \/ amt'[t].k = 0)
    <2>1. /\ u # t /\ amt' = amt
          /\ \E m \in {"fx", "skip"} : mark' = [mark EXCEPT ![u] = m]
        BY <1>4 DEF LedgerOf!Mark
    <2>2. mark'[t] = mark[t]
        BY <2>1 DEF LedgerInv
    <2>3. QED
        BY <2>1, <2>2
<1>5. QED
    BY <1>1, <1>2, <1>3, <1>4
       DEF LedgerOf!Next, LedgerOf!ledgerVars, LedgerOf!Offer, LedgerOf!Move

\* While nobody else writes what is converted here, tabs that submit stale
\* pages, retry and overtake each other leave a settled transaction as it is:
\* this follows from the ledger, whose steps theirs are.
THEOREM SettledOnceForAll ==
    ASSUME IsCalm
    PROVE  Spec => [][SettledStays]_vars
<1>1. LedgerInv /\ [LedgerOf!Next]_(LedgerOf!ledgerVars)
        => LedgerInv' /\ [SettledStays]_vars
    BY LedgerInvStep, LedgerStepSettles
<1>2. LedgerOf!Spec => [][SettledStays]_vars
    BY <1>1, LedgerInvInit, PTL DEF LedgerOf!Spec
<1>3. QED
    BY <1>2, LedgerImplemented, PTL DEF ImplementsLedger
=============================================================================
