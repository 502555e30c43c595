--------------------------- MODULE ConversionApply ---------------------------
(***************************************************************************)
(* Preview and apply: the part of the application that writes to a user's  *)
(* YNAB budget (src/app/routes/conversions.py, src/app/convert.py,         *)
(* src/app/store.py, src/app/ynab.py).                                     *)
(*                                                                         *)
(* A tab is one browser page: it loads a preview of one conversion or of   *)
(* all of them, shows the rows, and submits any selection of them, as      *)
(* often as the user presses the button.  The steps of several tabs        *)
(* interleave at every await or database call of the handlers.  Around     *)
(* them the user edits YNAB and the conversion settings, and the server    *)
(* may restart.  One user; a transaction's date, account and split status  *)
(* do not change.                                                          *)
(***************************************************************************)
EXTENDS Naturals, Sequences, FiniteSets, SequencesExt

CONSTANTS
    Tabs,          \* browser pages
    Convs,         \* conversion ids
    Accounts,      \* YNAB account ids
    Txns,          \* YNAB transaction ids
    Home,          \* the account of each transaction
    Date,          \* the date of each transaction
    Splits,        \* the transactions that have subtransactions
    Today,         \* the current date; dates are 1..Today
    Values,        \* the amounts a user may type, 0 among them or not
    FirstConvs,    \* the conversions configured initially
    FirstAccount,  \* the account a conversion starts with
    Picks,         \* the row actions users pick in this instance
    Moves,         \* what the environment may do in this instance
    Nobody,        \* the holder of a free lock
    NoCount        \* pending_count of a row never checked (NULL)

Actions == {"convert", "already", "skip"}
AllMoves ==
    {"amount", "zero", "mark", "remove", "import",      \* the user, in YNAB
     "edit", "create", "delete",                        \* the user, here
     "refresh",
     "crash", "late"}                                   \* the machines

ASSUME TxnAssumption ==
    /\ IsFiniteSet(Txns)
    /\ Home \in [Txns -> Accounts]
    /\ Today \in Nat \ {0}
    /\ Date \in [Txns -> 1..Today]
    /\ Splits \subseteq Txns
    /\ Values \subseteq Nat
    /\ 1 \in Values
ASSUME ConvAssumption ==
    /\ IsFiniteSet(Convs)
    /\ FirstConvs \subseteq Convs
    /\ FirstAccount \in [Convs -> Accounts]
    /\ \A c, d \in FirstConvs : FirstAccount[c] = FirstAccount[d] => c = d
ASSUME TabAssumption == Nobody \notin Tabs
ASSUME CountAssumption == NoCount \notin Nat
ASSUME MoveAssumption == Picks \subseteq Actions /\ Moves \subseteq AllMoves

VARIABLES
    \* YNAB
    st,      \* [Txns -> {"absent", "present", "deleted"}]
    amt,     \* [Txns -> Amounts]
    mark,    \* [Txns -> Marks], the marker the memo carries
    late,    \* updates of PATCHes the client gave up on, not yet dropped
    typed,   \* history: [Txns -> SUBSET Values], what the user typed last, with
             \* the amounts that PATCHes under way then were computed from
    \* the conversions table
    live,    \* ids of the rows
    used,    \* ids ever handed out
    acct,    \* [Convs -> Accounts]
    start,   \* [Convs -> Dates], start_date: the fetch floor
    synced,  \* [Convs -> BOOLEAN], last_synced is set
    badge,   \* [Convs -> Counts], pending_count
    \* the server process
    lock,    \* [Convs -> Tabs \cup {Nobody}], _apply_locks
    pc,      \* [Tabs -> Labels], where the tab's request is
    queue,   \* [Tabs -> Seq(Convs)], the groups still to do, the current first
    snap,    \* [Tabs -> [Convs -> Snapshots]], rows as the request read them
    open,    \* [Tabs -> SUBSET Txns], fetched, not excluded, not confirmed
    safe,    \* [Tabs -> SUBSET Updates], updates that passed the re-checks
    conf,    \* [Tabs -> SUBSET Txns], ids YNAB wrote
    \* the browser
    page,    \* [Tabs -> Seq(Convs)], the groups of the page shown
    form,    \* [Tabs -> SUBSET Rows], the rows of the page shown
    plan,    \* [Tabs -> SUBSET Updates], what the user submitted
    \* history
    wrote,   \* [Convs -> SUBSET Txns], ever written by an apply of c
    overtaken, \* [Tabs -> BOOLEAN], the tab's apply goes by a row edited since
    owed     \* [Convs -> SUBSET Txns], not excluded when an apply last fetched
             \* the account of c, or on view when c was edited since

ynabVars == <<st, amt, mark, late, typed>>
rowVars  == <<live, used, acct, start, synced, badge>>
workVars == <<open, safe, conf, overtaken>>
pageVars == <<page, form, plan>>
vars == <<ynabVars, rowVars, lock, pc, queue, snap, workVars, pageVars,
          wrote, owed>>

Dates == 1..Today
\* v is what the user typed; k counts the conversions the value went through.
Amounts == [v : Values, k : Nat]
Marks == {"none", "fx", "skip"}
Rows == [conv : Convs, id : Txns, original : Amounts]
Updates == [conv : Convs, id : Txns, original : Amounts, action : Actions]
Snapshots == [acct : Accounts, start : Dates]
Counts == Nat \cup {NoCount}

RefreshMax == 2  \* _ONLOAD_REFRESH_MAX
RefreshSteps == {"rf_fetch", "rf_badge"}
PreviewSteps == {"pv_fetch", "pv_sync", "pv_badge"} \cup RefreshSteps
LockedSteps ==
    {"ap_fetch", "ap_patch", "ap_answer", "ap_sync", "ap_badge", "ap_floor"}
ApplySteps == {"ap_read", "ap_wait"} \cup LockedSteps
ServerSteps == PreviewSteps \cup ApplySteps
Labels == {"idle", "shown"} \cup ServerSteps

\* The conversion the tab's request is working on.
Group(s) == Head(queue[s])
Ids(updates) == {u.id : u \in updates}

-----------------------------------------------------------------------------
(* convert.py: which transactions are proposed, and what is written. *)

\* Mutant: the marker's pattern no longer matches what build_marker writes.
IsConvertedNever(t) == FALSE
IsConverted(t) == mark[t] = "fx"
IsSkipped(t) == mark[t] = "skip"
IsSplit(t) == t \in Splits
IsExcluded(t) == amt[t].v = 0 \/ IsConverted(t) \/ IsSkipped(t)
IsConvertible(t) == ~IsExcluded(t) /\ ~IsSplit(t)

\* Of the transactions a fetch found not excluded, those still needing
\* attention once the applied ones are taken out.
PendingCount(found, applied) ==
    Cardinality({t \in found : ~IsSplit(t) /\ t \notin applied})

\* The amount a preview proposes: one conversion on top of what it fetched.
ConvertMilliunits(a) == [a EXCEPT !.k = @ + 1]

\* What one entry of a PATCH writes: "convert" the amount and the memo,
\* "already" and "skip" the memo alone.
NewAmount(u) ==
    IF u.action = "convert" THEN ConvertMilliunits(u.original) ELSE amt[u.id]
NewMark(u) == IF u.action = "skip" THEN "skip" ELSE "fx"

\* The transactions endpoint of an account, from a date on.
GetTransactions(a, since) ==
    {t \in Txns : st[t] = "present" /\ Home[t] = a /\ Date[t] >= since}

MinDate(found) ==
    CHOOSE d \in {Date[t] : t \in found} : \A t \in found : d <= Date[t]
\* Mutant: with nothing left the floor moves past today.
NewStartTomorrow(found) == IF found = {} THEN Today + 1 ELSE MinDate(found)
\* Mutant: only what could be converted holds the floor, splits do not.
NewStartPastSplits(found) ==
    IF found \ Splits = {} THEN Today ELSE MinDate(found \ Splits)
\* The floor an apply leaves: the oldest transaction still open, or today.
NewStart(found) == IF found = {} THEN Today ELSE MinDate(found)

-----------------------------------------------------------------------------
\* What a tab without a request remembers of rows: nothing.
NoSnaps == [c \in Convs |-> [acct |-> FirstAccount[c], start |-> 1]]

Init ==
    /\ st \in [Txns -> IF "import" \in Moves THEN {"absent", "present"}
                       ELSE {"present"}]
    /\ amt = [t \in Txns |-> [v |-> 1, k |-> 0]]
    /\ mark = [t \in Txns |-> "none"]
    /\ late = {}
    /\ typed = [t \in Txns |-> {1}]
    /\ live = FirstConvs
    /\ used = FirstConvs
    /\ acct = FirstAccount
    /\ start = [c \in Convs |-> 1]
    /\ synced = [c \in Convs |-> FALSE]
    /\ badge = [c \in Convs |-> NoCount]
    /\ lock = [c \in Convs |-> Nobody]
    /\ pc = [s \in Tabs |-> "idle"]
    /\ queue = [s \in Tabs |-> <<>>]
    /\ snap = [s \in Tabs |-> NoSnaps]
    /\ open = [s \in Tabs |-> {}]
    /\ safe = [s \in Tabs |-> {}]
    /\ conf = [s \in Tabs |-> {}]
    /\ page = [s \in Tabs |-> <<>>]
    /\ form = [s \in Tabs |-> {}]
    /\ plan = [s \in Tabs |-> {}]
    /\ wrote = [c \in Convs |-> {}]
    /\ overtaken = [s \in Tabs |-> FALSE]
    /\ owed = [c \in Convs |-> {}]

\* The request ends, whatever groups are left: plan and rows are dropped.
Abort(s, where) ==
    /\ queue' = [queue EXCEPT ![s] = <<>>]
    /\ pc' = [pc EXCEPT ![s] = where]
    /\ plan' = [plan EXCEPT ![s] = {}]
    /\ snap' = [snap EXCEPT ![s] = NoSnaps]

\* On to the next group of the request, or to the page after the last one.
NextGroup(s, again) ==
    \/ /\ Len(queue[s]) > 1
       /\ queue' = [queue EXCEPT ![s] = Tail(@)]
       /\ pc' = [pc EXCEPT ![s] = again]
       /\ UNCHANGED <<plan, snap>>
    \/ /\ Len(queue[s]) = 1
       /\ Abort(s, "shown")

ForgetWork(s) ==
    /\ open' = [open EXCEPT ![s] = {}]
    /\ safe' = [safe EXCEPT ![s] = {}]
    /\ conf' = [conf EXCEPT ![s] = {}]
    /\ overtaken' = [overtaken EXCEPT ![s] = FALSE]

Goto(s, label) == pc' = [pc EXCEPT ![s] = label]
Unlock(s) == lock' = [lock EXCEPT ![Group(s)] = Nobody]

\* The row as a request sees it.
RowOf(c) == [acct |-> acct[c], start |-> start[c]]

-----------------------------------------------------------------------------
(* preview and preview_all *)

\* The user asks for the preview of one conversion, or of all: the rows are
\* read once, at the start.  A missing conversion is a 404; no conversions
\* at all, a redirect.  In both the page is left and nothing changes here.
Preview(s) ==
    /\ pc[s] \in {"idle", "shown"}
    /\ \E cs \in {{c} : c \in live} \cup ({live} \ {{}}) :
         \E q \in SetToSeqs(cs) :
            /\ queue' = [queue EXCEPT ![s] = q]
            /\ page' = [page EXCEPT ![s] = q]
    /\ snap' = [snap EXCEPT ![s] = [c \in Convs |-> RowOf(c)]]
    /\ form' = [form EXCEPT ![s] = {}]
    /\ Goto(s, "pv_fetch")
    /\ UNCHANGED <<ynabVars, rowVars, lock, workVars, plan, wrote, owed>>

\* _build_group: fetch by the row read earlier, propose every convertible one.
BuildGroup(s) ==
    LET c == Group(s)
        fetched == GetTransactions(snap[s][c].acct, snap[s][c].start)
        rows == {[conv |-> c, id |-> t, original |-> amt[t]] :
                   t \in {t \in fetched : IsConvertible(t)}}
    IN  /\ pc[s] = "pv_fetch"
        /\ open' = [open EXCEPT ![s] = {t \in fetched : ~IsExcluded(t)}]
        /\ form' = [form EXCEPT ![s] = @ \cup rows]
        /\ Goto(s, "pv_sync")
        /\ UNCHANGED <<ynabVars, rowVars, lock, queue, snap, safe, conf,
                       overtaken, page, plan, wrote, owed>>

\* An upstream failure: a failed group, no rows and no store write.
FailedGroup(s) ==
    /\ pc[s] = "pv_fetch"
    /\ NextGroup(s, "pv_fetch")
    /\ UNCHANGED <<ynabVars, rowVars, lock, workVars, page, form,
                   wrote, owed>>

\* A 401 or 429 leaves the whole page for the error handler.
PreviewAborts(s) ==
    /\ pc[s] = "pv_fetch"
    /\ Abort(s, "idle")
    /\ page' = [page EXCEPT ![s] = <<>>]
    /\ form' = [form EXCEPT ![s] = {}]
    /\ UNCHANGED <<ynabVars, rowVars, lock, workVars, wrote, owed>>

\* store.mark_synced and store.set_pending: focused writes, no-ops on a row
\* that is gone.
WriteSynced(c) == synced' = [synced EXCEPT ![c] = @ \/ c \in live]
WriteBadge(c, n) == badge' = [badge EXCEPT ![c] = IF c \in live THEN n ELSE @]

PreviewMarkSynced(s) ==
    /\ pc[s] = "pv_sync"
    /\ WriteSynced(Group(s))
    /\ Goto(s, "pv_badge")
    /\ UNCHANGED <<ynabVars, live, used, acct, start, badge, lock, queue, snap,
                   workVars, pageVars, wrote, owed>>

PreviewSetPending(s) ==
    /\ pc[s] = "pv_badge"
    /\ WriteBadge(Group(s), PendingCount(open[s], {}))
    /\ NextGroup(s, "pv_fetch")
    /\ ForgetWork(s)
    /\ UNCHANGED <<ynabVars, live, used, acct, start, synced, lock,
                   page, form, wrote, owed>>

-----------------------------------------------------------------------------
(* index, which may count stale badges again before it renders. *)

\* The dashboard is loaded by a user who opted in: the rows are read once, and
\* up to RefreshMax whose count is stale are fetched.  No lock is taken.
OnloadRefresh(s) ==
    /\ "refresh" \in Moves
    /\ pc[s] \in {"idle", "shown"}
    /\ \E cs \in (SUBSET live) \ {{}} :
         /\ Cardinality(cs) <= RefreshMax
         /\ \E q \in SetToSeqs(cs) : queue' = [queue EXCEPT ![s] = q]
    /\ snap' = [snap EXCEPT ![s] = [c \in Convs |-> RowOf(c)]]
    /\ page' = [page EXCEPT ![s] = <<>>]
    /\ form' = [form EXCEPT ![s] = {}]
    /\ Goto(s, "rf_fetch")
    /\ UNCHANGED <<ynabVars, rowVars, lock, workVars, plan, wrote, owed>>

RefreshFetch(s) ==
    LET c == Group(s)
    IN  /\ pc[s] = "rf_fetch"
        /\ open' = [open EXCEPT ![s] =
              {t \in GetTransactions(snap[s][c].acct, snap[s][c].start) :
                 ~IsExcluded(t)}]
        /\ Goto(s, "rf_badge")
        /\ UNCHANGED <<ynabVars, rowVars, lock, queue, snap, safe, conf,
                       overtaken, pageVars, wrote, owed>>

\* Whatever a fetch raises, a 401 too, is swallowed.
RefreshFails(s) ==
    /\ pc[s] = "rf_fetch"
    /\ NextGroup(s, "rf_fetch")
    /\ UNCHANGED <<ynabVars, rowVars, lock, workVars, page, form,
                   wrote, owed>>

RefreshSetPending(s) ==
    /\ pc[s] = "rf_badge"
    /\ WriteBadge(Group(s), PendingCount(open[s], {}))
    /\ NextGroup(s, "rf_fetch")
    /\ ForgetWork(s)
    /\ UNCHANGED <<ynabVars, live, used, acct, start, synced, lock,
                   page, form, wrote, owed>>

-----------------------------------------------------------------------------
(* apply and apply_all *)

\* The user submits the page: any selection of its rows, an action for each.
\* _parse_updates turns them into updates; a malformed form is a group
\* without any.
Submit(s) ==
    /\ pc[s] = "shown"
    /\ page[s] # <<>>
    /\ \E rows \in SUBSET form[s] : \E act \in [rows -> Picks] :
         plan' = [plan EXCEPT ![s] =
                   {[conv |-> r.conv, id |-> r.id, original |-> r.original,
                     action |-> act[r]] : r \in rows}]
    /\ queue' = [queue EXCEPT ![s] = page[s]]
    /\ Goto(s, "ap_read")
    /\ UNCHANGED <<ynabVars, rowVars, lock, snap, workVars, page, form,
                   wrote, owed>>

GroupPlan(s) == {u \in plan[s] : u.conv = Group(s)}

\* The row before the lock: apply-all skips one that is gone and apply
\* answers 404; without updates _apply_updates returns before the lock.
ReadConversion(s) ==
    /\ pc[s] = "ap_read"
    /\ Group(s) \in live /\ GroupPlan(s) # {}
    /\ snap' = [snap EXCEPT ![s][Group(s)] = RowOf(Group(s))]
    /\ Goto(s, "ap_wait")
    /\ UNCHANGED <<ynabVars, rowVars, lock, queue, workVars, pageVars,
                   wrote, owed>>

SkipGroup(s) ==
    /\ pc[s] = "ap_read"
    /\ Group(s) \notin live \/ GroupPlan(s) = {}
    /\ NextGroup(s, "ap_read")
    /\ UNCHANGED <<ynabVars, rowVars, lock, workVars, page, form,
                   wrote, owed>>

\* Mutant: the lock is not waited for.
EnterUnlocked(s) ==
    /\ pc[s] = "ap_wait"
    /\ Group(s) \in live
    /\ lock' = [lock EXCEPT ![Group(s)] = s]
    /\ snap' = [snap EXCEPT ![s][Group(s)].start = start[Group(s)]]
    /\ Goto(s, "ap_fetch")
    /\ UNCHANGED <<ynabVars, rowVars, queue, workVars, pageVars, wrote, owed>>
\* Mutant: start_date stays the one read before the lock.
EnterWithOldRow(s) ==
    /\ pc[s] = "ap_wait"
    /\ lock[Group(s)] = Nobody
    /\ Group(s) \in live
    /\ lock' = [lock EXCEPT ![Group(s)] = s]
    /\ Goto(s, "ap_fetch")
    /\ UNCHANGED <<ynabVars, rowVars, queue, snap, workVars, pageVars,
                   wrote, owed>>
\* The lock is free: the row is read again under it, for its start_date; the
\* account stays the one of the first read.
EnterLock(s) ==
    LET c == Group(s)
    IN  /\ pc[s] = "ap_wait"
        /\ lock[c] = Nobody
        /\ c \in live
        /\ lock' = [lock EXCEPT ![c] = s]
        /\ snap' = [snap EXCEPT ![s][c].start = start[c]]
        /\ overtaken' = [overtaken EXCEPT ![s] = snap[s][c].acct # acct[c]]
        /\ Goto(s, "ap_fetch")
        /\ UNCHANGED <<ynabVars, rowVars, queue, open, safe, conf, pageVars,
                       wrote, owed>>

\* The row vanished while the request waited: ConversionGoneError.
ConversionGone(s) ==
    /\ pc[s] = "ap_wait"
    /\ lock[Group(s)] = Nobody
    /\ Group(s) \notin live
    /\ NextGroup(s, "ap_read")
    /\ UNCHANGED <<ynabVars, rowVars, lock, workVars, page, form,
                   wrote, owed>>

\* Mutant: a row converted or skipped meanwhile is not dropped.
IsSafeThoughMarked(u, fetched) ==
    /\ u.id \in fetched
    /\ ~IsSplit(u.id)
    /\ u.action = "skip" \/ amt[u.id].v = u.original.v
\* Mutant: a row whose amount was edited meanwhile is not dropped.
IsSafeThoughEdited(u, fetched) ==
    u.id \in fetched /\ ~IsSplit(u.id) /\ ~IsExcluded(u.id)
\* The write-time re-checks: still there, not split, not excluded, and the
\* amount the user saw unless only the skip marker is written.
IsSafe(u, fetched) ==
    /\ u.id \in fetched
    /\ ~IsSplit(u.id)
    /\ ~IsExcluded(u.id)
    /\ u.action = "skip" \/ amt[u.id] = u.original

FetchForApply(s) ==
    LET c == Group(s)
        fetched == GetTransactions(snap[s][c].acct, snap[s][c].start)
        found == {t \in fetched : ~IsExcluded(t)}
        ok == {u \in GroupPlan(s) : IsSafe(u, fetched)}
    IN  /\ pc[s] = "ap_fetch"
        /\ open' = [open EXCEPT ![s] = found]
        /\ safe' = [safe EXCEPT ![s] = ok]
        /\ owed' = [owed EXCEPT ![c] = IF snap[s][c].acct = acct[c]
                        THEN {t \in found : Date[t] >= start[c]} ELSE @]
        /\ Goto(s, IF ok = {} THEN "ap_sync" ELSE "ap_patch")
        /\ UNCHANGED <<ynabVars, rowVars, lock, queue, snap, conf, overtaken,
                       pageVars, wrote>>

\* Mutant: the lock is not released on an error.
LeaveLocked(s) ==
    /\ NextGroup(s, "ap_read") \/ Abort(s, "shown")
    /\ ForgetWork(s)
    /\ UNCHANGED <<lock, rowVars, page, form, wrote, owed>>
\* A YNABError leaves the lock: this group is reported and the next one runs,
\* or (401, 429) the whole request ends.
LeaveWithError(s) ==
    /\ NextGroup(s, "ap_read") \/ Abort(s, "shown")
    /\ Unlock(s)
    /\ ForgetWork(s)
    /\ UNCHANGED <<rowVars, page, form, wrote, owed>>

FetchFails(s) ==
    /\ pc[s] = "ap_fetch"
    /\ LeaveWithError(s)
    /\ UNCHANGED ynabVars

\* YNAB stores a set of updates.
Store(updates) ==
    /\ amt' = [t \in Txns |->
                 IF \E u \in updates : u.id = t
                   THEN NewAmount(CHOOSE u \in updates : u.id = t)
                   ELSE amt[t]]
    /\ mark' = [t \in Txns |->
                 IF \E u \in updates : u.id = t
                   THEN NewMark(CHOOSE u \in updates : u.id = t)
                   ELSE mark[t]]

\* update_transactions reaches YNAB: of the transactions that still exist it
\* writes some, and will confirm exactly those.
Patch(s) ==
    /\ pc[s] = "ap_patch"
    /\ \E done \in SUBSET {u \in safe[s] : st[u.id] = "present"} :
         /\ Store(done)
         /\ conf' = [conf EXCEPT ![s] = Ids(done)]
         /\ wrote' = [wrote EXCEPT ![Group(s)] = @ \cup Ids(done)]
    /\ Goto(s, "ap_answer")
    /\ UNCHANGED <<st, late, typed, rowVars, lock, queue, snap, open, safe,
                   overtaken, pageVars, owed>>

\* YNAB refuses the PATCH and writes nothing.
PatchRejected(s) ==
    /\ pc[s] = "ap_patch"
    /\ LeaveWithError(s)
    /\ UNCHANGED ynabVars

\* The client gives up on a PATCH that YNAB has not processed yet.
PatchTimesOut(s) ==
    /\ pc[s] = "ap_patch"
    /\ "late" \in Moves
    /\ late' = late \cup safe[s]
    /\ LeaveWithError(s)
    /\ UNCHANGED <<st, amt, mark, typed>>

PatchConfirmed(s) ==
    /\ pc[s] = "ap_answer"
    /\ Goto(s, "ap_sync")
    /\ UNCHANGED <<ynabVars, rowVars, lock, queue, snap, workVars, pageVars,
                   wrote, owed>>

\* YNAB wrote, but the answer is lost: an error although the rows changed.
AnswerLost(s) ==
    /\ pc[s] = "ap_answer"
    /\ LeaveWithError(s)
    /\ UNCHANGED ynabVars

\* Mutant: what was sent counts as written.
AppliedAsSent(s) == Ids(safe[s])
\* applied_ids: what YNAB confirmed.
Applied(s) == conf[s]

ApplyMarkSynced(s) ==
    /\ pc[s] = "ap_sync"
    /\ WriteSynced(Group(s))
    /\ Goto(s, "ap_badge")
    /\ UNCHANGED <<ynabVars, live, used, acct, start, badge, lock, queue, snap,
                   workVars, pageVars, wrote, owed>>

ApplySetPending(s) ==
    /\ pc[s] = "ap_badge"
    /\ WriteBadge(Group(s), PendingCount(open[s], Applied(s)))
    /\ Goto(s, "ap_floor")
    /\ UNCHANGED <<ynabVars, live, used, acct, start, synced, lock, queue, snap,
                   workVars, pageVars, wrote, owed>>

\* The floor moves up to the oldest fetched transaction not confirmed, if the
\* row read under the lock was below it and anything was sent.
Advances(s) ==
    safe[s] # {} /\ NewStart(open[s] \ Applied(s)) > snap[s][Group(s)].start

ApplySetStartDate(s) ==
    /\ pc[s] = "ap_floor"
    /\ start' = [start EXCEPT ![Group(s)] =
                   IF Advances(s) /\ Group(s) \in live
                     THEN NewStart(open[s] \ Applied(s)) ELSE @]
    /\ Unlock(s)
    /\ NextGroup(s, "ap_read")
    /\ ForgetWork(s)
    /\ UNCHANGED <<ynabVars, live, used, acct, synced, badge, page, form,
                   wrote, owed>>

-----------------------------------------------------------------------------
(* The conversion settings, in other requests; none of them takes a lock. *)

\* The unique index on (user_id, account_id).
AccountTaken(a, except) == \E c \in live \ {except} : acct[c] = a

\* create: a new id, an account that has no row yet.
Create(c) ==
    /\ "create" \in Moves
    /\ c \notin used
    /\ \E a \in Accounts : \E d \in Dates :
         /\ ~AccountTaken(a, c)
         /\ acct' = [acct EXCEPT ![c] = a]
         /\ start' = [start EXCEPT ![c] = d]
    /\ live' = live \cup {c}
    /\ used' = used \cup {c}
    /\ owed' = [owed EXCEPT ![c] = {}]
    /\ UNCHANGED <<ynabVars, synced, badge, lock, pc, queue, snap, workVars,
                   pageVars, wrote>>

\* edit: every form field is written, the account and start_date among them;
\* the badge and last_synced stay.
Edit(c) ==
    /\ "edit" \in Moves
    /\ c \in live
    /\ \E a \in Accounts : \E d \in Dates :
         /\ ~AccountTaken(a, c)
         /\ acct' = [acct EXCEPT ![c] = a]
         /\ start' = [start EXCEPT ![c] = d]
         /\ owed' = [owed EXCEPT ![c] =
                       {t \in GetTransactions(a, d) : ~IsExcluded(t)}]
    /\ overtaken' = [s \in Tabs |->
                       overtaken[s] \/ (pc[s] \in LockedSteps /\ Group(s) = c)]
    /\ UNCHANGED <<ynabVars, live, used, synced, badge, lock, pc, queue, snap,
                   open, safe, conf, pageVars, wrote>>

\* delete, bulk_delete, and the cascade of an account deletion.
Delete ==
    /\ "delete" \in Moves
    /\ \E gone \in (SUBSET live) \ {{}} : live' = live \ gone
    /\ UNCHANGED <<ynabVars, used, acct, start, synced, badge, lock, pc, queue,
                   snap, workVars, pageVars, wrote, owed>>

-----------------------------------------------------------------------------
(* The user in YNAB, the bank import, and the machines. *)

\* What is on its way to YNAB.
Sent == UNION {safe[s] : s \in {r \in Tabs : pc[r] = "ap_patch"}}

InYNAB(t) ==
    /\ st[t] = "present"
    /\ UNCHANGED <<late, rowVars, lock, pc, queue, snap, workVars, pageVars,
                   wrote, owed>>

\* The amounts that PATCHes of t under way were computed from.
UnderWay(t) ==
    {u.original.v : u \in {w \in late \cup Sent : w.id = t /\ w.action = "convert"}}

\* Typing an amount leaves the memo; "zero" allows typing over a zero.
EditAmount(t) ==
    /\ "amount" \in Moves
    /\ amt[t].v # 0 \/ "zero" \in Moves
    /\ \E v \in Values :
         /\ amt' = [amt EXCEPT ![t] = [v |-> v, k |-> 0]]
         /\ typed' = [typed EXCEPT ![t] = {v} \cup UnderWay(t)]
    /\ InYNAB(t)
    /\ UNCHANGED <<st, mark>>

\* A marker typed by hand or left by another converter.
MarkByHand(t) ==
    /\ "mark" \in Moves
    /\ mark[t] = "none"
    /\ \E m \in Marks \ {"none"} : mark' = [mark EXCEPT ![t] = m]
    /\ InYNAB(t)
    /\ UNCHANGED <<st, amt, typed>>

DeleteTxn(t) ==
    /\ "remove" \in Moves
    /\ st' = [st EXCEPT ![t] = "deleted"]
    /\ InYNAB(t)
    /\ UNCHANGED <<amt, mark, typed>>

Import(t) ==
    /\ st[t] = "absent"
    /\ st' = [st EXCEPT ![t] = "present"]
    /\ UNCHANGED <<amt, mark, late, typed, rowVars, lock, pc, queue, snap, workVars,
                   pageVars, wrote, owed>>

\* A PATCH the client gave up on takes effect for one transaction, or never.
LatePatch ==
    \E u \in late :
        /\ late' = late \ {u}
        /\ \/ /\ st[u.id] = "present"
              /\ Store({u})
              /\ wrote' = [wrote EXCEPT ![u.conv] = @ \cup {u.id}]
           \/ UNCHANGED <<amt, mark, wrote>>
        /\ UNCHANGED <<st, typed, rowVars, lock, pc, queue, snap, workVars,
                       pageVars, owed>>

\* The server restarts (a deploy, a crash): requests and locks are gone, the
\* database, YNAB and the pages in the browser are not.
Crash ==
    /\ "crash" \in Moves
    /\ \E s \in Tabs : pc[s] \in ServerSteps
    /\ late' = IF "late" \in Moves THEN late \cup Sent ELSE late
    /\ lock' = [c \in Convs |-> Nobody]
    /\ pc' = [s \in Tabs |->
                IF pc[s] \in ApplySteps THEN "shown"
                ELSE IF pc[s] \in PreviewSteps THEN "idle" ELSE pc[s]]
    /\ page' = [s \in Tabs |-> IF pc[s] \in PreviewSteps THEN <<>> ELSE page[s]]
    /\ form' = [s \in Tabs |-> IF pc[s] \in PreviewSteps THEN {} ELSE form[s]]
    /\ queue' = [s \in Tabs |-> <<>>]
    /\ open' = [s \in Tabs |-> {}]
    /\ safe' = [s \in Tabs |-> {}]
    /\ conf' = [s \in Tabs |-> {}]
    /\ overtaken' = [s \in Tabs |-> FALSE]
    /\ plan' = [s \in Tabs |-> {}]
    /\ snap' = [s \in Tabs |-> NoSnaps]
    /\ UNCHANGED <<st, amt, mark, typed, rowVars, wrote, owed>>

-----------------------------------------------------------------------------
PreviewStep(s) ==
    \/ BuildGroup(s) \/ FailedGroup(s) \/ PreviewAborts(s)
    \/ PreviewMarkSynced(s) \/ PreviewSetPending(s)
    \/ RefreshFetch(s) \/ RefreshFails(s) \/ RefreshSetPending(s)

\* An apply once it has the lock.
LockedStep(s) ==
    \/ FetchForApply(s) \/ FetchFails(s)
    \/ Patch(s) \/ PatchRejected(s) \/ PatchTimesOut(s)
    \/ PatchConfirmed(s) \/ AnswerLost(s)
    \/ ApplyMarkSynced(s) \/ ApplySetPending(s) \/ ApplySetStartDate(s)

ApplyStep(s) ==
    \/ ReadConversion(s) \/ SkipGroup(s)
    \/ EnterLock(s) \/ ConversionGone(s)
    \/ LockedStep(s)

ConfigStep == Delete \/ \E c \in Convs : Create(c) \/ Edit(c)

WorldStep ==
    \/ \E t \in Txns : EditAmount(t) \/ MarkByHand(t) \/ DeleteTxn(t) \/ Import(t)
    \/ LatePatch
    \/ Crash

Next ==
    \/ \E s \in Tabs :
         \/ Preview(s) \/ OnloadRefresh(s) \/ PreviewStep(s)
         \/ Submit(s) \/ ApplyStep(s)
    \/ ConfigStep
    \/ WorldStep

Spec == Init /\ [][Next]_vars

\* Every call to YNAB and to the database returns or times out, and an
\* asyncio.Lock is handed to its waiters in order.
Fairness ==
    \A s \in Tabs :
        /\ WF_vars(PreviewStep(s))
        /\ WF_vars(ReadConversion(s) \/ SkipGroup(s) \/ LockedStep(s))
        /\ SF_vars(EnterLock(s) \/ ConversionGone(s))

FairSpec == Spec /\ Fairness

-----------------------------------------------------------------------------
(* Properties *)

\* The type invariant.
TypeOK ==
    /\ st \in [Txns -> {"absent", "present", "deleted"}]
    /\ amt \in [Txns -> Amounts]
    /\ mark \in [Txns -> Marks]
    /\ late \in SUBSET Updates
    /\ typed \in [Txns -> SUBSET Values]
    /\ live \in SUBSET Convs
    /\ used \in SUBSET Convs
    /\ acct \in [Convs -> Accounts]
    /\ start \in [Convs -> Dates]
    /\ synced \in [Convs -> BOOLEAN]
    /\ badge \in [Convs -> Counts]
    /\ lock \in [Convs -> Tabs \cup {Nobody}]
    /\ pc \in [Tabs -> Labels]
    /\ queue \in [Tabs -> Seq(Convs)]
    /\ snap \in [Tabs -> [Convs -> Snapshots]]
    /\ open \in [Tabs -> SUBSET Txns]
    /\ safe \in [Tabs -> SUBSET Updates]
    /\ conf \in [Tabs -> SUBSET Txns]
    /\ page \in [Tabs -> Seq(Convs)]
    /\ form \in [Tabs -> SUBSET Rows]
    /\ plan \in [Tabs -> SUBSET Updates]
    /\ wrote \in [Convs -> SUBSET Txns]
    /\ overtaken \in [Tabs -> BOOLEAN]
    /\ owed \in [Convs -> SUBSET Txns]

\* No amount is ever the conversion of a converted amount (the marker of
\* convert.py exists for this), whatever tabs, late PATCHes, restarts and
\* edits do: also a stale page or a repeated submit only ever writes the
\* conversion of an amount the user typed.
NoDoubleConversion == \A t \in Txns : amt[t].k <= 1

\* _apply_locks: two applies of one conversion are never both between their
\* re-read of the row and their last write.
LockExcludes ==
    \A s, r \in Tabs :
        /\ pc[s] \in LockedSteps
        /\ pc[r] \in LockedSteps
        /\ Group(s) = Group(r)
        => s = r

\* A conversion writes each transaction at most once: no apply, not a double
\* click, a stale tab or a retry after a lost answer either, holds a PATCH
\* with a transaction that an apply of the same conversion already wrote.
AtMostOnce ==
    \A s \in Tabs :
        pc[s] = "ap_patch" => Ids(safe[s]) \cap wrote[Group(s)] = {}

\* A page, however old, never overwrites an amount the user typed: the amount in
\* YNAB is the one typed last, converted or not, or else the one carried by a
\* PATCH that was under way when the user typed (edited_ids of _apply_updates).
EditsAreKept == \A t \in Txns : amt[t].v \in typed[t]

\* The fetch floor never passes work left over: what the last apply of a
\* conversion fetched as not excluded (left unticked, a split, dropped by a
\* re-check, not confirmed), or the last edit put on view, is on or after
\* start_date while it waits.  "Never past a transaction still waiting to be
\* converted (splits, unticked rows)" (CHANGELOG.md); not so with edits, see
\* the README's disagreements.
FloorKeepsOwed ==
    \A c \in live : \A t \in owed[c] :
        st[t] = "present" /\ ~IsExcluded(t) => Date[t] >= start[c]

\* With edits too, only an apply that goes by a row edited since hides work: one
\* whose conversion was moved before the re-read under the lock, or edited after
\* it.  An earlier edit of start_date is no excuse, nor are other tabs, imports,
\* answers of YNAB or deletions.
OnlyOvertakenHides ==
    [][\A s \in Tabs : ApplySetStartDate(s) /\ ~overtaken[s] =>
         \A t \in owed[Group(s)] :
            ~IsExcluded(t) => Date[t] >= start'[Group(s)]]_vars

\* Without imports, settings edits and amounts typed over a zero, the badge
\* never shows less work than the next preview would find, also while other
\* tabs apply, answers are lost, or the server restarts.
BadgeNeverHidesWork ==
    \A c \in live : badge[c] # NoCount =>
        badge[c] >= Cardinality({t \in GetTransactions(acct[c], start[c]) :
                                   IsConvertible(t)})

\* "It only ever moves forward": only a settings edit or a new row sets
\* start_date to an earlier date.
FloorOnlyAdvances ==
    [][\A c \in Convs : start'[c] < start[c] => Edit(c) \/ Create(c)]_vars

\* Every request is answered, whoever else holds or waits for the locks it
\* needs, and whatever fails.
EveryRequestEnds ==
    \A s \in Tabs : pc[s] \in ServerSteps ~> pc[s] \in {"idle", "shown"}

-----------------------------------------------------------------------------
(* What all of this implements: the ledger. *)

\* A row is on offer as long as a page, a request or a PATCH holds it.
HeldRows == late \cup UNION {form[s] \cup plan[s] \cup safe[s] : s \in Tabs}
HeldOffers == {[id |-> r.id, original |-> r.original] : r \in HeldRows}

\* Nobody but the applies of one conversion per account writes what this
\* application converts.
IsCalm == Moves \cap {"amount", "mark", "edit", "delete", "late"} = {}

LedgerOf == INSTANCE Ledger WITH offers <- HeldOffers, Calm <- IsCalm

\* The tabs with their previews, locks, retries, lost answers and restarts
\* together do to the budget what the ledger may do: every transaction is
\* settled in one step, on an offer made when it was unsettled, and, when
\* nobody else writes it, once and at the amount that was shown.
ImplementsLedger == LedgerOf!Spec

==============================================================================
