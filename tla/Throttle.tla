------------------------------- MODULE Throttle -------------------------------
(***************************************************************************)
(* The brute-force throttles of /login and of the password asked for before *)
(* an account is deleted (src/app/auth.py), as the threads of the one       *)
(* worker run them: the lockout is read, a password is verified for tens of *)
(* milliseconds while other threads go on, and the failure is counted in a  *)
(* dict that all of them share and that is swept when it is full.           *)
(*                                                                         *)
(* An email stands for its user as well.  Times are relative: an entry has  *)
(* the seconds that are left of its lockout and those since its last        *)
(* failure, and Tick is the passing of a second.                            *)
(***************************************************************************)
EXTENDS Integers, FiniteSets

CONSTANTS
    Threads,    \* of the worker's pool
    Keys,       \* emails
    Threshold,  \* LOCKOUT_THRESHOLD
    MaxLock,    \* LOCKOUT_MAX_SECONDS
    Cap,        \* _MAX_TRACKED_KEYS
    Top,        \* the bound on the failures counted
    NoEntry,    \* a key that is not tracked
    NoSlot,     \* what an idle thread works on
    Members,    \* the emails that have an account at first
    Moves       \* what happens in this instance

AllMoves == {"delete", "console", "restart"}

ASSUME ThresholdAssumption == Threshold \in Nat \ {0}
ASSUME MaxLockAssumption == MaxLock \in Nat \ {0, 1}
ASSUME ThreadAssumption == IsFiniteSet(Threads) /\ Threads # {}
ASSUME KeyAssumption == IsFiniteSet(Keys)
ASSUME MemberAssumption == Members \subseteq Keys
ASSUME MoveAssumption == Moves \subseteq AllMoves

VARIABLES
    store,     \* [Slots -> Entries \cup {NoEntry}], the two dicts
    accounts,  \* emails that have an account
    thread,    \* [Threads -> Tasks]
    slipped,   \* history: failures counted since a lockout began
    kept       \* history: seconds since it began

vars == <<store, accounts, thread, slipped, kept>>

\* _login_throttle and _reauth_throttle.
Stores == {"login", "reauth"}
Slots == Stores \X Keys

\* Mutant: one doubling too many, and no limit.
WaitLonger(n) == 2^(n - Threshold + 2)
\* The wait after n failures, n at least Threshold.
Wait(n) ==
    LET exponent == IF n - Threshold + 1 < 16 THEN n - Threshold + 1 ELSE 16 IN
    IF 2^exponent < MaxLock THEN 2^exponent ELSE MaxLock

\* Top bounds the count; it is chosen so that the wait is at its limit then, and
\* nothing tells more failures apart.
ASSUME TopAssumption == Top \in Nat /\ Top >= Threshold
Count(n) == IF n < Top THEN n + 1 ELSE n

Entries == [failures : 0..Top, left : 0..MaxLock, idle : 0..(MaxLock + 1)]
NewEntry == [failures |-> 0, left |-> 0, idle |-> 0]

Recording == {"list", "drop", "default", "count", "lock"}
Labels == {"idle", "verify", "erase", "forget"} \cup Recording

ASSUME NoneAssumption == NoEntry \notin Entries /\ NoSlot \notin Slots

\* A thread: where it is, the entry it is about, whether the email had an
\* account when the request came, whether the entry it has taken from the dict
\* is still in it, the keys it is to sweep, the size of the dict it saw, and
\* whether a second has ended since it began to record a failure.
Tasks ==
    [at : Labels, slot : Slots \cup {NoSlot}, known : BOOLEAN, held : BOOLEAN,
     todo : SUBSET Keys, size : Nat, late : BOOLEAN]

Idle == [at |-> "idle", slot |-> NoSlot, known |-> FALSE, held |-> FALSE,
         todo |-> {}, size |-> 0, late |-> FALSE]

Init ==
    /\ store = [p \in Slots |-> NoEntry]
    /\ accounts = Members
    /\ thread = [t \in Threads |-> Idle]
    /\ slipped = [p \in Slots |-> 0]
    /\ kept = [p \in Slots |-> 0]

At(t, label) == thread[t].at = label
Goto(t, label) == thread' = [thread EXCEPT ![t].at = label]
Finish(t) == thread' = [thread EXCEPT ![t] = Idle]

Slot(t) == thread[t].slot
Tracked(p) == store[p] # NoEntry
Size(s) == Cardinality({k \in Keys : Tracked(<<s, k>>)})

\* _is_locked.
Locked(p) == Tracked(p) /\ store[p].left > 0

\* The threads when an entry leaves the dict: who has it counts in vain.
Detached(p) ==
    [t \in Threads |->
        IF thread[t].slot = p THEN [thread[t] EXCEPT !.held = FALSE]
                              ELSE thread[t]]

\* An entry leaves the dict and thread t goes on as task says.
Drop(p, t, task) ==
    /\ store' = [store EXCEPT ![p] = NoEntry]
    /\ slipped' = [slipped EXCEPT ![p] = 0]
    /\ kept' = [kept EXCEPT ![p] = 0]
    /\ thread' = [Detached(p) EXCEPT ![t] = task]

-----------------------------------------------------------------------------
(* Requests *)

\* Mutant: the lockout is not asked for.
AttemptAnyway(t, p, known) ==
    /\ At(t, "idle")
    /\ thread' = [thread EXCEPT ![t].at = "verify", ![t].slot = p,
                                ![t].known = known]
\* The key is not locked out; whether it belongs to an account is read.
Attempt(t, p, known) ==
    /\ At(t, "idle")
    /\ ~Locked(p)
    /\ thread' = [thread EXCEPT ![t].at = "verify", ![t].slot = p,
                                ![t].known = known]

\* POST /login with any email.
Login(t) ==
    /\ \E k \in Keys : Attempt(t, <<"login", k>>, k \in accounts)
    /\ UNCHANGED <<store, accounts, slipped, kept>>

\* POST /settings/delete-account, for whoever is logged in.
AskToDelete(t) ==
    /\ "delete" \in Moves
    /\ \E k \in accounts : Attempt(t, <<"reauth", k>>, TRUE)
    /\ UNCHANGED <<store, accounts, slipped, kept>>

\* The password is right: the failures are forgotten.
PasswordRight(t) ==
    /\ At(t, "verify") /\ thread[t].known
    /\ Drop(Slot(t), t, IF Slot(t)[1] = "login"
                        THEN Idle ELSE [thread[t] EXCEPT !.at = "erase"])
    /\ UNCHANGED accounts

\* It is wrong: is there an entry to count it in, or room for one?
PasswordWrong(t) ==
    /\ At(t, "verify")
    /\ LET size == Size(Slot(t)[1]) IN
       IF ~Tracked(Slot(t)) /\ size >= Cap
       THEN thread' = [thread EXCEPT ![t].at = "list", ![t].size = size]
       ELSE Goto(t, "default")
    /\ UNCHANGED <<store, accounts, slipped, kept>>

\* UserStore.delete.
EraseAccount(t) ==
    /\ At(t, "erase")
    /\ accounts' = accounts \ {Slot(t)[2]}
    /\ Goto(t, "forget")
    /\ UNCHANGED <<store, slipped, kept>>

\* clear_login_failures, the last thing a deletion does.
ForgetEmail(t) ==
    /\ At(t, "forget")
    /\ Drop(<<"login", Slot(t)[2]>>, t, Idle)
    /\ UNCHANGED accounts

\* delete_user is a process of its own: what it clears is its own, empty, dict.
ConsoleDeletes(k) ==
    /\ "console" \in Moves
    /\ k \in accounts
    /\ accounts' = accounts \ {k}
    /\ UNCHANGED <<store, thread, slipped, kept>>

-----------------------------------------------------------------------------
(* _record_failure and _throttle_entry *)

\* Mutant: whatever is not locked out may go.
DecayedIfUnlocked(e) == e.left = 0
\* Nothing has failed for the longest lockout.
Decayed(e) == e.idle > MaxLock

\* The idle entries are listed.
ListIdle(t) ==
    /\ At(t, "list")
    /\ LET s == Slot(t)[1] IN
       thread' = [thread EXCEPT ![t].at = "drop", ![t].size = 0,
           ![t].todo = {k \in Keys : Tracked(<<s, k>>) /\ Decayed(store[<<s, k>>])}]
    /\ UNCHANGED <<store, accounts, slipped, kept>>

\* Another thread has added or removed a key meanwhile: a RuntimeError.
ListFails(t) ==
    /\ At(t, "list")
    /\ Size(Slot(t)[1]) # thread[t].size
    /\ Finish(t)
    /\ UNCHANGED <<store, accounts, slipped, kept>>

\* del store[idle]
DropIdle(t) ==
    /\ At(t, "drop")
    /\ \E k \in thread[t].todo :
          LET p == <<Slot(t)[1], k>> IN
          /\ Tracked(p)
          /\ Drop(p, t, [thread[t] EXCEPT !.todo = @ \ {k}])
    /\ UNCHANGED accounts

\* Another thread has removed the key: a KeyError, and the failure that was to
\* be counted is not.
DropFails(t) ==
    /\ At(t, "drop")
    /\ \E k \in thread[t].todo : ~Tracked(<<Slot(t)[1], k>>)
    /\ Finish(t)
    /\ UNCHANGED <<store, accounts, slipped, kept>>

\* store.setdefault
SetDefault(t) ==
    /\ At(t, "default") \/ (At(t, "drop") /\ thread[t].todo = {})
    /\ store' = IF Tracked(Slot(t)) THEN store
                ELSE [store EXCEPT ![Slot(t)] = NewEntry]
    /\ thread' = [thread EXCEPT ![t].at = "count", ![t].held = TRUE]
    /\ UNCHANGED <<accounts, slipped, kept>>

\* The entry of t has been dropped: what it counts is seen by nobody.
CountLost(t) ==
    /\ thread[t].at \in {"count", "lock"}
    /\ ~thread[t].held
    /\ Finish(t)
    /\ UNCHANGED <<store, accounts, slipped, kept>>

CountFailure(t) ==
    /\ At(t, "count") /\ thread[t].held
    /\ LET p == Slot(t)
           n == Count(store[p].failures) IN
       /\ store' = [store EXCEPT ![p].failures = n, ![p].idle = 0]
       /\ slipped' = [slipped EXCEPT ![p] = IF Locked(p) THEN @ + 1 ELSE @]
       /\ IF n >= Threshold THEN Goto(t, "lock") ELSE Finish(t)
    /\ UNCHANGED <<accounts, kept>>

LockOut(t) ==
    /\ At(t, "lock") /\ thread[t].held
    /\ store' = [store EXCEPT ![Slot(t)].left = Wait(store[Slot(t)].failures)]
    /\ Finish(t)
    /\ UNCHANGED <<accounts, slipped, kept>>

-----------------------------------------------------------------------------
\* A second passes.  Recording a failure is a matter of microseconds and never
\* takes more than a second.
Tick ==
    /\ \A t \in Threads : ~thread[t].late
    /\ store' = [p \in Slots |->
          IF ~Tracked(p) THEN NoEntry
          ELSE [store[p] EXCEPT !.left = IF @ > 0 THEN @ - 1 ELSE 0,
                                !.idle = IF @ <= MaxLock THEN @ + 1 ELSE @]]
    /\ thread' = [t \in Threads |->
          [thread[t] EXCEPT !.late = thread[t].at \in Recording]]
    /\ slipped' = [p \in Slots |->
          IF Tracked(p) /\ store[p].left > 1 THEN slipped[p] ELSE 0]
    /\ kept' = [p \in Slots |->
          IF Tracked(p) /\ store[p].left > 1 THEN kept[p] + 1 ELSE 0]
    /\ UNCHANGED accounts

\* The worker is restarted, on every deployment: the dicts are in its memory.
Restart ==
    /\ "restart" \in Moves
    /\ store' = [p \in Slots |-> NoEntry]
    /\ thread' = [t \in Threads |-> Idle]
    /\ slipped' = [p \in Slots |-> 0]
    /\ kept' = [p \in Slots |-> 0]
    /\ UNCHANGED accounts

Record(t) ==
    \/ ListIdle(t) \/ ListFails(t) \/ DropIdle(t) \/ DropFails(t)
    \/ SetDefault(t) \/ CountLost(t) \/ CountFailure(t) \/ LockOut(t)

Serve(t) ==
    \/ Login(t) \/ AskToDelete(t) \/ PasswordRight(t) \/ PasswordWrong(t)
    \/ EraseAccount(t) \/ ForgetEmail(t)

Next ==
    \/ \E t \in Threads : Serve(t) \/ Record(t)
    \/ \E k \in Keys : ConsoleDeletes(k)
    \/ Tick
    \/ Restart

Spec == Init /\ [][Next]_vars

-----------------------------------------------------------------------------
(* Properties *)

TypeOK ==
    /\ store \in [Slots -> Entries \cup {NoEntry}]
    /\ accounts \subseteq Keys
    /\ thread \in [Threads -> Tasks]
    /\ slipped \in [Slots -> Nat]
    /\ kept \in [Slots -> Nat]

\* A lockout lets through no more failures than there were other threads past
\* the check when it began, however they and the verification interleave
\* (login and delete_account, between _is_locked and _record_failure).
OnlyRacersSlip == \A p \in Slots : slipped[p] < Cardinality(Threads)

\* What a sweep is about to drop has not failed for the longest lockout, but
\* for a failure of the second just over (_throttle_entry): a full store never
\* resets the failures of somebody who is still trying.
SweepSparesTheBusy ==
    \A t \in Threads : At(t, "drop") =>
        \A k \in thread[t].todo :
            LET p == <<Slot(t)[1], k>> IN
            Tracked(p) => Decayed(store[p]) \/ store[p].idle <= 1

\* Attempts that go on keep nobody out for longer than the lockouts of the
\* threads that were past the check: those made later are refused before they
\* count, and extend nothing.
LockoutEnds == \A p \in Slots : kept[p] < MaxLock * Cardinality(Threads)
===============================================================================
