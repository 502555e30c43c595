--------------------------- MODULE Throttle_proofs ---------------------------
(***************************************************************************)
(* Proofs about Throttle, for any number of threads and emails, any limits   *)
(* and any bound on the failures counted.                                    *)
(***************************************************************************)
EXTENDS Throttle, FiniteSetTheorems, TLAPS

\* Who is at work has an entry to work on; an entry that is held is there, and
\* has failures enough when it is about to be locked.
HeldInv ==
    \A t \in Threads :
        /\ ~At(t, "idle") => Slot(t) \in Slots
        /\ At(t, "idle") => thread[t] = Idle
        /\ thread[t].held => thread[t].at \in {"count", "lock"} /\ Tracked(Slot(t))
        /\ thread[t].held /\ At(t, "lock") => store[Slot(t)].failures >= Threshold
TypeInv == TypeOK /\ HeldInv

\* Powers of two are positive numbers.
LEMMA Power == ASSUME NEW n \in Nat PROVE 2^n \in Nat \ {0}
<1>1. IsFiniteSet(1..n) /\ Cardinality(1..n) = n
    BY FS_Interval
<1>2. IsFiniteSet(SUBSET (1..n)) /\ Cardinality(SUBSET (1..n)) = 2^n
    BY <1>1, FS_SUBSET
<1>3. SUBSET (1..n) # {}
    OBVIOUS
<1> QED
    BY <1>2, <1>3, FS_CardinalityType, FS_EmptySet

\* A lockout takes some time, and no longer than the longest.
LEMMA WaitBounded == ASSUME NEW n \in Nat, n >= Threshold PROVE Wait(n) \in 1..MaxLock
<1> DEFINE e == IF n - Threshold + 1 < 16 THEN n - Threshold + 1 ELSE 16
<1>1. e \in Nat
    BY ThresholdAssumption
<1>2. 2^e \in Nat \ {0}
    BY <1>1, Power
<1> HIDE DEF e
<1>3. (IF 2^e < MaxLock THEN 2^e ELSE MaxLock) \in 1..MaxLock
    BY <1>2, MaxLockAssumption
<1> QED
    BY <1>3 DEF Wait, e

-----------------------------------------------------------------------------
(* What a step does to the threads and the entries *)

\* A thread other than the one that moves: all it can lose is its entry.
Aside(u) ==
    /\ thread'[u].at = thread[u].at /\ thread'[u].slot = thread[u].slot
    /\ thread'[u].todo = thread[u].todo /\ thread'[u].late = thread[u].late
    /\ thread'[u].held => thread[u].held
    /\ thread'[u] = Idle <=> thread[u] = Idle

\* A thread moves on, the others do not.
LEMMA GotoEffect ==
    ASSUME TypeOK, NEW t \in Threads, NEW task \in Tasks,
           thread' = [thread EXCEPT ![t] = task]
    PROVE  /\ thread' \in [Threads -> Tasks] /\ thread'[t] = task
           /\ \A u \in Threads \ {t} : thread'[u] = thread[u] /\ Aside(u)
BY DEF TypeOK, Aside

\* An entry is dropped.
LEMMA DropEffect ==
    ASSUME TypeOK, HeldInv, NEW t \in Threads, NEW p \in Slots, NEW task \in Tasks,
           Drop(p, t, task)
    PROVE  /\ thread' \in [Threads -> Tasks] /\ thread'[t] = task
           /\ \A u \in Threads \ {t} :
                 Aside(u) /\ (thread'[u].held => thread[u].slot # p)
           /\ store' \in [Slots -> Entries \cup {NoEntry}] /\ store'[p] = NoEntry
           /\ \A q \in Slots \ {p} : store'[q] = store[q]
           /\ slipped' \in [Slots -> Nat] /\ slipped'[p] = 0
           /\ \A q \in Slots \ {p} : slipped'[q] = slipped[q]
           /\ kept' \in [Slots -> Nat] /\ kept'[p] = 0
           /\ \A q \in Slots \ {p} : kept'[q] = kept[q]
<1>1. \A u \in Threads : thread[u] \in Tasks
    BY DEF TypeOK
<1>2. \A u \in Threads :
        Detached(p)[u] = IF thread[u].slot = p THEN [thread[u] EXCEPT !.held = FALSE]
                                               ELSE thread[u]
    BY DEF Detached
<1>3. \A u \in Threads : Detached(p)[u] \in Tasks
    <2>1. \A u \in Threads : [thread[u] EXCEPT !.held = FALSE] \in Tasks
        BY <1>1 DEF Tasks
    <2> QED
        BY <1>1, <1>2, <2>1
<1>4. /\ thread' \in [Threads -> Tasks] /\ thread'[t] = task
      /\ \A u \in Threads \ {t} : thread'[u] = Detached(p)[u]
    BY <1>3 DEF Drop, Detached
<1>5. ASSUME NEW u \in Threads \ {t}
      PROVE  Aside(u) /\ (thread'[u].held => thread[u].slot # p)
    <2>1. CASE thread[u].slot = p
        <3>1. thread'[u] = [thread[u] EXCEPT !.held = FALSE]
            BY <1>2, <1>4, <2>1
        <3>2. p # NoSlot
            BY NoneAssumption
        <3> QED
            BY <1>1, <2>1, <3>1, <3>2 DEF Tasks, Aside, Idle
    <2>2. CASE thread[u].slot # p
        BY <1>2, <1>4, <2>2 DEF Aside
    <2> QED
        BY <2>1, <2>2
<1>6. /\ store' \in [Slots -> Entries \cup {NoEntry}] /\ store'[p] = NoEntry
      /\ \A q \in Slots \ {p} : store'[q] = store[q]
    BY DEF Drop, TypeOK
<1>7. /\ slipped' \in [Slots -> Nat] /\ slipped'[p] = 0
      /\ \A q \in Slots \ {p} : slipped'[q] = slipped[q]
    BY DEF Drop, TypeOK
<1>8. /\ kept' \in [Slots -> Nat] /\ kept'[p] = 0
      /\ \A q \in Slots \ {p} : kept'[q] = kept[q]
    BY DEF Drop, TypeOK
<1> QED
    BY <1>4, <1>5, <1>6, <1>7, <1>8

-----------------------------------------------------------------------------
(* Types *)

\* What a thread that moves must be afterwards.
Proper(task) ==
    /\ task \in Tasks
    /\ task.at # "idle" => task.slot \in Slots
    /\ task.at = "idle" => task = Idle
    /\ task.held => task.at \in {"count", "lock"} /\ store'[task.slot] # NoEntry
    /\ task.held /\ task.at = "lock" => store'[task.slot].failures >= Threshold

\* An entry that is there stays, with its failures.
Grows(p) ==
    Tracked(p) =>
        \/ store'[p] = store[p]
        \/ Tracked(p)' /\ store'[p].failures >= store[p].failures

LEMMA IdleProper == Proper(Idle)
<1>1. Idle \in Tasks
    BY DEF Idle, Tasks, Labels
<1> QED
    BY <1>1 DEF Proper, Idle

\* A thread moves on and no entry goes.
LEMMA MoveKeeps ==
    ASSUME TypeInv, NEW t \in Threads, NEW task, Proper(task),
           thread' = [thread EXCEPT ![t] = task],
           store' \in [Slots -> Entries \cup {NoEntry}], \A p \in Slots : Grows(p)
    PROVE  HeldInv' /\ thread' \in [Threads -> Tasks]
<1>1. /\ thread' \in [Threads -> Tasks] /\ thread'[t] = task
      /\ \A u \in Threads \ {t} : thread'[u] = thread[u]
    BY GotoEffect DEF TypeInv, Proper
<1>2. ASSUME NEW u \in Threads \ {t}
      PROVE  /\ ~At(u, "idle")' => Slot(u)' \in Slots
             /\ At(u, "idle")' => thread'[u] = Idle
             /\ thread'[u].held => thread'[u].at \in {"count", "lock"} /\ Tracked(Slot(u))'
             /\ thread'[u].held /\ At(u, "lock")' =>
                   store'[Slot(u)'].failures >= Threshold
    <2>1. /\ ~At(u, "idle") => Slot(u) \in Slots
          /\ At(u, "idle") => thread[u] = Idle
          /\ thread[u].held => thread[u].at \in {"count", "lock"} /\ Tracked(Slot(u))
          /\ thread[u].held /\ At(u, "lock") => store[Slot(u)].failures >= Threshold
        BY DEF TypeInv, HeldInv
    <2>2. CASE thread[u].held
        <3>1. Slot(u) \in Slots /\ Tracked(Slot(u)) /\ Grows(Slot(u))
            BY <2>1, <2>2 DEF At
        <3>2. store[Slot(u)] \in Entries
            BY <3>1 DEF TypeInv, TypeOK, Tracked
        <3>3. CASE store'[Slot(u)] = store[Slot(u)]
            BY <1>1, <2>1, <3>1, <3>3 DEF At, Slot, Tracked
        <3>4. CASE Tracked(Slot(u))' /\ store'[Slot(u)].failures >= store[Slot(u)].failures
            <4>1. thread'[u] = thread[u] /\ Slot(u)' = Slot(u)
                BY <1>1 DEF Slot
            <4>2. store'[Slot(u)] \in Entries
                BY <3>1, <3>4, <4>1 DEF Tracked
            <4>3. store'[Slot(u)].failures \in Nat /\ store[Slot(u)].failures \in Nat
                BY <3>2, <4>2, TopAssumption DEF Entries
            <4>4. thread[u].at = "lock" => store'[Slot(u)].failures >= Threshold
                BY <2>1, <2>2, <3>4, <4>3, ThresholdAssumption DEF At
            <4> QED
                BY <2>1, <3>4, <4>1, <4>4 DEF At
        <3> QED
            BY <3>1, <3>3, <3>4 DEF Grows, Tracked, Slot
    <2>3. CASE ~thread[u].held
        BY <1>1, <2>1, <2>3 DEF At, Slot
    <2> QED
        BY <2>2, <2>3
<1> QED
    BY <1>1, <1>2 DEF HeldInv, Proper, At, Slot, Tracked

\* An entry is dropped.
LEMMA DropKeeps ==
    ASSUME TypeInv, NEW t \in Threads, NEW p \in Slots, NEW task, Proper(task),
           ~task.held, Drop(p, t, task), accounts' \subseteq Keys
    PROVE  TypeInv'
<1>1. TypeOK /\ HeldInv /\ task \in Tasks
    BY DEF TypeInv, Proper
<1>2. TypeOK'
    BY <1>1, DropEffect DEF TypeOK
<1>3. /\ thread'[t] = task
      /\ \A u \in Threads \ {t} :
            Aside(u) /\ (thread'[u].held => thread[u].slot # p)
      /\ \A q \in Slots \ {p} : store'[q] = store[q]
    BY <1>1, DropEffect
<1>4. ASSUME NEW u \in Threads \ {t}
      PROVE  /\ ~At(u, "idle")' => Slot(u)' \in Slots
             /\ At(u, "idle")' => thread'[u] = Idle
             /\ thread'[u].held => thread'[u].at \in {"count", "lock"} /\ Tracked(Slot(u))'
             /\ thread'[u].held /\ At(u, "lock")' =>
                   store'[Slot(u)'].failures >= Threshold
    <2>1. /\ ~At(u, "idle") => Slot(u) \in Slots
          /\ At(u, "idle") => thread[u] = Idle
          /\ thread[u].held => thread[u].at \in {"count", "lock"} /\ Tracked(Slot(u))
          /\ thread[u].held /\ At(u, "lock") => store[Slot(u)].failures >= Threshold
        BY <1>1 DEF HeldInv
    <2>2. Aside(u) /\ (thread'[u].held => thread[u].slot # p)
        BY <1>3
    <2>3. thread'[u].held => Tracked(Slot(u))' /\ store'[Slot(u)] = store[Slot(u)]
        BY <1>3, <2>1, <2>2 DEF At, Slot, Tracked, Aside
    <2> QED
        BY <2>1, <2>2, <2>3 DEF At, Slot, Aside
<1>5. HeldInv'
    BY <1>3, <1>4 DEF HeldInv, Proper, At, Slot
<1> QED
    BY <1>2, <1>5 DEF TypeInv

\* A request of a thread keeps the types.
LEMMA TypeServe ==
    ASSUME TypeInv, NEW t \in Threads, Serve(t)
    PROVE  TypeInv'
<1>0. /\ store \in [Slots -> Entries \cup {NoEntry}] /\ accounts \subseteq Keys
      /\ slipped \in [Slots -> Nat] /\ kept \in [Slots -> Nat]
      /\ thread \in [Threads -> Tasks] /\ thread[t] \in Tasks
    BY DEF TypeInv, TypeOK
<1>1. /\ ~At(t, "idle") => Slot(t) \in Slots
      /\ At(t, "idle") => thread[t] = Idle
      /\ thread[t].held => thread[t].at \in {"count", "lock"} /\ Tracked(Slot(t))
    BY DEF TypeInv, HeldInv
<1>2. ASSUME NEW p \in Slots, NEW known \in BOOLEAN, Attempt(t, p, known),
             UNCHANGED <<store, accounts, slipped, kept>>
      PROVE  TypeInv'
    <2> DEFINE task == [Idle EXCEPT !.at = "verify", !.slot = p, !.known = known]
    <2>1. Proper(task)
        BY IdleProper DEF Proper, Idle, Tasks, Labels
    <2>2. thread' = [thread EXCEPT ![t] = task]
        BY <1>0, <1>1, <1>2 DEF Attempt, Idle
    <2> HIDE DEF task
    <2>3. HeldInv' /\ thread' \in [Threads -> Tasks]
        BY <1>0, <1>2, <2>1, <2>2, MoveKeeps DEF Grows
    <2> QED
        BY <1>0, <1>2, <2>3 DEF TypeInv, TypeOK
<1>3. CASE Login(t)
    <2>1. PICK k \in Keys : Attempt(t, <<"login", k>>, k \in accounts)
        BY <1>3 DEF Login
    <2>2. <<"login", k>> \in Slots /\ (k \in accounts) \in BOOLEAN
        BY DEF Slots, Stores
    <2> QED
        BY <1>0, <1>2, <1>3, <2>1, <2>2 DEF Login
<1>4. CASE AskToDelete(t)
    <2>1. PICK k \in accounts : Attempt(t, <<"reauth", k>>, TRUE)
        BY <1>4 DEF AskToDelete
    <2>2. <<"reauth", k>> \in Slots
        BY <1>0 DEF Slots, Stores
    <2> QED
        BY <1>0, <1>2, <1>4, <2>1, <2>2 DEF AskToDelete
<1>5. ASSUME NEW label \in Labels, ~At(t, "idle"), label # "idle", ~thread[t].held
      PROVE  Proper([thread[t] EXCEPT !.at = label])
    BY <1>0, <1>1, <1>5 DEF Proper, Tasks, Slot
<1>6. CASE PasswordRight(t)
    <2> DEFINE task == IF Slot(t)[1] = "login"
                       THEN Idle ELSE [thread[t] EXCEPT !.at = "erase"]
    <2>1. At(t, "verify") /\ Drop(Slot(t), t, task) /\ UNCHANGED accounts
        BY <1>6 DEF PasswordRight
    <2>2. ~At(t, "idle") /\ ~thread[t].held /\ Slot(t) \in Slots
        BY <1>1, <2>1 DEF At
    <2>3. Proper([thread[t] EXCEPT !.at = "erase"])
        BY <1>5, <2>2 DEF Labels
    <2>4. ~Idle.held /\ ~[thread[t] EXCEPT !.at = "erase"].held
        BY <1>0, <2>2 DEF Idle, Tasks
    <2>5. Proper(task) /\ ~task.held
        BY <2>3, <2>4, IdleProper
    <2> HIDE DEF task
    <2> QED
        BY <1>0, <2>1, <2>2, <2>5, DropKeeps
<1>7. CASE PasswordWrong(t)
    <2>1. ~At(t, "idle") /\ ~thread[t].held
        BY <1>1, <1>7 DEF PasswordWrong, At
    <2>2. "list" \in Labels /\ "default" \in Labels
        BY DEF Labels, Recording
    <2>3. Size(Slot(t)[1]) \in Nat
        <3>1. IsFiniteSet({k \in Keys : Tracked(<<Slot(t)[1], k>>)})
            BY KeyAssumption, FS_Subset
        <3> QED
            BY <3>1, FS_CardinalityType DEF Size
    <2>4. \E task : Proper(task) /\ thread' = [thread EXCEPT ![t] = task]
        <3>1. CASE ~Tracked(Slot(t)) /\ Size(Slot(t)[1]) >= Cap
            <4> DEFINE task == [thread[t] EXCEPT !.at = "list", !.size = Size(Slot(t)[1])]
            <4>1. thread' = [thread EXCEPT ![t].at = "list", ![t].size = Size(Slot(t)[1])]
                BY <1>7, <3>1 DEF PasswordWrong
            <4> HIDE DEF Size
            <4>2. thread' = [thread EXCEPT ![t] = task]
                BY <1>0, <4>1 DEF Tasks
            <4>3. Proper(task)
                BY <1>0, <1>1, <2>1, <2>2, <2>3 DEF Proper, Tasks, Slot, At
            <4> QED
                BY <4>2, <4>3
        <3>2. CASE ~(~Tracked(Slot(t)) /\ Size(Slot(t)[1]) >= Cap)
            <4>1. thread' = [thread EXCEPT ![t].at = "default"]
                BY <1>7, <3>2 DEF PasswordWrong, Goto
            <4>2. thread' = [thread EXCEPT ![t] = [thread[t] EXCEPT !.at = "default"]]
                BY <1>0, <4>1 DEF Tasks
            <4>3. Proper([thread[t] EXCEPT !.at = "default"])
                BY <1>5, <2>1, <2>2
            <4> QED
                BY <4>2, <4>3
        <3> QED
            BY <3>1, <3>2
    <2>5. HeldInv' /\ thread' \in [Threads -> Tasks]
        BY <1>0, <1>7, <2>4, MoveKeeps DEF Grows, PasswordWrong
    <2> QED
        BY <1>0, <1>7, <2>5 DEF TypeInv, TypeOK, PasswordWrong
<1>8. CASE EraseAccount(t)
    <2>1. thread' = [thread EXCEPT ![t] = [thread[t] EXCEPT !.at = "forget"]]
        BY <1>0, <1>8 DEF EraseAccount, Goto
    <2>2. ~At(t, "idle") /\ ~thread[t].held
        BY <1>1, <1>8 DEF EraseAccount, At
    <2>3. Proper([thread[t] EXCEPT !.at = "forget"])
        <3>1. "forget" \in Labels
            BY DEF Labels
        <3> QED
            BY <1>5, <2>2, <3>1
    <2>4. \E task : Proper(task) /\ thread' = [thread EXCEPT ![t] = task]
        BY <2>1, <2>3
    <2>5. HeldInv' /\ thread' \in [Threads -> Tasks]
        BY <1>0, <1>8, <2>4, MoveKeeps DEF Grows, EraseAccount
    <2> QED
        BY <1>0, <1>8, <2>5 DEF TypeInv, TypeOK, EraseAccount
<1>9. CASE ForgetEmail(t)
    <2>1. Slot(t) \in Slots
        BY <1>1, <1>9 DEF ForgetEmail, At
    <2>2. <<"login", Slot(t)[2]>> \in Slots
        BY <2>1 DEF Slots, Stores
    <2>3. ~Idle.held
        BY DEF Idle
    <2> QED
        BY <1>0, <1>9, <2>2, <2>3, IdleProper, DropKeeps DEF ForgetEmail
<1> QED
    BY <1>3, <1>4, <1>6, <1>7, <1>8, <1>9 DEF Serve

\* The recording of a failure keeps the types.
LEMMA TypeRecord ==
    ASSUME TypeInv, NEW t \in Threads, Record(t)
    PROVE  TypeInv'
<1>0. /\ store \in [Slots -> Entries \cup {NoEntry}] /\ accounts \subseteq Keys
      /\ slipped \in [Slots -> Nat] /\ kept \in [Slots -> Nat]
      /\ thread \in [Threads -> Tasks] /\ thread[t] \in Tasks
    BY DEF TypeInv, TypeOK
<1>1. /\ ~At(t, "idle") => Slot(t) \in Slots
      /\ At(t, "idle") => thread[t] = Idle
      /\ thread[t].held => thread[t].at \in {"count", "lock"} /\ Tracked(Slot(t))
    BY DEF TypeInv, HeldInv
<1>2. {"idle", "list", "drop", "default", "count", "lock"} \subseteq Labels
    BY DEF Labels, Recording
<1>3. ASSUME NEW task, Proper(task), thread' = [thread EXCEPT ![t] = task],
             \A p \in Slots : Grows(p),
             store' \in [Slots -> Entries \cup {NoEntry}], slipped' \in [Slots -> Nat],
             UNCHANGED <<accounts, kept>>
      PROVE  TypeInv'
    <2>1. HeldInv' /\ thread' \in [Threads -> Tasks]
        BY <1>3, MoveKeeps
    <2> QED
        BY <1>0, <1>3, <2>1 DEF TypeInv, TypeOK
<1>4. ASSUME Finish(t), UNCHANGED <<store, accounts, slipped, kept>>
      PROVE  TypeInv'
    BY <1>0, <1>3, <1>4, IdleProper DEF Finish, Grows
<1>5. CASE ListFails(t) \/ DropFails(t) \/ CountLost(t)
    BY <1>4, <1>5 DEF ListFails, DropFails, CountLost
<1>6. CASE ListIdle(t)
    <2> DEFINE todo == {k \in Keys : /\ Tracked(<<Slot(t)[1], k>>)
                                     /\ Decayed(store[<<Slot(t)[1], k>>])}
               task == [thread[t] EXCEPT !.at = "drop", !.size = 0, !.todo = todo]
    <2>1. thread' = [thread EXCEPT ![t].at = "drop", ![t].size = 0, ![t].todo = todo]
        BY <1>6 DEF ListIdle
    <2>2. todo \in SUBSET Keys
        OBVIOUS
    <2> HIDE DEF todo
    <2>3. thread' = [thread EXCEPT ![t] = task]
        BY <1>0, <2>1 DEF Tasks
    <2>4. ~At(t, "idle") /\ ~thread[t].held
        BY <1>1, <1>6 DEF ListIdle, At
    <2>5. Proper(task)
        BY <1>0, <1>1, <1>2, <2>2, <2>4 DEF Proper, Tasks, Slot
    <2> HIDE DEF task
    <2> QED
        BY <1>0, <1>3, <1>6, <2>3, <2>5 DEF ListIdle, Grows
<1>7. CASE DropIdle(t)
    <2>1. PICK k \in thread[t].todo :
            Drop(<<Slot(t)[1], k>>, t, [thread[t] EXCEPT !.todo = @ \ {k}])
        BY <1>7 DEF DropIdle
    <2>2. ~At(t, "idle") /\ ~thread[t].held
        BY <1>1, <1>7 DEF DropIdle, At
    <2>3. k \in Keys /\ Slot(t) \in Slots
        BY <1>0, <1>1, <2>2 DEF Tasks
    <2>4. <<Slot(t)[1], k>> \in Slots
        BY <2>3 DEF Slots
    <2> DEFINE task == [thread[t] EXCEPT !.todo = thread[t].todo \ {k}]
    <2>5. Proper(task) /\ ~task.held
        BY <1>0, <1>1, <2>2 DEF Proper, Tasks, Slot, At
    <2>6. Drop(<<Slot(t)[1], k>>, t, task)
        BY <1>0, <2>1 DEF Tasks
    <2> HIDE DEF task
    <2> QED
        BY <1>0, <1>7, <2>4, <2>5, <2>6, DropKeeps DEF DropIdle
<1>8. CASE SetDefault(t)
    <2> DEFINE task == [thread[t] EXCEPT !.at = "count", !.held = TRUE]
    <2>1. Slot(t) \in Slots
        BY <1>1, <1>8 DEF SetDefault, At
    <2>2. NewEntry \in Entries
        BY TopAssumption, MaxLockAssumption DEF NewEntry, Entries
    <2>3. /\ store' \in [Slots -> Entries \cup {NoEntry}]
          /\ store'[Slot(t)] # NoEntry
          /\ \A p \in Slots : Grows(p)
        BY <1>0, <1>8, <2>1, <2>2, NoneAssumption DEF SetDefault, Tracked, Grows
    <2>4. thread' = [thread EXCEPT ![t] = task]
        BY <1>0, <1>8 DEF SetDefault, Tasks
    <2>5. Proper(task)
        <3>1. task \in Tasks /\ task.at = "count" /\ task.slot = Slot(t)
            BY <1>0, <1>2 DEF Tasks, Slot
        <3> HIDE DEF task
        <3> QED
            BY <2>1, <2>3, <3>1 DEF Proper, Tracked
    <2> HIDE DEF task
    <2> QED
        BY <1>0, <1>3, <1>8, <2>3, <2>4, <2>5 DEF SetDefault
<1>9. CASE CountFailure(t)
    <2> DEFINE p == Slot(t)
               n == Count(store[p].failures)
    <2>1. /\ Tracked(p) /\ p \in Slots /\ At(t, "count") /\ thread[t].held
          /\ store' = [store EXCEPT ![p].failures = n, ![p].idle = 0]
          /\ slipped' = [slipped EXCEPT ![p] = IF Locked(p) THEN @ + 1 ELSE @]
          /\ Goto(t, "lock") \/ Finish(t)
        BY <1>1, <1>9 DEF CountFailure, At
    <2>2. store[p] \in Entries
        BY <1>0, <2>1 DEF Tracked
    <2>3. n \in 0..Top /\ store[p].failures \in Nat /\ n >= store[p].failures
        BY <2>2, TopAssumption DEF Count, Entries
    <2>10. n >= Threshold \/ Finish(t)
        BY <1>9 DEF CountFailure
    <2> HIDE DEF n
    <2>4. [store[p] EXCEPT !.failures = n, !.idle = 0] \in Entries
        <3>1. 0 \in 0..(MaxLock + 1)
            BY MaxLockAssumption
        <3> QED
            BY <2>2, <2>3, <3>1 DEF Entries
    <2>5. store' = [store EXCEPT ![p] = [store[p] EXCEPT !.failures = n, !.idle = 0]]
        BY <1>0, <2>1, <2>2 DEF Entries
    <2>6. /\ store' \in [Slots -> Entries \cup {NoEntry}]
          /\ \A q \in Slots : Grows(q)
        BY <1>0, <2>1, <2>3, <2>4, <2>5, NoneAssumption DEF Tracked, Grows, Entries
    <2>7. slipped' \in [Slots -> Nat]
        BY <1>0, <2>1
    <2>8. \E task : Proper(task) /\ thread' = [thread EXCEPT ![t] = task]
        <3>1. CASE Finish(t)
            BY <3>1, IdleProper DEF Finish
        <3>2. CASE Goto(t, "lock") /\ ~Finish(t)
            <4>1. thread' = [thread EXCEPT ![t] = [thread[t] EXCEPT !.at = "lock"]]
                BY <1>0, <3>2 DEF Goto, Tasks
            <4>2. store'[p] # NoEntry /\ store'[p].failures >= Threshold
                <5>1. store'[p] = [store[p] EXCEPT !.failures = n, !.idle = 0]
                    BY <1>0, <2>1, <2>5
                <5>2. store'[p].failures = n
                    BY <2>2, <5>1 DEF Entries
                <5> QED
                    BY <2>4, <2>10, <3>2, <5>1, <5>2, NoneAssumption
            <4>3. Proper([thread[t] EXCEPT !.at = "lock"])
                <5>1. /\ [thread[t] EXCEPT !.at = "lock"] \in Tasks
                      /\ [thread[t] EXCEPT !.at = "lock"].at = "lock"
                      /\ [thread[t] EXCEPT !.at = "lock"].slot = p
                    BY <1>0, <1>2 DEF Tasks, Slot
                <5> QED
                    BY <2>1, <4>2, <5>1 DEF Proper, Tracked
            <4> QED
                BY <4>1, <4>3
        <3> QED
            BY <2>1, <3>1, <3>2
    <2> QED
        BY <1>3, <1>9, <2>6, <2>7, <2>8 DEF CountFailure
<1>10. CASE LockOut(t)
    <2> DEFINE p == Slot(t)
               wait == Wait(store[p].failures)
    <2>1. /\ Tracked(p) /\ p \in Slots
          /\ store' = [store EXCEPT ![p].left = wait]
          /\ thread' = [thread EXCEPT ![t] = Idle]
          /\ UNCHANGED <<accounts, slipped, kept>>
        BY <1>1, <1>10 DEF LockOut, At, Finish
    <2>2. store[p] \in Entries
        BY <1>0, <2>1 DEF Tracked
    <2>3. store[p].failures \in Nat /\ store[p].failures >= Threshold
        BY <1>10, <2>2, TopAssumption DEF Entries, TypeInv, HeldInv, LockOut
    <2>4. wait \in 1..MaxLock
        BY <2>3, WaitBounded
    <2> HIDE DEF wait
    <2>5. [store[p] EXCEPT !.left = wait] \in Entries
        BY <2>2, <2>4 DEF Entries
    <2>6. store' = [store EXCEPT ![p] = [store[p] EXCEPT !.left = wait]]
        BY <1>0, <2>1, <2>2 DEF Entries
    <2>7. /\ store' \in [Slots -> Entries \cup {NoEntry}]
          /\ \A q \in Slots : Grows(q)
        BY <1>0, <2>1, <2>3, <2>5, <2>6, NoneAssumption DEF Tracked, Grows, Entries
    <2> QED
        BY <1>0, <1>3, <2>1, <2>7, IdleProper
<1> QED
    BY <1>5, <1>6, <1>7, <1>8, <1>9, <1>10 DEF Record

LEMMA TypeTick ==
    ASSUME TypeInv, Tick
    PROVE  TypeInv'
<1>0. /\ store \in [Slots -> Entries \cup {NoEntry}] /\ accounts \subseteq Keys
      /\ slipped \in [Slots -> Nat] /\ kept \in [Slots -> Nat]
      /\ \A t \in Threads : thread[t] \in Tasks
    BY DEF TypeInv, TypeOK
<1> DEFINE aged(e) ==
        [e EXCEPT !.left = IF e.left > 0 THEN e.left - 1 ELSE 0,
                  !.idle = IF e.idle <= MaxLock THEN e.idle + 1 ELSE e.idle]
<1>1. ASSUME NEW p \in Slots, Tracked(p)
      PROVE  /\ store'[p] = aged(store[p]) /\ store'[p] \in Entries
             /\ store'[p].failures = store[p].failures
    <2>1. store[p] \in Entries
        BY <1>0, <1>1 DEF Tracked
    <2>2. store'[p] = aged(store[p])
        BY <1>1, <2>1 DEF Tick, Entries
    <2>3. /\ (IF store[p].left > 0 THEN store[p].left - 1 ELSE 0) \in 0..MaxLock
          /\ (IF store[p].idle <= MaxLock THEN store[p].idle + 1 ELSE store[p].idle)
                \in 0..(MaxLock + 1)
        BY <2>1, MaxLockAssumption DEF Entries
    <2>4. aged(store[p]) \in Entries /\ aged(store[p]).failures = store[p].failures
        BY <2>1, <2>3 DEF Entries
    <2> HIDE DEF aged
    <2> QED
        BY <2>2, <2>4
<1>2. \A p \in Slots : ~Tracked(p) => store'[p] = NoEntry
    BY DEF Tick
<1>3. store' \in [Slots -> Entries \cup {NoEntry}]
    <2>1. store' = [p \in Slots |-> store'[p]]
        BY DEF Tick
    <2>2. \A p \in Slots : store'[p] \in Entries \cup {NoEntry}
        BY <1>1, <1>2
    <2> QED
        BY <2>1, <2>2
<1>4. slipped' \in [Slots -> Nat] /\ kept' \in [Slots -> Nat]
    <2>1. \A p \in Slots : slipped[p] \in Nat /\ kept[p] \in Nat /\ kept[p] + 1 \in Nat
        BY <1>0
    <2>2. /\ slipped' = [p \in Slots |->
                 IF Tracked(p) /\ store[p].left > 1 THEN slipped[p] ELSE 0]
          /\ kept' = [p \in Slots |->
                 IF Tracked(p) /\ store[p].left > 1 THEN kept[p] + 1 ELSE 0]
        BY DEF Tick
    <2> HIDE DEF Tracked
    <2>3. slipped' \in [Slots -> Nat]
        BY <2>1, <2>2
    <2>4. kept' \in [Slots -> Nat]
        BY <2>1, <2>2
    <2> QED
        BY <2>3, <2>4
<1>5. \A t \in Threads :
        /\ thread'[t] \in Tasks /\ thread'[t].at = thread[t].at
        /\ thread'[t].slot = thread[t].slot /\ thread'[t].held = thread[t].held
        /\ thread[t] = Idle => thread'[t] = Idle
    <2> SUFFICES ASSUME NEW t \in Threads
                 PROVE  /\ thread'[t] \in Tasks /\ thread'[t].at = thread[t].at
                        /\ thread'[t].slot = thread[t].slot
                        /\ thread'[t].held = thread[t].held
                        /\ thread[t] = Idle => thread'[t] = Idle
        OBVIOUS
    <2> DEFINE late == thread[t].at \in Recording
    <2>1. thread'[t] = [thread[t] EXCEPT !.late = late]
        BY DEF Tick
    <2>3. late \in BOOLEAN
        OBVIOUS
    <2>2. thread[t] = Idle => late = FALSE
        BY DEF Idle, Recording
    <2> HIDE DEF late
    <2> QED
        BY <1>0, <2>1, <2>2, <2>3 DEF Tasks, Idle
<1>6. thread' \in [Threads -> Tasks]
    BY <1>5 DEF Tick
<1>7. ASSUME NEW t \in Threads
      PROVE  /\ ~At(t, "idle")' => Slot(t)' \in Slots
             /\ At(t, "idle")' => thread'[t] = Idle
             /\ thread'[t].held => thread'[t].at \in {"count", "lock"} /\ Tracked(Slot(t))'
             /\ thread'[t].held /\ At(t, "lock")' => store'[Slot(t)'].failures >= Threshold
    <2>1. /\ ~At(t, "idle") => Slot(t) \in Slots
          /\ At(t, "idle") => thread[t] = Idle
          /\ thread[t].held => thread[t].at \in {"count", "lock"} /\ Tracked(Slot(t))
          /\ thread[t].held /\ At(t, "lock") => store[Slot(t)].failures >= Threshold
        BY DEF TypeInv, HeldInv
    <2>2. thread[t].held => /\ store'[Slot(t)] \in Entries
                            /\ store'[Slot(t)].failures = store[Slot(t)].failures
        BY <1>1, <2>1 DEF At
    <2> QED
        BY <1>5, <2>1, <2>2, NoneAssumption DEF At, Slot, Tracked
<1>8. HeldInv'
    BY <1>7 DEF HeldInv
<1> QED
    BY <1>0, <1>3, <1>4, <1>6, <1>8 DEF TypeInv, TypeOK, Tick

LEMMA TypeRestart ==
    ASSUME TypeInv, Restart
    PROVE  TypeInv'
<1>1. Idle \in Tasks
    BY IdleProper DEF Proper
<1> QED
    BY <1>1 DEF Restart, TypeInv, TypeOK, HeldInv, At, Idle

LEMMA TypeConsole ==
    ASSUME TypeInv, NEW k \in Keys, ConsoleDeletes(k)
    PROVE  TypeInv'
    BY DEF ConsoleDeletes, TypeInv, TypeOK, HeldInv, At, Slot, Tracked

\* Types, and who holds what, are an inductive invariant.
LEMMA TypeInductive ==
    /\ Init => TypeInv
    /\ TypeInv /\ [Next]_vars => TypeInv'
<1>1. Init => TypeInv
    <2>1. Idle \in Tasks
        BY IdleProper DEF Proper
    <2>2. Init => TypeOK
        BY <2>1, MemberAssumption DEF Init, TypeOK
    <2>3. Init => HeldInv
        BY DEF Init, HeldInv, At, Idle
    <2> QED
        BY <2>2, <2>3 DEF TypeInv
<1>2. ASSUME TypeInv, UNCHANGED vars PROVE TypeInv'
    BY <1>2 DEF vars, TypeInv, TypeOK, HeldInv, At, Slot, Tracked
<1> QED
    BY <1>1, <1>2, TypeServe, TypeRecord, TypeTick, TypeRestart, TypeConsole DEF Next

\* Both dicts and the threads keep their types.
THEOREM TypeCorrect == Spec => []TypeOK
<1>1. Init => TypeInv
    BY TypeInductive
<1>2. TypeInv /\ [Next]_vars => TypeInv'
    BY TypeInductive
<1>3. TypeInv => TypeOK
    BY DEF TypeInv
<1> QED
    BY <1>1, <1>2, <1>3, PTL DEF Spec

-----------------------------------------------------------------------------
(* What a step of a thread does to each entry *)

\* The threads at work on entry p that may still count a failure in it, and
\* those that may still lock it.
Counting == {"verify", "list", "drop", "default", "count"}
Past(p) == {t \in Threads : Slot(t) = p /\ thread[t].at \in Counting}
Pending(p) == {t \in Threads : Slot(t) = p /\ thread[t].at \in Counting \cup {"lock"}}

\* What thread t becomes.
Own(t) ==
    \/ thread'[t] = Idle
    \/ /\ At(t, "idle") /\ thread'[t].at = "verify"
       /\ thread'[t].slot \in Slots /\ ~Locked(thread'[t].slot)
    \/ /\ thread'[t].slot = Slot(t) /\ ~At(t, "idle")
       /\ thread'[t].at \in Counting => thread[t].at \in Counting
       /\ thread'[t].at = "lock" => thread[t].at \in Counting
       /\ thread'[t].at = "drop" =>
            \/ /\ At(t, "drop") /\ thread'[t].todo \subseteq thread[t].todo
               /\ thread'[t].late = thread[t].late
            \/ /\ store' = store
               /\ \A k \in thread'[t].todo : Decayed(store[<<Slot(t)[1], k>>])

\* What becomes of entry p: it goes, nothing happens to it, thread t counts a
\* failure in it, or locks it.
Gone(p) == store'[p] = NoEntry /\ slipped'[p] = 0 /\ kept'[p] = 0
Same(p, t) ==
    /\ \/ store'[p] = store[p]
       \/ ~Tracked(p) /\ Slot(t) = p /\ store'[p] = NewEntry
    /\ slipped'[p] = slipped[p] /\ kept'[p] = kept[p]
Counted(p, t) ==
    /\ Tracked(p) /\ Slot(t) = p /\ At(t, "count")
    /\ thread'[t].at \in {"lock", "idle"}
    /\ store'[p] # NoEntry /\ store'[p].left = store[p].left /\ store'[p].idle = 0
    /\ slipped'[p] = IF Locked(p) THEN slipped[p] + 1 ELSE slipped[p]
    /\ kept'[p] = kept[p]
Barred(p, t) ==
    /\ Tracked(p) /\ Slot(t) = p /\ At(t, "lock") /\ thread'[t] = Idle
    /\ store'[p] # NoEntry /\ store'[p].left > 0
    /\ store'[p].idle = store[p].idle
    /\ slipped'[p] = slipped[p] /\ kept'[p] = kept[p]

Fate(t) ==
    /\ Own(t)
    /\ \A u \in Threads \ {t} : Aside(u)
    /\ \A p \in Slots : Gone(p) \/ Same(p, t) \/ Counted(p, t) \/ Barred(p, t)

\* A thread moves on and no entry is touched.
LEMMA MoveFate ==
    ASSUME TypeInv, NEW t \in Threads, NEW task \in Tasks,
           thread' = [thread EXCEPT ![t] = task], Own(t),
           UNCHANGED <<store, slipped, kept>>
    PROVE  Fate(t)
BY GotoEffect DEF TypeInv, Fate, Same

\* A thread drops an entry.
LEMMA DropFate ==
    ASSUME TypeInv, NEW t \in Threads, NEW p \in Slots, NEW task \in Tasks,
           Drop(p, t, task), Own(t)
    PROVE  Fate(t)
<1>1. TypeOK /\ HeldInv
    BY DEF TypeInv
<1>2. \A u \in Threads \ {t} : Aside(u)
    BY <1>1, DropEffect
<1>3. /\ store'[p] = NoEntry /\ slipped'[p] = 0 /\ kept'[p] = 0
      /\ \A q \in Slots \ {p} :
            store'[q] = store[q] /\ slipped'[q] = slipped[q] /\ kept'[q] = kept[q]
    BY <1>1, DropEffect
<1>4. \A q \in Slots : Gone(q) \/ Same(q, t)
    BY <1>3 DEF Gone, Same
<1> QED
    BY <1>2, <1>4 DEF Fate

LEMMA ServeFate ==
    ASSUME TypeInv, NEW t \in Threads, Serve(t)
    PROVE  Fate(t)
<1>0. /\ thread \in [Threads -> Tasks] /\ thread[t] \in Tasks /\ accounts \subseteq Keys
    BY DEF TypeInv, TypeOK
<1>1. /\ ~At(t, "idle") => Slot(t) \in Slots
      /\ At(t, "idle") => thread[t] = Idle
    BY DEF TypeInv, HeldInv
<1>i. Idle \in Tasks
    BY IdleProper DEF Proper
<1>l. {"idle", "verify", "erase", "forget", "list", "default"} \subseteq Labels
    BY DEF Labels, Recording
<1>2. ASSUME NEW p \in Slots, NEW known \in BOOLEAN, Attempt(t, p, known),
             UNCHANGED <<store, slipped, kept>>
      PROVE  Fate(t)
    <2> DEFINE task == [thread[t] EXCEPT !.at = "verify", !.slot = p, !.known = known]
    <2>1. task \in Tasks /\ task.at = "verify" /\ task.slot = p
        BY <1>0, <1>l DEF Tasks
    <2>2. thread' = [thread EXCEPT ![t] = task]
        BY <1>0, <1>2 DEF Attempt, Tasks
    <2> HIDE DEF task
    <2>3. thread'[t] = task
        BY <1>0, <2>2
    <2>4. Own(t)
        BY <1>2, <2>1, <2>3 DEF Own, Attempt
    <2> QED
        BY <1>2, <2>1, <2>2, <2>4, MoveFate
<1>3. CASE Login(t)
    <2>1. PICK k \in Keys : Attempt(t, <<"login", k>>, k \in accounts)
        BY <1>3 DEF Login
    <2>2. <<"login", k>> \in Slots /\ (k \in accounts) \in BOOLEAN
        BY DEF Slots, Stores
    <2> QED
        BY <1>2, <1>3, <2>1, <2>2 DEF Login
<1>4. CASE AskToDelete(t)
    <2>1. PICK k \in accounts : Attempt(t, <<"reauth", k>>, TRUE)
        BY <1>4 DEF AskToDelete
    <2>2. <<"reauth", k>> \in Slots
        BY <1>0 DEF Slots, Stores
    <2> QED
        BY <1>2, <1>4, <2>1, <2>2 DEF AskToDelete
<1>5. CASE PasswordRight(t)
    <2> DEFINE task == IF Slot(t)[1] = "login"
                       THEN Idle ELSE [thread[t] EXCEPT !.at = "erase"]
    <2>1. At(t, "verify") /\ Drop(Slot(t), t, task)
        BY <1>5 DEF PasswordRight
    <2>2. ~At(t, "idle") /\ Slot(t) \in Slots
        BY <1>1, <2>1 DEF At
    <2>3. /\ [thread[t] EXCEPT !.at = "erase"] \in Tasks
          /\ [thread[t] EXCEPT !.at = "erase"].at = "erase"
          /\ [thread[t] EXCEPT !.at = "erase"].slot = Slot(t)
        BY <1>0, <1>l DEF Tasks, Slot
    <2>4. task \in Tasks /\ (task = Idle \/ (task.at = "erase" /\ task.slot = Slot(t)))
        BY <1>i, <2>3
    <2> HIDE DEF task
    <2>5. thread'[t] = task
        BY <2>1, <2>2, <2>4, DropEffect DEF TypeInv
    <2>6. Own(t)
        BY <2>2, <2>4, <2>5 DEF Own, Counting
    <2> QED
        BY <2>1, <2>2, <2>4, <2>6, DropFate
<1>6. CASE PasswordWrong(t)
    <2>1. ~At(t, "idle") /\ thread[t].at \in Counting
        BY <1>6 DEF PasswordWrong, At, Counting
    <2>2. Size(Slot(t)[1]) \in Nat
        <3>1. IsFiniteSet({k \in Keys : Tracked(<<Slot(t)[1], k>>)})
            BY KeyAssumption, FS_Subset
        <3> QED
            BY <3>1, FS_CardinalityType DEF Size
    <2>3. ASSUME NEW task \in Tasks, thread' = [thread EXCEPT ![t] = task],
                 task.at \in {"list", "default"}, task.slot = Slot(t)
          PROVE  Fate(t)
        <3>1. thread'[t] = task
            BY <1>0, <2>3
        <3>2. Own(t)
            BY <2>1, <2>3, <3>1 DEF Own
        <3> QED
            BY <1>6, <2>3, <3>2, MoveFate DEF PasswordWrong
    <2>4. CASE ~Tracked(Slot(t)) /\ Size(Slot(t)[1]) >= Cap
        <3> DEFINE size == Size(Slot(t)[1])
                   task == [thread[t] EXCEPT !.at = "list", !.size = size]
        <3>1. thread' = [thread EXCEPT ![t].at = "list", ![t].size = size]
            BY <1>6, <2>4 DEF PasswordWrong
        <3>2. size \in Nat
            BY <2>2
        <3> HIDE DEF size
        <3>3. thread' = [thread EXCEPT ![t] = task]
            BY <1>0, <3>1 DEF Tasks
        <3>4. task \in Tasks /\ task.at = "list" /\ task.slot = Slot(t)
            BY <1>0, <1>l, <3>2 DEF Tasks, Slot
        <3> HIDE DEF task
        <3> QED
            BY <2>3, <3>3, <3>4
    <2>5. CASE ~(~Tracked(Slot(t)) /\ Size(Slot(t)[1]) >= Cap)
        <3> DEFINE task == [thread[t] EXCEPT !.at = "default"]
        <3>1. thread' = [thread EXCEPT ![t].at = "default"]
            BY <1>6, <2>5 DEF PasswordWrong, Goto
        <3>3. thread' = [thread EXCEPT ![t] = task]
            BY <1>0, <3>1 DEF Tasks
        <3>4. task \in Tasks /\ task.at = "default" /\ task.slot = Slot(t)
            BY <1>0, <1>l DEF Tasks, Slot
        <3> HIDE DEF task
        <3> QED
            BY <2>3, <3>3, <3>4
    <2> QED
        BY <2>4, <2>5
<1>7. CASE EraseAccount(t)
    <2> DEFINE task == [thread[t] EXCEPT !.at = "forget"]
    <2>1. thread' = [thread EXCEPT ![t] = task]
        BY <1>0, <1>7 DEF EraseAccount, Goto, Tasks
    <2>2. task \in Tasks /\ task.at = "forget" /\ task.slot = Slot(t)
        BY <1>0, <1>l DEF Tasks, Slot
    <2> HIDE DEF task
    <2>3. thread'[t] = task /\ ~At(t, "idle")
        BY <1>0, <1>7, <2>1 DEF EraseAccount, At
    <2>4. Own(t)
        BY <2>2, <2>3 DEF Own, Counting
    <2> QED
        BY <1>7, <2>1, <2>2, <2>4, MoveFate DEF EraseAccount
<1>8. CASE ForgetEmail(t)
    <2>1. Slot(t) \in Slots
        BY <1>1, <1>8 DEF ForgetEmail, At
    <2>2. <<"login", Slot(t)[2]>> \in Slots
        BY <2>1 DEF Slots, Stores
    <2>3. Drop(<<"login", Slot(t)[2]>>, t, Idle)
        BY <1>8 DEF ForgetEmail
    <2>4. thread'[t] = Idle
        BY <1>i, <2>2, <2>3, DropEffect DEF TypeInv
    <2>5. Own(t)
        BY <2>4 DEF Own
    <2> QED
        BY <1>i, <2>2, <2>3, <2>5, DropFate
<1> QED
    BY <1>3, <1>4, <1>5, <1>6, <1>7, <1>8 DEF Serve

LEMMA RecordFate ==
    ASSUME TypeInv, NEW t \in Threads, Record(t)
    PROVE  Fate(t)
<1>0. /\ store \in [Slots -> Entries \cup {NoEntry}]
      /\ slipped \in [Slots -> Nat] /\ kept \in [Slots -> Nat]
      /\ thread \in [Threads -> Tasks] /\ thread[t] \in Tasks
    BY DEF TypeInv, TypeOK
<1>1. /\ ~At(t, "idle") => Slot(t) \in Slots
      /\ At(t, "idle") => thread[t] = Idle
      /\ thread[t].held => thread[t].at \in {"count", "lock"} /\ Tracked(Slot(t))
    BY DEF TypeInv, HeldInv
<1>2. {"idle", "list", "drop", "default", "count", "lock"} \subseteq Labels
    BY DEF Labels, Recording
<1>i. Idle \in Tasks
    BY IdleProper DEF Proper
<1>3. ASSUME Finish(t)
      PROVE  thread'[t] = Idle /\ Own(t) /\ \A u \in Threads \ {t} : Aside(u)
    <2>1. thread' = [thread EXCEPT ![t] = Idle]
        BY <1>3 DEF Finish
    <2>2. thread'[t] = Idle /\ \A u \in Threads \ {t} : Aside(u)
        BY <1>i, <2>1, GotoEffect DEF TypeInv
    <2> QED
        BY <2>2 DEF Own
<1>4. CASE ListFails(t) \/ DropFails(t) \/ CountLost(t)
    <2>1. Finish(t) /\ UNCHANGED <<store, slipped, kept>>
        BY <1>4 DEF ListFails, DropFails, CountLost
    <2> QED
        BY <1>3, <2>1 DEF Fate, Same
<1>5. CASE ListIdle(t)
    <2> DEFINE todo == {k \in Keys : /\ Tracked(<<Slot(t)[1], k>>)
                                     /\ Decayed(store[<<Slot(t)[1], k>>])}
               task == [thread[t] EXCEPT !.at = "drop", !.size = 0, !.todo = todo]
    <2>1. thread' = [thread EXCEPT ![t].at = "drop", ![t].size = 0, ![t].todo = todo]
        BY <1>5 DEF ListIdle
    <2>2. todo \in SUBSET Keys /\ \A k \in todo : Decayed(store[<<Slot(t)[1], k>>])
        OBVIOUS
    <2> HIDE DEF todo
    <2>3. thread' = [thread EXCEPT ![t] = task]
        BY <1>0, <2>1 DEF Tasks
    <2>4. /\ task \in Tasks /\ task.at = "drop" /\ task.slot = Slot(t)
          /\ task.todo = todo
        BY <1>0, <1>2, <2>2 DEF Tasks, Slot
    <2> HIDE DEF task
    <2>5. thread'[t] = task /\ ~At(t, "idle") /\ thread[t].at \in Counting
        BY <1>0, <1>5, <2>3 DEF ListIdle, At, Counting
    <2>6. store' = store
        BY <1>5 DEF ListIdle
    <2>7. Own(t)
        BY <2>2, <2>4, <2>5, <2>6 DEF Own
    <2> QED
        BY <1>5, <2>3, <2>4, <2>7, MoveFate DEF ListIdle
<1>6. CASE DropIdle(t)
    <2>1. PICK k \in thread[t].todo :
            Drop(<<Slot(t)[1], k>>, t, [thread[t] EXCEPT !.todo = @ \ {k}])
        BY <1>6 DEF DropIdle
    <2>2. At(t, "drop") /\ ~At(t, "idle") /\ thread[t].at \in Counting
        BY <1>6 DEF DropIdle, At, Counting
    <2>3. k \in Keys /\ Slot(t) \in Slots
        BY <1>0, <1>1, <2>2 DEF Tasks
    <2>4. <<Slot(t)[1], k>> \in Slots
        BY <2>3 DEF Slots
    <2> DEFINE task == [thread[t] EXCEPT !.todo = thread[t].todo \ {k}]
    <2>5. /\ task \in Tasks /\ task.at = "drop" /\ task.slot = Slot(t)
          /\ task.todo \subseteq thread[t].todo /\ task.late = thread[t].late
        BY <1>0, <2>2 DEF Tasks, Slot, At
    <2>6. Drop(<<Slot(t)[1], k>>, t, task)
        BY <1>0, <2>1 DEF Tasks
    <2> HIDE DEF task
    <2>7. thread'[t] = task
        BY <2>4, <2>5, <2>6, DropEffect DEF TypeInv
    <2>8. Own(t)
        BY <2>2, <2>5, <2>7 DEF Own
    <2> QED
        BY <2>4, <2>5, <2>6, <2>8, DropFate
<1>7. CASE SetDefault(t)
    <2> DEFINE task == [thread[t] EXCEPT !.at = "count", !.held = TRUE]
    <2>1. Slot(t) \in Slots /\ thread[t].at \in Counting /\ ~At(t, "idle")
        BY <1>1, <1>7 DEF SetDefault, At, Counting
    <2>2. thread' = [thread EXCEPT ![t] = task]
        BY <1>0, <1>7 DEF SetDefault, Tasks
    <2>3. task \in Tasks /\ task.at = "count" /\ task.slot = Slot(t)
        BY <1>0, <1>2 DEF Tasks, Slot
    <2> HIDE DEF task
    <2>4. thread'[t] = task /\ \A u \in Threads \ {t} : Aside(u)
        BY <2>2, <2>3, GotoEffect DEF TypeInv
    <2>5. Own(t)
        BY <2>1, <2>3, <2>4 DEF Own
    <2>6. \A p \in Slots : Same(p, t)
        BY <1>0, <1>7, <2>1 DEF SetDefault, Same
    <2> QED
        BY <2>4, <2>5, <2>6 DEF Fate
<1>8. CASE CountFailure(t)
    <2> DEFINE p == Slot(t)
               n == Count(store[p].failures)
    <2>1. /\ Tracked(p) /\ p \in Slots /\ At(t, "count") /\ ~At(t, "idle")
          /\ store' = [store EXCEPT ![p].failures = n, ![p].idle = 0]
          /\ slipped' = [slipped EXCEPT ![p] = IF Locked(p) THEN @ + 1 ELSE @]
          /\ kept' = kept
        BY <1>1, <1>8 DEF CountFailure, At
    <2>2. store[p] \in Entries
        BY <1>0, <2>1 DEF Tracked
    <2>3. n \in 0..Top /\ 0 \in 0..(MaxLock + 1)
        BY <2>2, TopAssumption, MaxLockAssumption DEF Count, Entries
    <2> HIDE DEF n
    <2>4. store' = [store EXCEPT ![p] = [store[p] EXCEPT !.failures = n, !.idle = 0]]
        BY <1>0, <2>1, <2>2 DEF Entries
    <2>5. store'[p] = [store[p] EXCEPT !.failures = n, !.idle = 0]
        BY <1>0, <2>1, <2>4
    <2>6. /\ store'[p] # NoEntry
          /\ store'[p].left = store[p].left /\ store'[p].idle = 0
        BY <2>2, <2>3, <2>5, NoneAssumption DEF Entries
    <2>7. \A q \in Slots \ {p} :
            store'[q] = store[q] /\ slipped'[q] = slipped[q] /\ kept'[q] = kept[q]
        BY <1>0, <2>1, <2>4
    <2>8. slipped'[p] = IF Locked(p) THEN slipped[p] + 1 ELSE slipped[p]
        BY <1>0, <2>1
    <2>9. /\ Own(t) /\ thread'[t].at \in {"lock", "idle"}
          /\ \A u \in Threads \ {t} : Aside(u)
        <3>1. CASE Finish(t)
            BY <1>3, <3>1 DEF Idle
        <3>2. CASE Goto(t, "lock")
            <4> DEFINE task == [thread[t] EXCEPT !.at = "lock"]
            <4>1. thread' = [thread EXCEPT ![t] = task]
                BY <1>0, <3>2 DEF Goto, Tasks
            <4>2. task \in Tasks /\ task.at = "lock" /\ task.slot = Slot(t)
                BY <1>0, <1>2 DEF Tasks, Slot
            <4> HIDE DEF task
            <4>3. thread'[t] = task /\ \A u \in Threads \ {t} : Aside(u)
                BY <4>1, <4>2, GotoEffect DEF TypeInv
            <4>4. Own(t)
                BY <2>1, <4>2, <4>3 DEF Own, Counting, At
            <4> QED
                BY <4>2, <4>3, <4>4
        <3> QED
            BY <1>8, <3>1, <3>2 DEF CountFailure
    <2>10. Counted(p, t)
        BY <2>1, <2>6, <2>8, <2>9 DEF Counted
    <2> QED
        BY <2>7, <2>9, <2>10 DEF Fate, Same
<1>9. CASE LockOut(t)
    <2> DEFINE p == Slot(t)
               wait == Wait(store[p].failures)
    <2>1. /\ Tracked(p) /\ p \in Slots /\ At(t, "lock") /\ Finish(t)
          /\ store' = [store EXCEPT ![p].left = wait]
          /\ slipped' = slipped /\ kept' = kept
        BY <1>1, <1>9 DEF LockOut, At
    <2>2. store[p] \in Entries
        BY <1>0, <2>1 DEF Tracked
    <2>3. wait \in 1..MaxLock
        <3>1. store[p].failures \in Nat /\ store[p].failures >= Threshold
            BY <1>9, <2>2, TopAssumption DEF Entries, TypeInv, HeldInv, LockOut
        <3> QED
            BY <3>1, WaitBounded
    <2> HIDE DEF wait
    <2>4. store' = [store EXCEPT ![p] = [store[p] EXCEPT !.left = wait]]
        BY <1>0, <2>1, <2>2 DEF Entries
    <2>5. store'[p] = [store[p] EXCEPT !.left = wait]
        BY <1>0, <2>1, <2>4
    <2>6. /\ store'[p] # NoEntry /\ store'[p].left > 0
          /\ store'[p].idle = store[p].idle
        BY <2>2, <2>3, <2>5, NoneAssumption DEF Entries
    <2>7. \A q \in Slots \ {p} : store'[q] = store[q]
        BY <1>0, <2>1, <2>4
    <2>8. Barred(p, t)
        BY <1>3, <2>1, <2>6 DEF Barred
    <2> QED
        BY <1>3, <2>1, <2>7, <2>8 DEF Fate, Same
<1> QED
    BY <1>4, <1>5, <1>6, <1>7, <1>8, <1>9 DEF Record

-----------------------------------------------------------------------------
(* Sweeps *)

\* An entry to be dropped is as idle as it was listed, or has failed since: in
\* this second, or in the one before if the thread has seen one end.
Spared(e, late) == Decayed(e) \/ e.idle = 0 \/ (late /\ e.idle <= 1)
SpareInv ==
    \A t \in Threads : At(t, "drop") =>
        \A k \in thread[t].todo :
            Tracked(<<Slot(t)[1], k>>) =>
                Spared(store[<<Slot(t)[1], k>>], thread[t].late)

LEMMA SpareFate ==
    ASSUME TypeInv, TypeOK', SpareInv, NEW t \in Threads, Fate(t)
    PROVE  SpareInv'
<1> SUFFICES ASSUME NEW u \in Threads, thread'[u].at = "drop",
                    NEW k \in thread'[u].todo,
                    store'[<<thread'[u].slot[1], k>>] # NoEntry
             PROVE  Spared(store'[<<thread'[u].slot[1], k>>], thread'[u].late)
    BY DEF SpareInv, At, Slot, Tracked, Spared, Decayed
<1> DEFINE p == <<Slot(u)[1], k>>
<1>0. thread[u] \in Tasks /\ thread'[u] \in Tasks /\ NewEntry.idle = 0
    BY DEF TypeInv, TypeOK, NewEntry
<1>1. \/ /\ At(u, "drop") /\ thread'[u].todo \subseteq thread[u].todo
         /\ thread'[u].late = thread[u].late
      \/ /\ store' = store
         /\ \A j \in thread'[u].todo : Decayed(store[<<Slot(u)[1], j>>])
    <2>1. CASE u = t
        <3>1. thread'[u] # Idle /\ thread'[u].at # "verify"
            BY DEF Idle
        <3> QED
            BY <2>1, <3>1 DEF Fate, Own
    <2>2. CASE u # t
        BY <2>2 DEF Fate, Aside, At
    <2> QED
        BY <2>1, <2>2
<1>2. thread'[u].slot = Slot(u) /\ Slot(u) \in Slots
    <2>1. thread'[u].slot = Slot(u) /\ ~At(u, "idle")
        <3>1. CASE u = t
            <4>1. thread'[u] # Idle /\ thread'[u].at # "verify"
                BY DEF Idle
            <4> QED
                BY <3>1, <4>1 DEF Fate, Own
        <3>2. CASE u # t
            BY <3>2 DEF Fate, Aside, At, Slot
        <3> QED
            BY <3>1, <3>2
    <2> QED
        BY <2>1 DEF TypeInv, HeldInv
<1>3. p \in Slots
    BY <1>0, <1>2 DEF Slots, Tasks
<1>4. CASE /\ store' = store
           /\ \A j \in thread'[u].todo : Decayed(store[<<Slot(u)[1], j>>])
    BY <1>2, <1>4 DEF Spared
<1>5. CASE /\ At(u, "drop") /\ thread'[u].todo \subseteq thread[u].todo
           /\ thread'[u].late = thread[u].late
    <2>1. Tracked(p) => Spared(store[p], thread[u].late)
        BY <1>5 DEF SpareInv
    <2>2. store'[p] # NoEntry
        BY <1>2
    <2>3. \/ Same(p, t) \/ Counted(p, t) \/ Barred(p, t)
        BY <1>3, <2>2 DEF Fate, Gone
    <2> HIDE DEF p
    <2>4. Spared(store'[p], thread[u].late)
        <3>1. CASE Same(p, t)
            <4>1. CASE store'[p] = store[p]
                BY <2>1, <2>2, <4>1 DEF Tracked
            <4>2. CASE store'[p] = NewEntry
                BY <1>0, <4>2 DEF Spared
            <4> QED
                BY <3>1, <4>1, <4>2 DEF Same
        <3>2. CASE Counted(p, t)
            BY <3>2 DEF Counted, Spared
        <3>3. CASE Barred(p, t)
            BY <2>1, <3>3 DEF Barred, Spared, Decayed
        <3> QED
            BY <2>3, <3>1, <3>2, <3>3
    <2> QED
        BY <1>2, <1>5, <2>4 DEF p
<1> QED
    BY <1>1, <1>4, <1>5

LEMMA SpareTick ==
    ASSUME TypeInv, TypeOK', SpareInv, Tick
    PROVE  SpareInv'
<1> SUFFICES ASSUME NEW u \in Threads, thread'[u].at = "drop",
                    NEW k \in thread'[u].todo,
                    store'[<<thread'[u].slot[1], k>>] # NoEntry
             PROVE  Spared(store'[<<thread'[u].slot[1], k>>], thread'[u].late)
    BY DEF SpareInv, At, Slot, Tracked, Spared, Decayed
<1> DEFINE p == <<Slot(u)[1], k>>
           late == thread[u].at \in Recording
<1>0. thread[u] \in Tasks
    BY DEF TypeInv, TypeOK
<1>1. thread'[u] = [thread[u] EXCEPT !.late = late]
    BY DEF Tick
<1>2. /\ thread'[u].slot = Slot(u) /\ At(u, "drop") /\ k \in thread[u].todo
      /\ thread'[u].late = late
    BY <1>0, <1>1 DEF Tasks, Slot, At
<1>3. late
    BY <1>2 DEF At, Recording
<1>4. ~thread[u].late
    BY DEF Tick
<1>5. p \in Slots
    BY <1>0, <1>2 DEF Slots, Tasks, TypeInv, HeldInv, At
<1>6. Tracked(p) /\ store[p] \in Entries
    BY <1>2, <1>5 DEF Tick, TypeInv, TypeOK, Tracked
<1>7. Decayed(store[p]) \/ store[p].idle = 0
    BY <1>2, <1>4, <1>6 DEF SpareInv, Spared
<1> HIDE DEF p
<1>8. store'[p].idle = IF store[p].idle <= MaxLock THEN store[p].idle + 1
                                                    ELSE store[p].idle
    BY <1>5, <1>6 DEF Tick, Entries
<1>9. Decayed(store'[p]) \/ store'[p].idle <= 1
    BY <1>6, <1>7, <1>8, MaxLockAssumption DEF Decayed, Entries
<1> QED
    BY <1>2, <1>3, <1>9 DEF p, Spared

\* A sweep never takes an entry somebody has just failed again in.
THEOREM BusySpared == Spec => []SweepSparesTheBusy
<1>1. Init => TypeInv /\ SpareInv
    BY TypeInductive DEF Init, SpareInv, At, Idle
<1>2. TypeInv /\ SpareInv /\ [Next]_vars => (TypeInv /\ SpareInv)'
    <2> SUFFICES ASSUME TypeInv, SpareInv, [Next]_vars
                 PROVE  TypeInv' /\ SpareInv'
        OBVIOUS
    <2>0. TypeInv' /\ TypeOK'
        BY TypeInductive DEF TypeInv
    <2>1. ASSUME NEW t \in Threads, Serve(t) \/ Record(t) PROVE SpareInv'
        BY <2>0, <2>1, ServeFate, RecordFate, SpareFate
    <2>2. CASE Tick
        BY <2>0, <2>2, SpareTick
    <2>3. CASE Restart
        BY <2>0, <2>3 DEF Restart, SpareInv, At, Idle
    <2>4. ASSUME NEW k \in Keys, ConsoleDeletes(k) PROVE SpareInv'
        BY <2>4 DEF ConsoleDeletes, SpareInv, At, Slot, Tracked, Spared, Decayed
    <2>5. CASE UNCHANGED vars
        BY <2>0, <2>5 DEF vars, SpareInv, At, Slot, Tracked, Spared, Decayed
    <2> QED
        BY <2>0, <2>1, <2>2, <2>3, <2>4, <2>5 DEF Next
<1>3. TypeInv /\ SpareInv => SweepSparesTheBusy
    <2> SUFFICES ASSUME TypeInv, SpareInv, NEW t \in Threads, At(t, "drop"),
                        NEW k \in thread[t].todo, Tracked(<<Slot(t)[1], k>>)
                 PROVE  \/ Decayed(store[<<Slot(t)[1], k>>])
                        \/ store[<<Slot(t)[1], k>>].idle <= 1
        BY DEF SweepSparesTheBusy
    <2> QED
        BY DEF SpareInv, Spared
<1> QED
    BY <1>1, <1>2, <1>3, PTL DEF Spec

-----------------------------------------------------------------------------
(* Lockouts *)

\* A lockout has been escaped by no more failures than there were threads past
\* the check, and every one of those can prolong it once.
LockInv ==
    \A p \in Slots :
        /\ Locked(p) =>
            /\ slipped[p] + Cardinality(Past(p)) < Cardinality(Threads)
            /\ kept[p] + store[p].left + MaxLock * Cardinality(Pending(p))
                    <= MaxLock * Cardinality(Threads)
        /\ ~Locked(p) => slipped[p] = 0 /\ kept[p] = 0

LEMMA Fewer ==
    ASSUME NEW S, IsFiniteSet(S), NEW T, T \subseteq S
    PROVE  /\ Cardinality(T) \in Nat /\ Cardinality(S) \in Nat
           /\ Cardinality(T) <= Cardinality(S)
           /\ \A x \in S : x \notin T => Cardinality(T) + 1 <= Cardinality(S)
<1>1. IsFiniteSet(T) /\ Cardinality(T) <= Cardinality(S)
    BY FS_Subset
<1>2. Cardinality(T) \in Nat /\ Cardinality(S) \in Nat
    BY <1>1, FS_CardinalityType
<1>3. ASSUME NEW x \in S, x \notin T PROVE Cardinality(T) # Cardinality(S)
    BY <1>3, FS_Subset
<1> QED
    BY <1>1, <1>2, <1>3

LEMMA Times ==
    ASSUME NEW m \in Nat, NEW a \in Nat, NEW b \in Nat
    PROVE  /\ m * a \in Nat
           /\ a <= b => m * a <= m * b
           /\ a + 1 <= b => m * a + m <= m * b
<1>1. \A c, d \in Nat : m * (c + d) = m * c + m * d /\ m * d \in Nat /\ m * c \in Nat
    OBVIOUS
<1>2. ASSUME a <= b PROVE m * a <= m * b
    <2>1. b - a \in Nat /\ b = a + (b - a)
        BY <1>2
    <2>2. m * b = m * a + m * (b - a) /\ m * (b - a) \in Nat /\ m * a \in Nat
        BY <1>1, <2>1
    <2>3. m * b \in Nat
        BY <1>1
    <2> QED
        BY <2>2, <2>3
<1>3. ASSUME a + 1 <= b PROVE m * a + m <= m * b
    <2>1. b - (a + 1) \in Nat /\ b = (a + 1) + (b - (a + 1)) /\ a + 1 \in Nat /\ 1 \in Nat
        BY <1>3
    <2>2. m * b = m * (a + 1) + m * (b - (a + 1)) /\ m * (b - (a + 1)) \in Nat
        BY <1>1, <2>1
    <2>3. m * (a + 1) = m * a + m * 1 /\ m * a \in Nat
        BY <1>1, <2>1
    <2>4. m * 1 = m /\ m * b \in Nat
        BY <1>1
    <2> QED
        BY <2>2, <2>3, <2>4
<1>4. m * a \in Nat
    OBVIOUS
<1> QED
    BY <1>2, <1>3, <1>4

\* While an entry is locked, no thread joins those at work on it.
LEMMA NobodyJoins ==
    ASSUME TypeInv, NEW t \in Threads, Fate(t), NEW p \in Slots, Locked(p)
    PROVE  /\ \A u \in Threads : thread'[u].slot = p /\ thread'[u].at \in Counting =>
                    Slot(u) = p /\ thread[u].at \in Counting
           /\ \A u \in Threads :
                    thread'[u].slot = p /\ thread'[u].at \in Counting \cup {"lock"} =>
                    Slot(u) = p /\ thread[u].at \in Counting \cup {"lock"}
<1>1. p # Idle.slot /\ Idle.at \notin Counting \cup {"lock"}
    BY NoneAssumption DEF Idle, Counting
<1>2. ASSUME NEW u \in Threads \ {t}
      PROVE  thread'[u].slot = Slot(u) /\ thread'[u].at = thread[u].at
    BY DEF Fate, Aside, Slot
<1>3. \/ thread'[t] = Idle
      \/ thread'[t].slot # p
      \/ /\ thread'[t].slot = Slot(t)
         /\ thread'[t].at \in Counting => thread[t].at \in Counting
         /\ thread'[t].at = "lock" => thread[t].at \in Counting
    BY DEF Fate, Own
<1> QED
    BY <1>1, <1>2, <1>3

LEMMA LockFate ==
    ASSUME TypeInv, TypeOK', LockInv, NEW t \in Threads, Fate(t), NEW p \in Slots
    PROVE  /\ Locked(p)' =>
                /\ slipped'[p] + Cardinality(Past(p)') < Cardinality(Threads)
                /\ kept'[p] + store'[p].left + MaxLock * Cardinality(Pending(p)')
                        <= MaxLock * Cardinality(Threads)
           /\ ~Locked(p)' => slipped'[p] = 0 /\ kept'[p] = 0
<1> DEFINE A == Cardinality(Past(p))
           B == Cardinality(Pending(p))
           AA == Cardinality(Past(p)')
           BB == Cardinality(Pending(p)')
           N == Cardinality(Threads)
<1>1. /\ A \in Nat /\ B \in Nat /\ AA \in Nat /\ BB \in Nat /\ N \in Nat
      /\ IsFiniteSet(Past(p)) /\ IsFiniteSet(Pending(p))
    <2>1. Past(p) \subseteq Threads /\ Pending(p) \subseteq Threads
        BY DEF Past, Pending
    <2>2. Past(p)' \subseteq Threads /\ Pending(p)' \subseteq Threads
        BY DEF Past, Pending
    <2> QED
        BY <2>1, <2>2, ThreadAssumption, Fewer, FS_Subset
<1>2. Locked(p) => Past(p)' \subseteq Past(p) /\ Pending(p)' \subseteq Pending(p)
    <2>1. ASSUME Locked(p) PROVE Past(p)' \subseteq Past(p)
        BY <2>1, NobodyJoins DEF Past, Slot
    <2>2. ASSUME Locked(p) PROVE Pending(p)' \subseteq Pending(p)
        BY <2>2, NobodyJoins DEF Pending, Slot
    <2> QED
        BY <2>1, <2>2
<1>3. Locked(p) => AA <= A /\ BB <= B
    BY <1>1, <1>2, Fewer
<1>4. /\ slipped[p] \in Nat /\ kept[p] \in Nat /\ MaxLock \in Nat
      /\ Tracked(p) => store[p].left \in Nat /\ store[p].left <= MaxLock
      /\ store'[p] # NoEntry => store'[p].left \in Nat /\ store'[p].left <= MaxLock
    BY MaxLockAssumption DEF TypeInv, TypeOK, Entries, Tracked
<1>5. /\ MaxLock * A \in Nat /\ MaxLock * B \in Nat /\ MaxLock * BB \in Nat
      /\ MaxLock * N \in Nat
      /\ BB <= B => MaxLock * BB <= MaxLock * B
      /\ BB + 1 <= B => MaxLock * BB + MaxLock <= MaxLock * B
      /\ BB + 1 <= N => MaxLock * BB + MaxLock <= MaxLock * N
    BY <1>1, <1>4, Times
<1>6. /\ Locked(p) => /\ slipped[p] + A < N
                      /\ kept[p] + store[p].left + MaxLock * B <= MaxLock * N
      /\ ~Locked(p) => slipped[p] = 0 /\ kept[p] = 0
    BY DEF LockInv
<1>7. CASE Gone(p)
    BY <1>7 DEF Gone, Locked, Tracked
<1>8. CASE Same(p, t)
    <2>1. store'[p] = store[p] \/ (~Locked(p) /\ ~Locked(p)')
        BY <1>8 DEF Same, Locked, Tracked, NewEntry
    <2>2. slipped'[p] = slipped[p] /\ kept'[p] = kept[p]
        BY <1>8 DEF Same
    <2>3. CASE store'[p] = store[p]
        <3>1. Locked(p)' = Locked(p)
            BY <2>3 DEF Locked, Tracked
        <3>2. CASE Locked(p)
            <4>1. AA <= A /\ MaxLock * BB <= MaxLock * B /\ Tracked(p)
                BY <1>3, <1>5, <3>2 DEF Locked
            <4> HIDE DEF A, B, AA, BB, N
            <4>2. slipped[p] + AA < N
                BY <1>1, <1>4, <1>6, <3>2, <4>1
            <4>3. kept[p] + store[p].left + MaxLock * BB <= MaxLock * N
                BY <1>4, <1>5, <1>6, <3>2, <4>1
            <4> QED
                BY <2>2, <2>3, <3>1, <3>2, <4>2, <4>3 DEF AA, BB, N
        <3>3. CASE ~Locked(p)
            BY <1>6, <2>2, <3>1, <3>3
        <3> QED
            BY <3>2, <3>3
    <2> QED
        BY <1>6, <2>1, <2>2, <2>3
<1>9. CASE Counted(p, t)
    <2>1. /\ Tracked(p) /\ store'[p] # NoEntry /\ store'[p].left = store[p].left
          /\ slipped'[p] = IF Locked(p) THEN slipped[p] + 1 ELSE slipped[p]
          /\ kept'[p] = kept[p]
        BY <1>9 DEF Counted
    <2>2. Locked(p)' = Locked(p)
        BY <2>1 DEF Locked, Tracked
    <2>3. CASE ~Locked(p)
        BY <1>6, <2>1, <2>2, <2>3
    <2>4. CASE Locked(p)
        <3>1. t \in Past(p)
            BY <1>9 DEF Counted, Past, At, Counting
        <3>2. t \notin Past(p)'
            BY <1>9 DEF Counted, Past, Counting
        <3>3. AA + 1 <= A
            BY <1>1, <1>2, <2>4, <3>1, <3>2, Fewer
        <3>4. MaxLock * BB <= MaxLock * B
            BY <1>3, <1>5, <2>4
        <3> HIDE DEF A, B, AA, BB, N
        <3>5. slipped[p] + 1 + AA < N
            BY <1>1, <1>4, <1>6, <2>4, <3>3
        <3>6. kept[p] + store[p].left + MaxLock * BB <= MaxLock * N
            BY <1>4, <1>5, <1>6, <2>1, <2>4, <3>4
        <3> QED
            BY <2>1, <2>2, <2>4, <3>5, <3>6 DEF AA, BB, N
    <2> QED
        BY <2>3, <2>4
<1>10. CASE Barred(p, t)
    <2>1. /\ Tracked(p) /\ store'[p] # NoEntry /\ thread'[t] = Idle
          /\ slipped'[p] = slipped[p] /\ kept'[p] = kept[p]
        BY <1>10 DEF Barred
    <2>2. t \in Pending(p)
        BY <1>10 DEF Barred, Pending, At, Counting
    <2>3. t \notin Pending(p)' /\ t \notin Past(p)'
        BY <2>1 DEF Pending, Past, Idle, Counting
    <2>4. /\ Pending(p)' \subseteq Threads /\ Past(p)' \subseteq Threads
          /\ IsFiniteSet(Threads)
        BY ThreadAssumption DEF Pending, Past
    <2>5. BB + 1 <= N /\ AA + 1 <= N
        BY <2>3, <2>4, Fewer
    <2>6. Locked(p) => BB + 1 <= B
        BY <1>1, <1>2, <2>2, <2>3, Fewer
    <2> HIDE DEF A, B, AA, BB, N
    <2>7. CASE Locked(p)
        <3>1. slipped[p] + AA < N
            BY <1>1, <1>3, <1>4, <1>6, <2>7
        <3>2. kept[p] + store'[p].left + MaxLock * BB <= MaxLock * N
            BY <1>4, <1>5, <1>6, <2>1, <2>6, <2>7
        <3>3. Locked(p)'
            BY <1>10 DEF Barred, Locked, Tracked
        <3> QED
            BY <2>1, <3>1, <3>2, <3>3 DEF AA, BB, N
    <2>8. CASE ~Locked(p)
        <3>1. slipped[p] = 0 /\ kept[p] = 0
            BY <1>6, <2>8
        <3>2. 0 + AA < N
            BY <1>1, <2>5
        <3>3. 0 + store'[p].left + MaxLock * BB <= MaxLock * N
            BY <1>4, <1>5, <2>1, <2>5
        <3> QED
            BY <2>1, <3>1, <3>2, <3>3 DEF AA, BB, N
    <2> QED
        BY <2>7, <2>8
<1> QED
    BY <1>7, <1>8, <1>9, <1>10 DEF Fate

LEMMA LockTick ==
    ASSUME TypeInv, LockInv, Tick, NEW p \in Slots
    PROVE  /\ Locked(p)' =>
                /\ slipped'[p] + Cardinality(Past(p)') < Cardinality(Threads)
                /\ kept'[p] + store'[p].left + MaxLock * Cardinality(Pending(p)')
                        <= MaxLock * Cardinality(Threads)
           /\ ~Locked(p)' => slipped'[p] = 0 /\ kept'[p] = 0
<1>1. ASSUME NEW u \in Threads
      PROVE  thread'[u].slot = Slot(u) /\ thread'[u].at = thread[u].at
    <2> DEFINE late == thread[u].at \in Recording
    <2>1. thread'[u] = [thread[u] EXCEPT !.late = late] /\ thread[u] \in Tasks
        BY DEF Tick, TypeInv, TypeOK
    <2> HIDE DEF late
    <2> QED
        BY <2>1 DEF Tasks, Slot
<1>2. Past(p)' = Past(p)
    BY <1>1 DEF Past, Slot
<1>3. Pending(p)' = Pending(p)
    BY <1>1 DEF Pending, Slot
<1>4. slipped[p] \in Nat /\ kept[p] \in Nat
    BY DEF TypeInv, TypeOK
<1>5. /\ slipped'[p] = IF Tracked(p) /\ store[p].left > 1 THEN slipped[p] ELSE 0
      /\ kept'[p] = IF Tracked(p) /\ store[p].left > 1 THEN kept[p] + 1 ELSE 0
    BY DEF Tick
<1>6. CASE ~Tracked(p)
    BY <1>5, <1>6 DEF Tick, Locked, Tracked
<1>7. CASE Tracked(p)
    <2>1. store[p] \in Entries
        BY <1>7 DEF Tracked, TypeInv, TypeOK
    <2>2. store'[p].left = IF store[p].left > 0 THEN store[p].left - 1 ELSE 0
        BY <1>7, <2>1 DEF Tick, Entries
    <2>3. store[p].left \in Nat
        BY <2>1 DEF Entries
    <2>4. CASE store[p].left > 1
        <3>1. store'[p] # NoEntry
            <4>1. TypeOK'
                BY TypeTick DEF TypeInv
            <4>2. store'[p] = [store[p] EXCEPT
                    !.left = IF store[p].left > 0 THEN store[p].left - 1 ELSE 0,
                    !.idle = IF store[p].idle <= MaxLock THEN store[p].idle + 1
                                                         ELSE store[p].idle]
                BY <1>7, <2>1 DEF Tick, Entries
            <4>3. store'[p] \in Entries
                <5>1. /\ (IF store[p].left > 0 THEN store[p].left - 1 ELSE 0) \in 0..MaxLock
                      /\ (IF store[p].idle <= MaxLock THEN store[p].idle + 1
                                                      ELSE store[p].idle) \in 0..(MaxLock + 1)
                    BY <2>1, MaxLockAssumption DEF Entries
                <5> QED
                    BY <2>1, <4>2, <5>1 DEF Entries
            <4> QED
                BY <4>3, NoneAssumption
        <3>2. Locked(p) /\ Locked(p)'
            BY <1>7, <2>2, <2>3, <2>4, <3>1 DEF Locked, Tracked
        <3> DEFINE B == MaxLock * Cardinality(Pending(p))
                   N == MaxLock * Cardinality(Threads)
        <3>3. B \in Nat /\ N \in Nat
            <4>1. IsFiniteSet(Threads) /\ Pending(p) \subseteq Threads
                BY ThreadAssumption DEF Pending
            <4>2. Cardinality(Pending(p)) \in Nat /\ Cardinality(Threads) \in Nat
                BY <4>1, Fewer
            <4> QED
                BY <4>2, Times, MaxLockAssumption
        <3>4. kept[p] + store[p].left + B <= N
            BY <3>2 DEF LockInv
        <3> HIDE DEF B, N
        <3>5. kept'[p] + store'[p].left + B <= N
            BY <1>4, <1>5, <1>7, <2>2, <2>3, <2>4, <3>3, <3>4
        <3>6. slipped'[p] + Cardinality(Past(p)) < Cardinality(Threads)
            BY <1>5, <1>7, <2>4, <3>2 DEF LockInv
        <3> QED
            BY <1>2, <1>3, <3>2, <3>5, <3>6 DEF B, N
    <2>5. CASE ~(store[p].left > 1)
        BY <1>5, <2>2, <2>3, <2>5 DEF Locked, Tracked
    <2> QED
        BY <2>4, <2>5
<1> QED
    BY <1>6, <1>7

LEMMA LockInductive ==
    /\ Init => TypeInv /\ LockInv
    /\ TypeInv /\ LockInv /\ [Next]_vars => (TypeInv /\ LockInv)'
<1>1. Init => TypeInv /\ LockInv
    BY TypeInductive DEF Init, LockInv, Locked, Tracked
<1>2. ASSUME TypeInv, LockInv, [Next]_vars
      PROVE  TypeInv' /\ LockInv'
    <2>0. TypeInv' /\ TypeOK'
        BY <1>2, TypeInductive DEF TypeInv
    <2>1. ASSUME NEW t \in Threads, Serve(t) \/ Record(t) PROVE LockInv'
        <3>1. Fate(t)
            BY <1>2, <2>1, ServeFate, RecordFate
        <3> QED
            BY <1>2, <2>0, <3>1, LockFate DEF LockInv
    <2>2. CASE Tick
        BY <1>2, <2>0, <2>2, LockTick DEF LockInv
    <2>3. CASE Restart
        BY <2>0, <2>3 DEF Restart, LockInv, Locked, Tracked
    <2>4. ASSUME UNCHANGED <<store, thread, slipped, kept>> PROVE LockInv'
        BY <1>2, <2>4 DEF LockInv, Locked, Tracked, Past, Pending, Slot
    <2>5. ASSUME NEW k \in Keys, ConsoleDeletes(k) PROVE LockInv'
        BY <2>4, <2>5 DEF ConsoleDeletes
    <2>6. CASE UNCHANGED vars
        BY <2>0, <2>4, <2>6 DEF vars
    <2> QED
        BY <1>2, <2>0, <2>1, <2>2, <2>3, <2>5, <2>6 DEF Next
<1> QED
    BY <1>1, <1>2

\* A lockout lets through fewer failures than there are threads.
THEOREM OnlyRacers == Spec => []OnlyRacersSlip
<1>1. TypeInv /\ LockInv => OnlyRacersSlip
    <2> SUFFICES ASSUME TypeInv, LockInv, NEW p \in Slots
                 PROVE  slipped[p] < Cardinality(Threads)
        BY DEF OnlyRacersSlip
    <2>1. slipped[p] \in Nat
        BY DEF TypeInv, TypeOK
    <2>2. Past(p) \subseteq Threads /\ IsFiniteSet(Threads) /\ IsFiniteSet({})
        BY ThreadAssumption, FS_EmptySet DEF Past
    <2>3. Cardinality(Past(p)) \in Nat /\ Cardinality(Threads) \in Nat
        BY <2>2, Fewer
    <2>4. Cardinality(Threads) # 0
        BY ThreadAssumption, FS_EmptySet
    <2> QED
        BY <2>1, <2>3, <2>4 DEF LockInv
<1> QED
    BY <1>1, LockInductive, PTL DEF Spec

\* A lockout, however often it is prolonged, is over in the time that the
\* threads past the check can add to it.
THEOREM LockoutsEnd == Spec => []LockoutEnds
<1>1. TypeInv /\ LockInv => LockoutEnds
    <2> SUFFICES ASSUME TypeInv, LockInv, NEW p \in Slots
                 PROVE  kept[p] < MaxLock * Cardinality(Threads)
        BY DEF LockoutEnds
    <2> DEFINE B == MaxLock * Cardinality(Pending(p))
               N == MaxLock * Cardinality(Threads)
    <2>1. kept[p] \in Nat
        BY DEF TypeInv, TypeOK
    <2>2. Pending(p) \subseteq Threads /\ IsFiniteSet(Threads)
        BY ThreadAssumption DEF Pending
    <2>3. Cardinality(Pending(p)) \in Nat /\ Cardinality(Threads) \in Nat \ {0}
        BY <2>2, Fewer, ThreadAssumption, FS_EmptySet
    <2>4. B \in Nat /\ N \in Nat /\ MaxLock * 0 + MaxLock <= N
        BY <2>3, Times, MaxLockAssumption
    <2>5. MaxLock * 0 = 0 /\ MaxLock \in Nat \ {0}
        BY MaxLockAssumption
    <2>6. Locked(p) => kept[p] + store[p].left + B <= N
        BY DEF LockInv
    <2>7. ~Locked(p) => kept[p] = 0
        BY DEF LockInv
    <2>8. Locked(p) => store[p].left \in Nat \ {0}
        BY DEF TypeInv, TypeOK, Locked, Tracked, Entries
    <2> HIDE DEF B, N
    <2>9. kept[p] < N
        BY <2>1, <2>4, <2>5, <2>6, <2>7, <2>8
    <2> QED
        BY <2>9 DEF N
<1> QED
    BY <1>1, LockInductive, PTL DEF Spec
=============================================================================
