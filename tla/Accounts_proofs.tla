-------------------------- MODULE Accounts_proofs --------------------------
(***************************************************************************)
(* Proofs about Accounts, for any number of users, requests and accounts.    *)
(***************************************************************************)
EXTENDS Accounts, TLAPS

-----------------------------------------------------------------------------
(* What a step does to the requests and to the rows *)

\* A request under way is of a user.
Busy == \A r \in Requests : ~At(r, "idle") => req[r].user \in Users
TypeInv == TypeOK /\ Busy

\* A conversion of each account in the domain of f, under the id f gives it.
RowsOf(u, f) == {[id |-> f[a], user |-> u, account |-> a] : a \in DOMAIN f}

\* Everybody goes on as before, but r.
OthersSame(r) == \A s \in Requests \ {r} : req'[s] = req[s]

\* An insert adds the rows of f and counts them.
Inserts(r, accounts, label, f) ==
    /\ \A a, b \in accounts : f[a] = f[b] => a = b
    /\ convs' = convs \cup RowsOf(req[r].user, f)
    /\ born' = born \cup {f[a] : a \in accounts}
    /\ req' \in [Requests -> Tasks]
    /\ OthersSame(r)
    /\ req'[r] = [req[r] EXCEPT !.at = label,
                                !.todo = req[r].todo \ accounts,
                                !.made = req[r].made \cup {f[a] : a \in accounts}]

\* An insert gives each of the accounts a fresh id.
LEMMA InsertEffect ==
    ASSUME TypeOK, NEW r \in Requests, NEW accounts \in SUBSET Accounts,
           NEW label \in Labels, Insert(r, accounts, label)
    PROVE  \E f \in [accounts -> Ids \ born] : Inserts(r, accounts, label, f)
<1>1. PICK f \in NewIds(accounts) :
        /\ convs' = convs \cup RowsOf(req[r].user, f)
        /\ born' = born \cup {f[a] : a \in accounts}
        /\ req' = [req EXCEPT ![r].at = label, ![r].todo = @ \ accounts,
                              ![r].made = @ \cup {f[a] : a \in accounts}]
    BY DEF Insert, NewIds, RowsOf
<1> DEFINE new == {f[a] : a \in accounts}
           task == [req[r] EXCEPT !.at = label,
                                  !.todo = req[r].todo \ accounts,
                                  !.made = req[r].made \cup new]
<1>2. f \in [accounts -> Ids \ born] /\ \A a, b \in accounts : f[a] = f[b] => a = b
    BY DEF NewIds
<1>3. new \in SUBSET Ids
    BY <1>2
<1>4. req[r] \in Tasks
    BY DEF TypeOK
<1> HIDE DEF new
<1>5. task \in Tasks
    BY <1>3, <1>4 DEF Tasks
<1>6. req' = [req EXCEPT ![r] = task]
    BY <1>1, <1>4 DEF TypeOK, Tasks, new
<1>7. req' \in [Requests -> Tasks] /\ OthersSame(r) /\ req'[r] = task
    BY <1>5, <1>6 DEF TypeOK, OthersSame
<1> QED
    BY <1>1, <1>2, <1>7 DEF new, Inserts

\* Conversions leave some accounts of the user of r, and r moves on.
LEMMA FreedEffect ==
    ASSUME TypeOK, NEW r \in Requests, NEW accounts \in SUBSET Accounts,
           NEW label \in Labels,
           req' = [Freed(req[r].user, accounts) EXCEPT ![r].at = label]
    PROVE  /\ req' \in [Requests -> Tasks]
           /\ req'[r] = [req[r] EXCEPT !.at = label,
                                       !.freed = req[r].freed \cup accounts]
           /\ \A s \in Requests \ {r} :
                 req'[s] = [req[s] EXCEPT !.freed =
                                IF req[s].user = req[r].user
                                THEN req[s].freed \cup accounts
                                ELSE req[s].freed]
<1> DEFINE task(s) ==
        [req[s] EXCEPT !.freed = IF req[s].user = req[r].user
                                 THEN req[s].freed \cup accounts
                                 ELSE req[s].freed]
           mine == [req[r] EXCEPT !.at = label,
                                  !.freed = req[r].freed \cup accounts]
<1>1. \A s \in Requests : req[s] \in Tasks
    BY DEF TypeOK
<1>2. \A s \in Requests : Freed(req[r].user, accounts)[s] = task(s)
    <2> SUFFICES ASSUME NEW s \in Requests
                 PROVE  Freed(req[r].user, accounts)[s] = task(s)
        OBVIOUS
    <2>1. CASE req[s].user = req[r].user
        BY <2>1 DEF Freed
    <2>2. CASE req[s].user # req[r].user
        BY <2>2, <1>1 DEF Freed, Tasks
    <2> QED
        BY <2>1, <2>2
<1>3. \A s \in Requests : task(s) \in Tasks
    BY <1>1 DEF Tasks
<1>4. mine \in Tasks
    BY <1>1 DEF Tasks
<1>5. req' = [s \in Requests |-> IF s = r THEN mine ELSE task(s)]
    BY <1>1, <1>2 DEF Freed, Tasks
<1> HIDE DEF task, mine
<1>6. /\ req' \in [Requests -> Tasks]
      /\ req'[r] = mine
      /\ \A s \in Requests \ {r} : req'[s] = task(s)
    BY <1>3, <1>4, <1>5
<1> QED
    BY <1>6 DEF task, mine

\* A request is answered.
LEMMA FinishEffect ==
    ASSUME TypeOK, NEW r \in Requests, Finish(r)
    PROVE  req' \in [Requests -> Tasks] /\ OthersSame(r) /\ req'[r] = Idle
<1>1. Idle \in Tasks
    BY DEF Idle, Task, Tasks, Labels
<1> QED
    BY <1>1 DEF TypeOK, Finish, OthersSame

\* A request moves on.
LEMMA GotoEffect ==
    ASSUME TypeOK, NEW r \in Requests, NEW label \in Labels, Goto(r, label)
    PROVE  /\ req' \in [Requests -> Tasks] /\ OthersSame(r)
           /\ req'[r] = [req[r] EXCEPT !.at = label]
<1>1. [req[r] EXCEPT !.at = label] \in Tasks
    BY DEF TypeOK, Tasks
<1> QED
    BY <1>1 DEF TypeOK, Goto, OthersSame

\* A request begins.
LEMMA BeginEffect ==
    ASSUME TypeOK, NEW r \in Requests, NEW u \in Users, NEW label \in Labels,
           NEW accounts \in SUBSET Accounts,
           NEW ids \in SUBSET Ids,
           req' = [req EXCEPT ![r] = Task(u, label, accounts, ids)]
    PROVE  /\ req' \in [Requests -> Tasks] /\ OthersSame(r)
           /\ req'[r] = Task(u, label, accounts, ids)
<1>1. Task(u, label, accounts, ids) \in Tasks
    BY DEF Task, Tasks
<1> QED
    BY <1>1 DEF TypeOK, OthersSame

-----------------------------------------------------------------------------
(* Types *)

\* A request that arrives keeps the types.
LEMMA TypeArrive ==
    ASSUME TypeInv, NEW r \in Requests, Arrive(r)
    PROVE  TypeInv'
<1> USE DEF TypeInv, At
<1>1. ASSUME NEW u \in users, NEW label \in Labels,
             NEW accounts \in SUBSET Accounts, NEW ids \in SUBSET Ids,
             Begin(r, u, label, accounts, ids)
      PROVE  TypeInv'
    <2>1. req' \in [Requests -> Tasks] /\ OthersSame(r)
          /\ req'[r] = Task(u, label, accounts, ids)
        BY <1>1, BeginEffect DEF TypeOK, Begin
    <2>2. Busy'
        BY <1>1, <2>1 DEF Busy, OthersSame, Task, TypeOK
    <2> QED
        BY <1>1, <2>1, <2>2 DEF TypeOK, Begin, dbVars
<1>2. CASE SignUp(r)
    <2>1. PICK u \in Users :
            /\ users' = users \cup {u}
            /\ req' = [req EXCEPT ![r] = Task(u, "log", {}, {})]
        BY <1>2 DEF SignUp
    <2>2. req' \in [Requests -> Tasks] /\ OthersSame(r)
          /\ req'[r] = Task(u, "log", {}, {})
        <3>1. /\ TypeOK /\ "log" \in Labels
              /\ {} \in SUBSET Accounts /\ {} \in SUBSET Ids
            BY DEF Labels
        <3> QED
            BY <2>1, <3>1, BeginEffect
    <2>3. Busy'
        BY <2>2 DEF Busy, OthersSame, Task
    <2> QED
        BY <1>2, <2>1, <2>2, <2>3 DEF TypeOK, SignUp
<1>3. born \subseteq Ids
    BY DEF TypeOK
<1>4. CASE StartErase(r)
    BY <1>1, <1>4 DEF StartErase, Labels
<1>5. CASE StartCreate(r)
    BY <1>1, <1>5 DEF StartCreate, Labels
<1>6. CASE StartBatch(r)
    BY <1>1, <1>6 DEF StartBatch, Labels
<1>7. CASE StartEdit(r)
    BY <1>1, <1>3, <1>7 DEF StartEdit, Labels
<1>8. CASE StartDelete(r)
    BY <1>1, <1>3, <1>8 DEF StartDelete, Labels
<1>9. CASE StartOther(r)
    BY <1>1, <1>9 DEF StartOther, Labels
<1> QED
    BY <1>2, <1>4, <1>5, <1>6, <1>7, <1>8, <1>9 DEF Arrive

\* A step that only moves a request on, or answers it, keeps the types.
LEMMA TypeProceed ==
    ASSUME TypeInv, NEW r \in Requests, UNCHANGED <<users, convs, gone, born>>,
           events' \subseteq Events, marks' \in [Users -> Nat],
           \/ Finish(r)
           \/ ~At(r, "idle") /\ \E label \in Labels : Goto(r, label)
    PROVE  TypeInv'
<1>1. CASE Finish(r)
    <2>1. req' \in [Requests -> Tasks] /\ OthersSame(r) /\ req'[r] = Idle
        BY <1>1, FinishEffect DEF TypeInv
    <2>2. Busy'
        BY <2>1 DEF TypeInv, Busy, OthersSame, Idle, Task, At
    <2> QED
        BY <2>1, <2>2 DEF TypeInv, TypeOK
<1>2. CASE ~At(r, "idle") /\ \E label \in Labels : Goto(r, label)
    <2>1. PICK label \in Labels :
            /\ req' \in [Requests -> Tasks] /\ OthersSame(r)
            /\ req'[r] = [req[r] EXCEPT !.at = label]
        BY <1>2, GotoEffect DEF TypeInv
    <2>2. req'[r].user = req[r].user
        BY <2>1 DEF TypeInv, TypeOK, Tasks
    <2>3. Busy'
        BY <1>2, <2>1, <2>2 DEF TypeInv, Busy, OthersSame, At
    <2> QED
        BY <2>1, <2>3 DEF TypeInv, TypeOK
<1> QED
    BY <1>1, <1>2

\* A request that inserts conversions keeps the types.
LEMMA TypeInsert ==
    ASSUME TypeInv, NEW r \in Requests, ~At(r, "idle"),
           NEW accounts \in SUBSET Accounts, NEW label \in Labels,
           Insert(r, accounts, label)
    PROVE  TypeInv'
<1>1. PICK f \in [accounts -> Ids \ born] : Inserts(r, accounts, label, f)
    BY InsertEffect DEF TypeInv
<1>2. req[r].user \in Users /\ req[r] \in Tasks
    BY DEF TypeInv, TypeOK, Busy
<1>3. RowsOf(req[r].user, f) \subseteq Rows
    BY <1>2 DEF RowsOf, Rows
<1>4. req'[r].user = req[r].user
    BY <1>1, <1>2 DEF Tasks, Inserts
<1>5. Busy'
    BY <1>1, <1>2, <1>4 DEF TypeInv, Busy, OthersSame, At, Inserts
<1>6. UNCHANGED <<users, events, marks, gone>>
    BY DEF Insert
<1> QED
    BY <1>1, <1>3, <1>5, <1>6 DEF TypeInv, TypeOK, Inserts

\* A request that moves or removes conversions keeps the types.
LEMMA TypeFreed ==
    ASSUME TypeInv, NEW r \in Requests, NEW accounts \in SUBSET Accounts,
           ~At(r, "idle"), convs' \subseteq Rows,
           UNCHANGED <<users, events, marks, gone, born>>,
           req' = [Freed(req[r].user, accounts) EXCEPT ![r].at = "log"]
    PROVE  TypeInv'
<1>1. /\ req' \in [Requests -> Tasks]
      /\ req'[r] = [req[r] EXCEPT !.at = "log",
                                  !.freed = req[r].freed \cup accounts]
      /\ \A s \in Requests \ {r} :
            req'[s] = [req[s] EXCEPT !.freed =
                           IF req[s].user = req[r].user
                           THEN req[s].freed \cup accounts
                           ELSE req[s].freed]
    BY FreedEffect DEF TypeInv, Labels
<1>2. \A s \in Requests : req[s] \in Tasks
    BY DEF TypeInv, TypeOK
<1>3. \A s \in Requests : req'[s].user = req[s].user
    BY <1>1, <1>2 DEF Tasks
<1>4. \A s \in Requests \ {r} : req'[s].at = req[s].at
    BY <1>1, <1>2 DEF Tasks
<1>5. Busy'
    BY <1>3, <1>4 DEF TypeInv, Busy, At
<1> QED
    BY <1>1, <1>5 DEF TypeInv, TypeOK

\* A step of a request keeps the types.
LEMMA TypeStep ==
    ASSUME TypeInv, NEW r \in Requests, Step(r)
    PROVE  TypeInv'
<1>1. /\ users \subseteq Users /\ convs \subseteq Rows /\ events \subseteq Events
      /\ marks \in [Users -> Nat] /\ gone \subseteq Users /\ born \subseteq Ids
      /\ req[r] \in Tasks
    BY DEF TypeInv, TypeOK
<1>2. req[r].todo \subseteq Accounts
    BY <1>1 DEF Tasks
<1> USE DEF At, dbVars, Labels
<1>3. CASE CheckFree(r)
    BY <1>1, <1>3, TypeProceed DEF CheckFree
<1>4. CASE LookupFails(r)
    BY <1>1, <1>4, TypeProceed DEF LookupFails
<1>5. CASE InsertOne(r)
    BY <1>2, <1>5, TypeInsert DEF InsertOne
<1>6. CASE InsertRefused(r)
    BY <1>1, <1>6, TypeProceed DEF InsertRefused
<1>7. CASE SelectBatch(r)
    <2>1. PICK S \in SUBSET req[r].todo :
            IF S = {}
            THEN Finish(r)
            ELSE req' = [req EXCEPT ![r].at = "bulk", ![r].todo = S, ![r].wanted = S]
        BY <1>7 DEF SelectBatch
    <2>2. CASE S = {}
        BY <1>1, <1>7, <2>1, <2>2, TypeProceed DEF SelectBatch
    <2>3. CASE S # {}
        <3> DEFINE task == [req[r] EXCEPT !.at = "bulk", !.todo = S, !.wanted = S]
        <3>1. task \in Tasks /\ task.user = req[r].user
            BY <1>1, <1>2 DEF Tasks
        <3>2. req' = [req EXCEPT ![r] = task]
            BY <1>1, <2>1, <2>3 DEF TypeInv, TypeOK, Tasks
        <3> HIDE DEF task
        <3>3. TypeOK'
            BY <1>7, <3>1, <3>2 DEF TypeInv, TypeOK, SelectBatch
        <3>4. Busy'
            BY <1>7, <3>1, <3>2 DEF TypeInv, TypeOK, Busy, SelectBatch
        <3> QED
            BY <3>3, <3>4 DEF TypeInv
    <2> QED
        BY <2>2, <2>3
<1>8. CASE InsertBatch(r)
    BY <1>2, <1>8, TypeInsert DEF InsertBatch
<1>9. CASE RollBackBatch(r)
    BY <1>1, <1>9, TypeProceed DEF RollBackBatch
<1>10. CASE InsertSingle(r)
    BY <1>2, <1>10, TypeInsert DEF InsertSingle
<1>11. CASE SkipCollision(r)
    <2>1. PICK a \in req[r].todo : req' = [req EXCEPT ![r].todo = @ \ {a}]
        BY <1>11 DEF SkipCollision
    <2> DEFINE task == [req[r] EXCEPT !.todo = req[r].todo \ {a}]
    <2>2. task \in Tasks /\ task.user = req[r].user
        BY <1>1, <1>2 DEF Tasks
    <2>3. req' = [req EXCEPT ![r] = task]
        BY <1>1, <2>1 DEF TypeInv, TypeOK, Tasks
    <2> HIDE DEF task
    <2>4. TypeOK'
        BY <1>11, <2>2, <2>3 DEF TypeInv, TypeOK, SkipCollision
    <2>5. Busy'
        BY <1>11, <2>2, <2>3 DEF TypeInv, TypeOK, Busy, SkipCollision
    <2> QED
        BY <2>4, <2>5 DEF TypeInv
<1>12. CASE BatchUserGone(r)
    BY <1>1, <1>12, TypeProceed DEF BatchUserGone
<1>13. CASE EndFallback(r)
    BY <1>1, <1>13, TypeProceed DEF EndFallback
<1>14. CASE FindConversion(r)
    BY <1>1, <1>14, TypeProceed DEF FindConversion
<1>15. CASE UpdateConversion(r)
    <2> DEFINE old == {c \in Mine(r) : c.id \in req[r].target}
    <2>1. PICK a \in req[r].todo :
            /\ convs' = (convs \ old) \cup {[c EXCEPT !.account = a] : c \in old}
            /\ req' = [Freed(req[r].user, {c.account : c \in old})
                          EXCEPT ![r].at = "log"]
        BY <1>15 DEF UpdateConversion
    <2>2. old \subseteq Rows
        BY <1>1 DEF Mine, Of
    <2> HIDE DEF old
    <2>3. {c.account : c \in old} \subseteq Accounts
        BY <2>2 DEF Rows
    <2>4. {[c EXCEPT !.account = a] : c \in old} \subseteq Rows
        BY <1>2, <2>2 DEF Rows
    <2> QED
        BY <1>1, <1>15, <2>1, <2>3, <2>4, TypeFreed DEF UpdateConversion
<1>16. CASE UpdateRefused(r)
    BY <1>1, <1>16, TypeProceed DEF UpdateRefused
<1>17. CASE RemoveConversions(r)
    <2> DEFINE old == {c \in Mine(r) : c.id \in req[r].target}
    <2>1. /\ convs' = convs \ old
          /\ req' = [Freed(req[r].user, {c.account : c \in old})
                        EXCEPT ![r].at = "log"]
        BY <1>17 DEF RemoveConversions
    <2>2. old \subseteq Rows
        BY <1>1 DEF Mine, Of
    <2> HIDE DEF old
    <2>3. {c.account : c \in old} \subseteq Accounts
        BY <2>2 DEF Rows
    <2> QED
        BY <1>1, <1>17, <2>1, <2>3, TypeFreed DEF RemoveConversions
<1>18. CASE RecordEvent(r)
    <2>1. req[r].user \in Users
        BY <1>18 DEF TypeInv, Busy, RecordEvent
    <2>2. Logged(r) \subseteq Events
        BY <1>1, <2>1 DEF Logged, TheEvent, Events, Tasks
    <2> QED
        BY <1>1, <1>18, <2>2, TypeProceed DEF RecordEvent
<1>19. CASE VerifyPassword(r)
    BY <1>1, <1>19, TypeProceed DEF VerifyPassword
<1>20. CASE EraseUser(r)
    <2>1. req[r].user \in Users
        BY <1>20 DEF TypeInv, Busy, EraseUser
    <2>2. /\ req' \in [Requests -> Tasks] /\ OthersSame(r)
          /\ req'[r] \in {Idle, [req[r] EXCEPT !.at = "mark"]}
        BY <1>20, FinishEffect, GotoEffect DEF TypeInv, EraseUser
    <2>3. Busy'
        BY <1>1, <2>1, <2>2 DEF TypeInv, Busy, OthersSame, Idle, Task, Tasks
    <2> QED
        BY <1>1, <1>20, <2>1, <2>2, <2>3 DEF TypeInv, TypeOK, EraseUser
<1>21. CASE MarkDeleted(r)
    <2>1. req[r].user \in Users
        BY <1>21 DEF TypeInv, Busy, MarkDeleted
    <2> QED
        BY <1>1, <1>21, <2>1, TypeProceed DEF MarkDeleted
<1> QED
    BY <1>3, <1>4, <1>5, <1>6, <1>7, <1>8, <1>9, <1>10, <1>11, <1>12, <1>13,
       <1>14, <1>15, <1>16, <1>17, <1>18, <1>19, <1>20, <1>21
    DEF Step

\* A crash keeps the types.
LEMMA TypeCrash ==
    ASSUME TypeInv, Crash
    PROVE  TypeInv'
<1>1. Idle \in Tasks /\ Idle.at = "idle"
    BY DEF Idle, Task, Tasks, Labels
<1>2. /\ req' \in [Requests -> Tasks]
      /\ \A s \in Requests : req'[s] \in {req[s], Idle}
    BY <1>1 DEF TypeInv, TypeOK, Crash, Finish
<1>3. Busy'
    BY <1>1, <1>2 DEF TypeInv, Busy, At
<1> QED
    BY <1>2, <1>3 DEF TypeInv, TypeOK, Crash, dbVars

\* The types are an inductive invariant.
LEMMA TypeInductive ==
    /\ Init => TypeInv
    /\ TypeInv /\ [Next]_vars => TypeInv'
<1>1. ASSUME Init PROVE TypeInv
    <2>1. Idle \in Tasks /\ Idle.at = "idle"
        BY DEF Idle, Task, Tasks, Labels
    <2> QED
        BY <1>1, <2>1 DEF Init, TypeInv, TypeOK, Busy, At
<1>2. ASSUME TypeInv, [Next]_vars PROVE TypeInv'
    <2>1. CASE UNCHANGED vars
        BY <1>2, <2>1 DEF TypeInv, TypeOK, Busy, At, vars, dbVars
    <2>2. CASE Next
        BY <1>2, <2>2, TypeArrive, TypeStep, TypeCrash DEF Next
    <2> QED
        BY <1>2, <2>1, <2>2
<1> QED
    BY <1>1, <1>2

\* The rows, the log and the requests keep their types.
THEOREM TypeCorrect == Spec => []TypeOK
    BY TypeInductive, PTL DEF Spec, TypeInv

-----------------------------------------------------------------------------
(* The rows *)

\* How the rows of conversions can change.
InsertStep(r) ==
    \E accounts \in SUBSET Accounts, label \in Labels :
        Allowed(r, accounts) /\ Insert(r, accounts, label)

\* A step leaves users and conversions alone, or is one of five.
LEMMA RowSteps ==
    ASSUME TypeInv, [Next]_vars
    PROVE  \/ UNCHANGED <<users, convs, gone, born>>
           \/ \E r \in Requests :
                 \/ SignUp(r) \/ InsertStep(r) \/ UpdateConversion(r)
                 \/ RemoveConversions(r) \/ EraseUser(r)
<1>1. CASE UNCHANGED vars
    BY <1>1 DEF vars, dbVars
<1>2. CASE Crash
    BY <1>2 DEF Crash, dbVars
<1>3. ASSUME NEW r \in Requests, Arrive(r)
      PROVE  UNCHANGED <<users, convs, gone, born>> \/ SignUp(r)
    BY <1>3 DEF Arrive, StartErase, StartCreate, StartBatch, StartEdit,
                StartDelete, StartOther, Begin, dbVars
<1>4. ASSUME NEW r \in Requests, Step(r)
      PROVE  \/ UNCHANGED <<users, convs, gone, born>>
             \/ InsertStep(r) \/ UpdateConversion(r)
             \/ RemoveConversions(r) \/ EraseUser(r)
    <2>1. req[r].todo \subseteq Accounts
        BY DEF TypeInv, TypeOK, Tasks
    <2>2. CASE InsertOne(r) \/ InsertBatch(r)
        BY <2>1, <2>2 DEF InsertOne, InsertBatch, InsertStep, Labels
    <2>3. CASE InsertSingle(r)
        BY <2>1, <2>3 DEF InsertSingle, InsertStep, Labels
    <2>4. CASE \/ CheckFree(r) \/ LookupFails(r) \/ InsertRefused(r)
               \/ SelectBatch(r) \/ RollBackBatch(r) \/ SkipCollision(r)
               \/ BatchUserGone(r) \/ EndFallback(r) \/ FindConversion(r)
               \/ UpdateRefused(r)
        BY <2>4 DEF CheckFree, LookupFails, InsertRefused, SelectBatch,
                    RollBackBatch, SkipCollision, BatchUserGone, EndFallback,
                    FindConversion, UpdateRefused, dbVars
    <2>5. CASE RecordEvent(r) \/ VerifyPassword(r) \/ MarkDeleted(r)
        BY <2>5 DEF RecordEvent, VerifyPassword, MarkDeleted, dbVars
    <2> QED
        BY <1>4, <2>2, <2>3, <2>4, <2>5 DEF Step
<1> QED
    BY <1>1, <1>2, <1>3, <1>4 DEF Next

\* Ids are given out once, and rows belong to users.
RowInv ==
    /\ \A c \in convs : c.id \in born /\ c.user \in users
    /\ \A c, d \in convs : c.id = d.id => c = d
    /\ OnePerAccount

\* An insert keeps the rows apart.
LEMMA RowsInsert ==
    ASSUME TypeInv, RowInv, NEW r \in Requests, InsertStep(r)
    PROVE  RowInv'
<1>1. PICK accounts \in SUBSET Accounts, label \in Labels :
        Allowed(r, accounts) /\ Insert(r, accounts, label)
    BY DEF InsertStep
<1>2. PICK f \in [accounts -> Ids \ born] : Inserts(r, accounts, label, f)
    BY <1>1, InsertEffect DEF TypeInv
<1> DEFINE u == req[r].user
<1>3. /\ convs' = convs \cup RowsOf(u, f)
      /\ born' = born \cup {f[a] : a \in accounts}
      /\ \A a, b \in accounts : f[a] = f[b] => a = b
      /\ users' = users
    BY <1>1, <1>2 DEF Inserts, Insert
<1>4. /\ u \in users
      /\ \A c \in convs : c.user = u => c.account \notin accounts
    BY <1>1 DEF Allowed, Taken, Of
<1>5. \A c \in RowsOf(u, f) :
        /\ c.user = u /\ c.account \in accounts
        /\ c.id = f[c.account] /\ c.id \in born' /\ c.id \notin born
        /\ c = [id |-> f[c.account], user |-> u, account |-> c.account]
    BY <1>3 DEF RowsOf
<1> HIDE DEF u
<1>6. \A c \in convs' : c.id \in born' /\ c.user \in users'
    BY <1>3, <1>4, <1>5 DEF RowInv
<1>7. \A c, d \in convs' : c.id = d.id => c = d
    <2> SUFFICES ASSUME NEW c \in convs', NEW d \in convs', c.id = d.id
                 PROVE  c = d
        OBVIOUS
    <2>1. CASE c \in convs /\ d \in convs
        BY <2>1 DEF RowInv
    <2>2. CASE \/ c \in convs /\ d \in RowsOf(u, f)
               \/ d \in convs /\ c \in RowsOf(u, f)
        BY <1>5, <2>2 DEF RowInv
    <2>3. CASE c \in RowsOf(u, f) /\ d \in RowsOf(u, f)
        <3>1. c.account = d.account
            BY <1>3, <1>5, <2>3
        <3> QED
            BY <1>5, <2>3, <3>1
    <2> QED
        BY <1>3, <2>1, <2>2, <2>3
<1>8. OnePerAccount'
    <2> SUFFICES ASSUME NEW c \in convs', NEW d \in convs',
                        c.user = d.user, c.account = d.account
                 PROVE  c = d
        BY DEF OnePerAccount
    <2>1. CASE c \in convs /\ d \in convs
        BY <2>1 DEF RowInv, OnePerAccount
    <2>2. CASE \/ c \in convs /\ d \in RowsOf(u, f)
               \/ d \in convs /\ c \in RowsOf(u, f)
        BY <1>4, <1>5, <2>2
    <2>3. CASE c \in RowsOf(u, f) /\ d \in RowsOf(u, f)
        BY <1>5, <2>3
    <2> QED
        BY <1>3, <2>1, <2>2, <2>3
<1> QED
    BY <1>6, <1>7, <1>8 DEF RowInv

\* An edit moves one row to an account that no other row of its user has.
LEMMA RowsUpdate ==
    ASSUME TypeInv, RowInv, NEW r \in Requests, UpdateConversion(r),
           \E id \in Ids : req[r].target \subseteq {id}
    PROVE  RowInv'
<1> DEFINE u == req[r].user
           old == {c \in Mine(r) : c.id \in req[r].target}
<1>1. PICK a \in req[r].todo :
        /\ old = {} \/ \A c \in Mine(r) \ old : c.account # a
        /\ convs' = (convs \ old) \cup {[c EXCEPT !.account = a] : c \in old}
    BY DEF UpdateConversion
<1>2. /\ old \subseteq convs
      /\ \A c \in old : c.user = u
      /\ \A c, d \in old : c = d
    BY DEF Mine, Of, RowInv
<1>3. \A c \in convs : c.user = u => c \in old \/ old = {} \/ c.account # a
    BY <1>1 DEF Mine, Of
<1> HIDE DEF u, old
<1>4. convs \subseteq Rows
    BY DEF TypeInv, TypeOK
<1>5. CASE old = {}
    BY <1>1, <1>5 DEF RowInv, OnePerAccount, UpdateConversion
<1>6. ASSUME NEW o \in old
      PROVE  RowInv'
    <2> DEFINE new == [o EXCEPT !.account = a]
    <2>1. /\ new.id = o.id /\ new.user = u /\ new.account = a
          /\ o \in convs /\ o.user = u
        BY <1>2, <1>4, <1>6 DEF Rows
    <2>2. convs' = (convs \ {o}) \cup {new}
        <3>1. old = {o}
            BY <1>2, <1>6
        <3> QED
            BY <1>1, <3>1
    <2>3. \A c \in convs \ {o} : c.id # o.id /\ (c.user = u => c.account # a)
        BY <1>2, <1>3, <1>6, <2>1 DEF RowInv
    <2>4. users' = users /\ born' = born
        BY DEF UpdateConversion
    <2> HIDE DEF new
    <2> QED
        BY <2>1, <2>2, <2>3, <2>4 DEF RowInv, OnePerAccount
<1> QED
    BY <1>5, <1>6

\* An edit is of one conversion.
EditsOne ==
    \A r \in Requests :
        req[r].at \in {"find", "update"} =>
            \E id \in Ids : req[r].target \subseteq {id}

\* A step keeps edits to one conversion.
LEMMA EditsOneStep ==
    ASSUME TypeInv, EditsOne, [Next]_vars
    PROVE  EditsOne'
<1> SUFFICES ASSUME NEW s \in Requests, req'[s].at \in {"find", "update"}
             PROVE  \E id \in Ids : req'[s].target \subseteq {id}
    BY DEF EditsOne
<1>0. req[s] \in Tasks /\ TypeOK
    BY DEF TypeInv, TypeOK
<1>1. CASE UNCHANGED vars
    BY <1>1 DEF EditsOne, vars
<1>2. CASE Crash
    BY <1>2 DEF EditsOne, Crash, Finish, Idle, Task, TypeInv, TypeOK
<1>3. ASSUME NEW r \in Requests, Arrive(r)
      PROVE  \E id \in Ids : req'[s].target \subseteq {id}
    <2>1. CASE s # r
        BY <1>3, <2>1 DEF EditsOne, TypeInv, TypeOK, Arrive, StartErase, SignUp,
            StartCreate, StartBatch, StartEdit, StartDelete, StartOther, Begin
    <2>2. CASE s = r
        BY <1>3, <2>2 DEF TypeInv, TypeOK, Arrive, StartErase, SignUp,
            StartCreate, StartBatch, StartEdit, StartDelete, StartOther, Begin, Task
    <2> QED
        BY <2>1, <2>2
<1>4. ASSUME NEW r \in Requests, Step(r)
      PROVE  \E id \in Ids : req'[s].target \subseteq {id}
    <2>1. \/ /\ req'[s].at \in {"find", "update"} => req[s].at \in {"find", "update"}
             /\ req'[s].target = req[s].target
          \/ req'[s].at = "idle"
        <3> USE <1>0 DEF At
        <3>1. CASE UpdateConversion(r)
            <4>1. PICK accounts : req' = [Freed(req[r].user, accounts) EXCEPT ![r].at = "log"]
                BY <3>1 DEF UpdateConversion
            <4> QED
                BY <4>1 DEF Freed, TypeOK, Tasks
        <3>2. CASE RemoveConversions(r)
            <4>1. PICK accounts : req' = [Freed(req[r].user, accounts) EXCEPT ![r].at = "log"]
                BY <3>2 DEF RemoveConversions
            <4> QED
                BY <4>1 DEF Freed, TypeOK, Tasks
        <3>3. ASSUME NEW accounts \in SUBSET Accounts, NEW label \in {"log", "single"},
                     Insert(r, accounts, label)
              PROVE  \/ /\ req'[s].at \in {"find", "update"} =>
                               req[s].at \in {"find", "update"}
                        /\ req'[s].target = req[s].target
            <4>1. PICK f \in [accounts -> Ids \ born] : Inserts(r, accounts, label, f)
                BY <3>3, InsertEffect DEF Labels
            <4> QED
                BY <3>3, <4>1 DEF Inserts, OthersSame, TypeOK, Tasks
        <3>4. CASE InsertOne(r) \/ InsertBatch(r) \/ InsertSingle(r)
            <4>1. req[r].todo \subseteq Accounts
                BY DEF TypeOK, Tasks
            <4> QED
                BY <3>3, <3>4, <4>1 DEF InsertOne, InsertBatch, InsertSingle
        <3>5. CASE Finish(r)
            BY <3>5 DEF Finish, TypeOK, Idle, Task
        <3>6. CASE \E label \in Labels : /\ Goto(r, label)
                                         /\ label = "update" => At(r, "find")
                                         /\ label # "find"
            BY <3>6 DEF Goto, TypeOK, Tasks
        <3>7. CASE SelectBatch(r)
            <4>1. ASSUME NEW S,
                         req' = [req EXCEPT ![r].at = "bulk", ![r].todo = S,
                                            ![r].wanted = S]
                  PROVE  /\ req'[s].at \in {"find", "update"} =>
                                req[s].at \in {"find", "update"}
                         /\ req'[s].target = req[s].target
                BY <4>1 DEF TypeOK, Tasks
            <4> QED
                BY <3>5, <3>7, <4>1 DEF SelectBatch
        <3>8. CASE SkipCollision(r)
            BY <3>8 DEF SkipCollision, TypeOK, Tasks
        <3>9. CASE \/ CheckFree(r) \/ LookupFails(r) \/ InsertRefused(r)
                   \/ RollBackBatch(r) \/ BatchUserGone(r) \/ EndFallback(r)
                   \/ FindConversion(r) \/ UpdateRefused(r) \/ RecordEvent(r)
                   \/ VerifyPassword(r) \/ EraseUser(r) \/ MarkDeleted(r)
            BY <3>5, <3>6, <3>9
            DEF CheckFree, LookupFails, InsertRefused, RollBackBatch,
                BatchUserGone, EndFallback, FindConversion, UpdateRefused,
                RecordEvent, VerifyPassword, EraseUser, MarkDeleted, Labels
        <3> QED
            BY <1>4, <3>1, <3>2, <3>4, <3>7, <3>8, <3>9 DEF Step
    <2> QED
        BY <2>1 DEF EditsOne
<1> QED
    BY <1>1, <1>2, <1>3, <1>4 DEF Next

\* A step keeps the rows apart and with their users.
LEMMA RowsStep ==
    ASSUME TypeInv, EditsOne, RowInv, [Next]_vars
    PROVE  RowInv'
<1>1. CASE UNCHANGED <<users, convs, gone, born>>
    BY <1>1 DEF RowInv, OnePerAccount
<1>2. ASSUME NEW r \in Requests, SignUp(r)
      PROVE  RowInv'
    BY <1>2 DEF RowInv, OnePerAccount, SignUp
<1>3. ASSUME NEW r \in Requests, UpdateConversion(r)
      PROVE  RowInv'
    <2>1. \E id \in Ids : req[r].target \subseteq {id}
        BY <1>3 DEF EditsOne, UpdateConversion, At
    <2> QED
        BY <1>3, <2>1, RowsUpdate
<1>4. ASSUME NEW r \in Requests, RemoveConversions(r)
      PROVE  RowInv'
    BY <1>4 DEF RowInv, OnePerAccount, RemoveConversions
<1>5. ASSUME NEW r \in Requests, EraseUser(r)
      PROVE  RowInv'
    BY <1>5 DEF RowInv, OnePerAccount, EraseUser, Mine, Of
<1> QED
    BY <1>1, <1>2, <1>3, <1>4, <1>5, RowSteps, RowsInsert

\* However many creates, batches and edits pass the check together, no user
\* has two conversions of one account.
THEOREM OneConversionPerAccount == Spec => []OnePerAccount
<1> DEFINE Inv == TypeInv /\ EditsOne /\ RowInv
<1>1. Init => Inv
    BY TypeInductive DEF Init, EditsOne, RowInv, OnePerAccount, Idle, Task
<1>2. Inv /\ [Next]_vars => Inv'
    BY TypeInductive, EditsOneStep, RowsStep
<1> QED
    BY <1>1, <1>2, PTL DEF Spec, RowInv

\* The log is only of users: what record_event adds, and what a deletion
\* leaves.
LogOwned == \A e \in events : e.user \in users

LEMMA LogStep ==
    ASSUME TypeInv, LogOwned, [Next]_vars
    PROVE  LogOwned'
<1>1. CASE UNCHANGED vars \/ Crash
    BY <1>1 DEF LogOwned, vars, Crash, dbVars
<1>2. ASSUME NEW r \in Requests, Arrive(r)
      PROVE  LogOwned'
    BY <1>2 DEF LogOwned, Arrive, StartErase, SignUp, StartCreate, StartBatch,
                StartEdit, StartDelete, StartOther, Begin, dbVars
<1>3. ASSUME NEW r \in Requests, Step(r)
      PROVE  LogOwned'
    <2>1. CASE RecordEvent(r)
        BY <2>1 DEF LogOwned, RecordEvent, Logged
    <2>2. CASE EraseUser(r)
        BY <2>2 DEF LogOwned, EraseUser
    <2>3. CASE UNCHANGED <<events, users>>
        BY <2>3 DEF LogOwned
    <2>4. CASE ~RecordEvent(r) /\ ~EraseUser(r)
        BY <1>3, <2>3, <2>4
        DEF Step, CheckFree, LookupFails, InsertOne, Insert, InsertRefused,
            SelectBatch, InsertBatch, RollBackBatch, InsertSingle,
            SkipCollision, BatchUserGone, EndFallback, FindConversion,
            UpdateConversion, UpdateRefused, RemoveConversions,
            VerifyPassword, MarkDeleted, dbVars
    <2> QED
        BY <2>1, <2>2, <2>4
<1> QED
    BY <1>1, <1>2, <1>3 DEF Next

\* No interleaving leaves a conversion or an event of a deleted account.
THEOREM DeletedLeavesNothing == Spec => []NothingOutlivesUser
<1> DEFINE Inv == TypeInv /\ EditsOne /\ RowInv /\ LogOwned
<1>1. Init => Inv
    BY TypeInductive DEF Init, EditsOne, RowInv, OnePerAccount, Idle, Task, LogOwned
<1>2. Inv /\ [Next]_vars => Inv'
    BY TypeInductive, EditsOneStep, RowsStep, LogStep
<1>3. Inv => NothingOutlivesUser
    BY DEF RowInv, LogOwned, NothingOutlivesUser
<1> QED
    BY <1>1, <1>2, <1>3, PTL DEF Spec

-----------------------------------------------------------------------------
(* The markers *)

\* A request without anything done, and one that goes on as it was.
Blank(t) == t.wanted = t.todo /\ t.at # "mark"
Kept(t, later) ==
    /\ later.user = t.user /\ later.wanted = t.wanted /\ later.todo = t.todo
    /\ t.freed \subseteq later.freed
    /\ later.at = "mark" => t.at = "mark"

\* A request that arrives is a new task of a user.
Starts(r, u) ==
    \E label \in {"check", "load", "find", "remove", "log", "erase", "verify"},
       accounts \in SUBSET Accounts, ids \in SUBSET Ids :
          req' = [req EXCEPT ![r] = Task(u, label, accounts, ids)]

LEMMA ArriveEffect ==
    ASSUME TypeOK, NEW r \in Requests, Arrive(r)
    PROVE  \E u \in users' : Starts(r, u)
<1>1. /\ born \subseteq Ids
      /\ {} \in SUBSET Accounts /\ {} \in SUBSET Ids
    BY DEF TypeOK
<1>2. ASSUME NEW u \in users,
             NEW label \in {"check", "load", "find", "remove", "log", "erase", "verify"},
             NEW accounts \in SUBSET Accounts,
             NEW ids \in SUBSET Ids, Begin(r, u, label, accounts, ids)
      PROVE  \E v \in users' : Starts(r, v)
    BY <1>2 DEF Begin, Starts, dbVars
<1>3. CASE SignUp(r)
    BY <1>1, <1>3 DEF SignUp, Starts
<1>4. CASE StartErase(r)
    BY <1>1, <1>2, <1>4 DEF StartErase
<1>5. CASE StartCreate(r)
    BY <1>1, <1>2, <1>5 DEF StartCreate
<1>6. CASE StartBatch(r)
    BY <1>1, <1>2, <1>6 DEF StartBatch
<1>7. CASE StartEdit(r)
    BY <1>1, <1>2, <1>7 DEF StartEdit
<1>8. CASE StartDelete(r)
    BY <1>1, <1>2, <1>8 DEF StartDelete
<1>9. CASE StartOther(r)
    BY <1>1, <1>2, <1>9 DEF StartOther
<1> QED
    BY <1>3, <1>4, <1>5, <1>6, <1>7, <1>8, <1>9 DEF Arrive

\* An update or a removal of conversions frees accounts.
LEMMA RemovalEffect ==
    ASSUME TypeOK, NEW r \in Requests, UpdateConversion(r) \/ RemoveConversions(r)
    PROVE  LET old == {c \in Mine(r) : c.id \in req[r].target} IN
           /\ {c.account : c \in old} \in SUBSET Accounts
           /\ req' = [Freed(req[r].user, {c.account : c \in old})
                         EXCEPT ![r].at = "log"]
<1> DEFINE old == {c \in Mine(r) : c.id \in req[r].target}
<1>1. old \subseteq Rows
    BY DEF Mine, Of, TypeOK
<1>2. req' = [Freed(req[r].user, {c.account : c \in old}) EXCEPT ![r].at = "log"]
    BY DEF UpdateConversion, RemoveConversions
<1> HIDE DEF old
<1>3. {c.account : c \in old} \in SUBSET Accounts
    BY <1>1 DEF Rows
<1> QED
    BY <1>2, <1>3 DEF old

\* All but four kinds of step leave every request as it was, or blank.
LEMMA Evolution ==
    ASSUME TypeInv, [Next]_vars
    PROVE  \/ \A s \in Requests : Blank(req'[s]) \/ Kept(req[s], req'[s])
           \/ \E r \in Requests :
                 \/ SelectBatch(r) \/ SkipCollision(r) \/ EraseUser(r)
                 \/ InsertOne(r) \/ InsertBatch(r) \/ InsertSingle(r)
<1>0. TypeOK /\ \A s \in Requests : req[s] \in Tasks
    BY DEF TypeInv, TypeOK
<1>1. Blank(Idle)
    BY DEF Blank, Idle, Task
<1>2. ASSUME UNCHANGED req
      PROVE  \A s \in Requests : Kept(req[s], req'[s])
    BY <1>2 DEF Kept
<1>3. CASE Crash
    BY <1>0, <1>1, <1>3 DEF Crash, Finish, Kept, TypeOK
<1>4. ASSUME NEW r \in Requests, Arrive(r)
      PROVE  \A s \in Requests : Blank(req'[s]) \/ Kept(req[s], req'[s])
    <2>1. PICK u \in users' : Starts(r, u)
        BY <1>0, <1>4, ArriveEffect
    <2> QED
        BY <1>0, <2>1 DEF Starts, Blank, Kept, Task, TypeOK
<1>5. ASSUME NEW r \in Requests, Step(r), ~SelectBatch(r), ~SkipCollision(r),
             ~InsertOne(r), ~InsertBatch(r), ~InsertSingle(r), ~EraseUser(r)
      PROVE  \A s \in Requests : Blank(req'[s]) \/ Kept(req[s], req'[s])
    <2>1. CASE Finish(r)
        BY <1>0, <1>1, <2>1 DEF Finish, Kept, TypeOK
    <2>2. ASSUME NEW label \in Labels \ {"mark"}, Goto(r, label)
          PROVE  \A s \in Requests : Kept(req[s], req'[s])
        BY <1>0, <2>2 DEF Goto, Kept, TypeOK, Tasks
    <2>3. ASSUME NEW accounts \in SUBSET Accounts,
                 req' = [Freed(req[r].user, accounts) EXCEPT ![r].at = "log"]
          PROVE  \A s \in Requests : Kept(req[s], req'[s])
        <3>1. /\ req'[r] = [req[r] EXCEPT !.at = "log",
                                          !.freed = req[r].freed \cup accounts]
              /\ \A s \in Requests \ {r} :
                    req'[s] = [req[s] EXCEPT !.freed =
                                   IF req[s].user = req[r].user
                                   THEN req[s].freed \cup accounts
                                   ELSE req[s].freed]
            <4>1. "log" \in Labels
                BY DEF Labels
            <4> QED
                BY <1>0, <2>3, <4>1, FreedEffect
        <3>2. Kept(req[r], req'[r])
            BY <1>0, <3>1 DEF Kept, Tasks
        <3>3. ASSUME NEW s \in Requests \ {r}
              PROVE  Kept(req[s], req'[s])
            <4>1. CASE req[s].user = req[r].user
                <5>1. req'[s] = [req[s] EXCEPT !.freed = req[s].freed \cup accounts]
                    BY <3>1, <4>1
                <5> QED
                    BY <1>0, <5>1 DEF Kept, Tasks
            <4>2. CASE req[s].user # req[r].user
                <5>1. req'[s] = [req[s] EXCEPT !.freed = req[s].freed]
                    BY <3>1, <4>2
                <5> QED
                    BY <1>0, <5>1 DEF Kept, Tasks
            <4> QED
                BY <4>1, <4>2
        <3> QED
            BY <3>2, <3>3
    <2>5. CASE UpdateConversion(r) \/ RemoveConversions(r)
        BY <1>0, <2>3, <2>5, RemovalEffect
    <2>6. CASE ~UpdateConversion(r) /\ ~RemoveConversions(r)
        BY <1>5, <2>1, <2>2, <2>6
        DEF Step, CheckFree, LookupFails, InsertRefused, RollBackBatch,
            BatchUserGone, EndFallback, FindConversion, UpdateRefused,
            RecordEvent, VerifyPassword, MarkDeleted, Labels
    <2> QED
        BY <2>5, <2>6
<1> QED
    BY <1>2, <1>3, <1>4, <1>5 DEF Next, vars

\* Requests are of users that exist or existed; users do not come back.
Known ==
    /\ users \cap gone = {}
    /\ \A s \in Requests : req[s].user \in users \cup gone \cup {NoUser}

\* Whoever is about to write a marker has deleted the user, and nobody else
\* has.
MarkInv ==
    /\ \A u \in Users : marks[u] \in {0, 1} /\ (marks[u] = 1 => u \in gone)
    /\ \A s \in Requests :
          At(s, "mark") => req[s].user \in gone /\ marks[req[s].user] = 0
    /\ \A s, t \in Requests :
          At(s, "mark") /\ At(t, "mark") /\ s # t => req[s].user # req[t].user

\* A step keeps users and requests together.
LEMMA KnownStep ==
    ASSUME TypeInv, Known, [Next]_vars
    PROVE  Known'
<1>0. TypeOK /\ \A s \in Requests : req[s] \in Tasks
    BY DEF TypeInv, TypeOK
<1>1. \/ UNCHANGED <<users, gone>>
      \/ \E r \in Requests : SignUp(r) \/ EraseUser(r)
    <2>1. ASSUME NEW r \in Requests, InsertStep(r)
          PROVE  UNCHANGED <<users, gone>>
        BY <2>1 DEF InsertStep, Insert
    <2>2. ASSUME NEW r \in Requests, UpdateConversion(r) \/ RemoveConversions(r)
          PROVE  UNCHANGED <<users, gone>>
        BY <2>2 DEF UpdateConversion, RemoveConversions
    <2> QED
        BY <2>1, <2>2, RowSteps
<1>2. users \cup gone \subseteq (users \cup gone)' /\ (users \cap gone)' = {}
    <2>1. CASE UNCHANGED <<users, gone>>
        BY <2>1 DEF Known
    <2>2. ASSUME NEW r \in Requests, SignUp(r)
          PROVE  users \cup gone \subseteq (users \cup gone)' /\ (users \cap gone)' = {}
        BY <2>2 DEF Known, SignUp
    <2>3. ASSUME NEW r \in Requests, EraseUser(r)
          PROVE  users \cup gone \subseteq (users \cup gone)' /\ (users \cap gone)' = {}
        BY <2>3 DEF Known, EraseUser
    <2> QED
        BY <1>1, <2>1, <2>2, <2>3
<1>3. ASSUME NEW s \in Requests
      PROVE  req'[s].user \in {req[s].user, NoUser} \cup users'
    <2>1. CASE UNCHANGED req
        BY <2>1
    <2>2. CASE Crash
        BY <1>0, <2>2 DEF Crash, Finish, Idle, Task, TypeOK
    <2>3. ASSUME NEW r \in Requests, Arrive(r)
          PROVE  req'[s].user \in {req[s].user, NoUser} \cup users'
        <3>1. PICK u \in users' : Starts(r, u)
            BY <1>0, <2>3, ArriveEffect
        <3> QED
            BY <1>0, <3>1 DEF Starts, Task, TypeOK
    <2>4. ASSUME NEW r \in Requests, InsertStep(r)
          PROVE  req'[s].user = req[s].user
        <3>0. PICK accounts \in SUBSET Accounts, label \in Labels :
                Insert(r, accounts, label)
            BY <2>4 DEF InsertStep
        <3>1. PICK f \in [accounts -> Ids \ born] : Inserts(r, accounts, label, f)
            BY <1>0, <3>0, InsertEffect
        <3>2. CASE s = r
            BY <1>0, <3>1, <3>2 DEF Inserts, Tasks
        <3>3. CASE s # r
            BY <3>1, <3>3 DEF Inserts, OthersSame
        <3> QED
            BY <3>2, <3>3
    <2>5. ASSUME NEW r \in Requests, SelectBatch(r) \/ SkipCollision(r)
          PROVE  req'[s].user \in {req[s].user, NoUser}
        <3>1. CASE Finish(r)
            BY <1>0, <3>1 DEF Finish, Idle, Task, TypeOK
        <3>2. ASSUME NEW S,
                     req' = [req EXCEPT ![r].at = "bulk", ![r].todo = S, ![r].wanted = S]
              PROVE  req'[s].user = req[s].user
            BY <1>0, <3>2 DEF TypeOK, Tasks
        <3>3. CASE SkipCollision(r)
            BY <1>0, <3>3 DEF SkipCollision, TypeOK, Tasks
        <3> QED
            BY <2>5, <3>1, <3>2, <3>3 DEF SelectBatch
    <2>6. ASSUME NEW r \in Requests, EraseUser(r)
          PROVE  req'[s].user \in {req[s].user, NoUser}
        BY <1>0, <2>6 DEF EraseUser, Goto, Finish, Idle, Task, TypeOK, Tasks
    <2>7. ASSUME NEW r \in Requests, Step(r), ~InsertStep(r), ~SelectBatch(r),
                 ~SkipCollision(r), ~EraseUser(r)
          PROVE  req'[s].user \in {req[s].user, NoUser}
        <3>1. CASE Finish(r)
            BY <1>0, <3>1 DEF Finish, Idle, Task, TypeOK
        <3>2. ASSUME NEW label, Goto(r, label)
              PROVE  req'[s].user = req[s].user
            BY <1>0, <3>2 DEF Goto, TypeOK, Tasks
        <3>3. ASSUME NEW accounts,
                     req' = [Freed(req[r].user, accounts) EXCEPT ![r].at = "log"]
              PROVE  req'[s].user = req[s].user
            BY <1>0, <3>3 DEF Freed, TypeOK, Tasks
        <3>4. CASE InsertOne(r) \/ InsertBatch(r) \/ InsertSingle(r)
            <4>1. req[r].todo \subseteq Accounts
                BY <1>0 DEF Tasks
            <4> QED
                BY <2>7, <3>4, <4>1
                DEF InsertOne, InsertBatch, InsertSingle, InsertStep, Labels
        <3> QED
            BY <2>7, <3>1, <3>2, <3>3, <3>4
            DEF Step, CheckFree, LookupFails, InsertRefused, RollBackBatch,
                BatchUserGone, EndFallback, FindConversion, UpdateConversion,
                UpdateRefused, RemoveConversions, RecordEvent, VerifyPassword,
                MarkDeleted
    <2> QED
        BY <2>1, <2>2, <2>3, <2>4, <2>5, <2>6, <2>7 DEF Next, vars
<1> QED
    BY <1>2, <1>3 DEF Known

\* Steps that are not a deletion put nobody before the writing of a marker.
LEMMA MarkingKept ==
    ASSUME TypeInv, [Next]_vars, NEW s \in Requests, At(s, "mark")',
           \A r \in Requests : ~EraseUser(r)
    PROVE  At(s, "mark") /\ req'[s].user = req[s].user
<1>0. TypeOK /\ \A t \in Requests : req[t] \in Tasks
    BY DEF TypeInv, TypeOK
<1>1. CASE Blank(req'[s]) \/ Kept(req[s], req'[s])
    BY <1>1 DEF Blank, Kept, At
<1>2. ASSUME NEW r \in Requests, SelectBatch(r)
      PROVE  At(s, "mark") /\ req'[s].user = req[s].user
    <2>1. CASE Finish(r)
        BY <1>0, <2>1 DEF Finish, Idle, Task, At, TypeOK
    <2>2. ASSUME NEW S,
                 req' = [req EXCEPT ![r].at = "bulk", ![r].todo = S, ![r].wanted = S]
          PROVE  At(s, "mark") /\ req'[s].user = req[s].user
        BY <1>0, <2>2 DEF At, TypeOK, Tasks
    <2> QED
        BY <1>2, <2>1, <2>2 DEF SelectBatch
<1>3. ASSUME NEW r \in Requests, SkipCollision(r)
      PROVE  At(s, "mark") /\ req'[s].user = req[s].user
    BY <1>0, <1>3 DEF SkipCollision, At, TypeOK, Tasks
<1>4. ASSUME NEW r \in Requests, InsertOne(r) \/ InsertBatch(r) \/ InsertSingle(r)
      PROVE  At(s, "mark") /\ req'[s].user = req[s].user
    <2>1. PICK accounts \in SUBSET Accounts, label \in {"log", "single"} :
            Insert(r, accounts, label)
        BY <1>0, <1>4 DEF InsertOne, InsertBatch, InsertSingle, Tasks
    <2>2. PICK f \in [accounts -> Ids \ born] : Inserts(r, accounts, label, f)
        BY <1>0, <2>1, InsertEffect DEF Labels
    <2>3. s # r
        BY <1>0, <2>2 DEF Inserts, At, Tasks
    <2> QED
        BY <2>2, <2>3 DEF Inserts, OthersSame, At
<1> QED
    BY <1>1, <1>2, <1>3, <1>4, Evolution


LEMMA MarkStep ==
    ASSUME TypeInv, Known, MarkInv, [Next]_vars
    PROVE  MarkInv'
<1>0. TypeOK /\ NoUser \notin Users /\ \A s \in Requests : req[s] \in Tasks
    BY UserAssumption DEF TypeInv, TypeOK
<1>1. ASSUME NEW r \in Requests, MarkDeleted(r)
      PROVE  MarkInv'
    <2>1. req[r].user \in gone /\ marks[req[r].user] = 0 /\ At(r, "mark")
        BY <1>1 DEF MarkDeleted, MarkInv
    <2>2. /\ \A s \in Requests : At(s, "mark")' =>
                s # r /\ At(s, "mark") /\ req'[s].user = req[s].user
        BY <1>0, <1>1 DEF MarkDeleted, Finish, Idle, Task, At, TypeOK
    <2>3. gone' = gone /\ gone \subseteq Users
        BY <1>0, <1>1 DEF MarkDeleted, TypeOK
    <2>4. CASE marks' = marks
        BY <2>2, <2>3, <2>4 DEF MarkInv, At
    <2>5. CASE marks' = [marks EXCEPT ![req[r].user] = @ + 1]
        <3>1. /\ \A u \in Users \ {req[r].user} : marks'[u] = marks[u]
              /\ marks'[req[r].user] = 1
            BY <1>0, <2>1, <2>3, <2>5 DEF TypeOK
        <3>2. \A u \in Users : marks'[u] \in {0, 1} /\ (marks'[u] = 1 => u \in gone')
            BY <2>1, <2>3, <3>1 DEF MarkInv
        <3>3. ASSUME NEW s \in Requests, At(s, "mark")'
              PROVE  req'[s].user \in gone' /\ marks'[req'[s].user] = 0
            <4>1. req[s].user # req[r].user
                BY <2>1, <2>2, <3>3 DEF MarkInv
            <4> QED
                BY <2>2, <2>3, <3>1, <3>3, <4>1 DEF MarkInv
        <3>4. ASSUME NEW s \in Requests, NEW t \in Requests,
                     At(s, "mark")', At(t, "mark")', s # t
              PROVE  req'[s].user # req'[t].user
            BY <2>2, <3>4 DEF MarkInv
        <3> QED
            BY <3>2, <3>3, <3>4 DEF MarkInv, At
    <2> QED
        BY <1>1, <2>4, <2>5 DEF MarkDeleted
<1>2. ASSUME NEW r \in Requests, EraseUser(r)
      PROVE  MarkInv'
    <2>1. marks' = marks /\ gone' = gone \cup {req[r].user}
        BY <1>2 DEF EraseUser
    <2>2. \A s \in Requests \ {r} : req'[s] = req[s]
        BY <1>0, <1>2 DEF EraseUser, Goto, Finish, TypeOK
    <2>3. \A u \in Users : marks'[u] \in {0, 1} /\ (marks'[u] = 1 => u \in gone')
        BY <2>1 DEF MarkInv
    <2>4. CASE ~At(r, "mark")'
        BY <2>1, <2>2, <2>3, <2>4 DEF MarkInv, At
    <2>5. CASE At(r, "mark")'
        <3>1. req[r].user \in users /\ req'[r].user = req[r].user
            BY <1>0, <1>2, <2>5
            DEF EraseUser, Goto, Finish, Idle, Task, At, TypeOK, Tasks, NeedsMark
        <3>2. req[r].user \notin gone /\ req[r].user \in Users
            BY <1>0, <3>1 DEF Known, TypeOK
        <3>3. marks[req[r].user] = 0
            BY <3>2 DEF MarkInv
        <3>4. \A s \in Requests \ {r} :
                 At(s, "mark")' => req'[s].user \in gone /\ req'[s].user # req[r].user
            BY <2>2, <3>2 DEF MarkInv, At
        <3>5. \A s \in Requests : At(s, "mark")' =>
                 req'[s].user \in gone' /\ marks'[req'[s].user] = 0
            BY <2>1, <2>2, <3>1, <3>3, <3>4 DEF MarkInv, At
        <3>6. ASSUME NEW s \in Requests, NEW t \in Requests,
                     At(s, "mark")', At(t, "mark")', s # t
              PROVE  req'[s].user # req'[t].user
            BY <2>2, <3>1, <3>4, <3>6 DEF MarkInv, At
        <3> QED
            BY <2>3, <3>5, <3>6 DEF MarkInv, At
    <2> QED
        BY <2>4, <2>5
<1>3. CASE \A r \in Requests : ~MarkDeleted(r) /\ ~EraseUser(r)
    <2>1. UNCHANGED <<marks, gone>>
        <3>1. ASSUME NEW r \in Requests, Arrive(r)
              PROVE  UNCHANGED <<marks, gone>>
            BY <3>1 DEF Arrive, StartErase, SignUp, StartCreate, StartBatch,
                        StartEdit, StartDelete, StartOther, Begin, dbVars
        <3>2. ASSUME NEW r \in Requests, Step(r)
              PROVE  UNCHANGED <<marks, gone>>
            BY <1>3, <3>2
            DEF Step, CheckFree, LookupFails, InsertOne, Insert, InsertRefused,
                SelectBatch, InsertBatch, RollBackBatch, InsertSingle,
                SkipCollision, BatchUserGone, EndFallback, FindConversion,
                UpdateConversion, UpdateRefused, RemoveConversions, RecordEvent,
                VerifyPassword, dbVars
        <3> QED
            BY <3>1, <3>2 DEF Next, vars, dbVars, Crash
    <2>2. \A s \in Requests : At(s, "mark")' =>
             At(s, "mark") /\ req'[s].user = req[s].user
        BY <1>3, MarkingKept
    <2> QED
        BY <2>1, <2>2 DEF MarkInv, At
<1> QED
    BY <1>1, <1>2, <1>3

\* No account deleted twice at once, from two tabs or a tab and the command
\* line, gets two markers, and none that is still there has one.
THEOREM MarkedOnce == Spec => []OneMarker
<1> DEFINE Inv == TypeInv /\ Known /\ MarkInv
<1>1. Init => Inv
    BY TypeInductive DEF Init, Known, MarkInv, Idle, Task, At
<1>2. Inv /\ [Next]_vars => Inv'
    BY TypeInductive, KnownStep, MarkStep
<1>3. Inv => OneMarker
    <2> SUFFICES ASSUME Inv, NEW u \in Users
                 PROVE  marks[u] <= 1 /\ (marks[u] = 1 => u \notin users)
        BY DEF OneMarker
    <2>1. marks[u] \in {0, 1} /\ (marks[u] = 1 => u \in gone)
        BY DEF MarkInv
    <2>2. users \cap gone = {}
        BY DEF Known
    <2> QED
        BY <2>1, <2>2
<1> QED
    BY <1>1, <1>2, <1>3, PTL DEF Spec

-----------------------------------------------------------------------------
(* What a create or a batch has dealt with *)

\* A conversion of u for the account, after the step.
Later(u, a) == \E c \in convs' : c.user = u /\ c.account = a

\* A request that works on, with all its accounts still to do or as they were.
WorksOn(t, later) ==
    \/ later.wanted = later.todo
    \/ /\ later.user = t.user /\ later.wanted = t.wanted /\ later.todo = t.todo
       /\ t.freed \subseteq later.freed

\* Conversions that are updated or removed are of accounts noted as freed.
LEMMA ServedAfterRemoval ==
    ASSUME TypeInv, EveryAccountServed, NEW r \in Requests,
           UpdateConversion(r) \/ RemoveConversions(r)
    PROVE  EveryAccountServed'
<1> DEFINE u == req[r].user
           old == {c \in Mine(r) : c.id \in req[r].target}
           accounts == {c.account : c \in old}
<1>0. TypeOK /\ \A s \in Requests : req[s] \in Tasks
    BY DEF TypeInv, TypeOK
<1>1. accounts \in SUBSET Accounts /\ req' = [Freed(u, accounts) EXCEPT ![r].at = "log"]
    BY <1>0, RemovalEffect
<1>2. users' = users /\ convs \ old \subseteq convs'
    BY DEF UpdateConversion, RemoveConversions
<1>3. \A c \in old : c.user = u /\ c.account \in accounts
    BY DEF Mine, Of
<1> HIDE DEF u, old, accounts
<1>4. \A v, a : Taken(v, a) => Later(v, a) \/ (v = u /\ a \in accounts)
    BY <1>2, <1>3 DEF Taken, Of, Later
<1>5. "log" \in Labels
    BY DEF Labels
<1>6. /\ req'[r] = [req[r] EXCEPT !.at = "log", !.freed = req[r].freed \cup accounts]
      /\ \A s \in Requests \ {r} :
            req'[s] = [req[s] EXCEPT !.freed = IF req[s].user = u
                                               THEN req[s].freed \cup accounts
                                               ELSE req[s].freed]
    BY <1>0, <1>1, <1>5, FreedEffect DEF u
<1>7. ASSUME NEW s \in Requests
      PROVE  /\ req'[s].user = req[s].user /\ req'[s].wanted = req[s].wanted
             /\ req'[s].todo = req[s].todo /\ req[s].freed \subseteq req'[s].freed
             /\ req[s].user = u => accounts \subseteq req'[s].freed
    <2>1. CASE s = r
        <3>1. req'[s] = [req[s] EXCEPT !.at = "log", !.freed = req[s].freed \cup accounts]
            BY <1>6, <2>1
        <3> QED
            BY <1>0, <3>1 DEF Tasks
    <2>2. CASE s # r /\ req[s].user = u
        <3>1. req'[s] = [req[s] EXCEPT !.freed = req[s].freed \cup accounts]
            BY <1>6, <2>2
        <3> QED
            BY <1>0, <3>1 DEF Tasks
    <2>3. CASE s # r /\ req[s].user # u
        <3>1. req'[s] = [req[s] EXCEPT !.freed = req[s].freed]
            BY <1>6, <2>3
        <3> QED
            BY <1>0, <2>3, <3>1 DEF Tasks
    <2> QED
        BY <2>1, <2>2, <2>3
<1>8. ASSUME NEW s \in Requests, req'[s].user \in users',
             NEW a \in req'[s].wanted \ req'[s].todo
      PROVE  Later(req'[s].user, a) \/ a \in req'[s].freed
    <2>1. Taken(req[s].user, a) \/ a \in req[s].freed
        BY <1>2, <1>7, <1>8 DEF EveryAccountServed
    <2>2. CASE a \in req[s].freed
        BY <1>7, <2>2
    <2>3. CASE Taken(req[s].user, a)
        <3>1. Later(req[s].user, a) \/ (req[s].user = u /\ a \in accounts)
            BY <1>4, <2>3
        <3> QED
            BY <1>7, <3>1
    <2> QED
        BY <2>1, <2>2, <2>3
<1> QED
    BY <1>8 DEF EveryAccountServed, Taken, Of, Later

\* Nothing else takes a conversion from a user who stays.
LEMMA TakenStays ==
    ASSUME TypeInv, [Next]_vars, NEW u \in users', u \in users, NEW a,
           \A r \in Requests : ~UpdateConversion(r) /\ ~RemoveConversions(r),
           Taken(u, a)
    PROVE  Later(u, a)
<1>1. PICK c \in convs : c.user = u /\ c.account = a
    BY DEF Taken, Of
<1>2. c \in convs'
    <2>1. CASE convs' = convs
        BY <2>1
    <2>2. ASSUME NEW r \in Requests, InsertStep(r)
          PROVE  c \in convs'
        BY <2>2 DEF InsertStep, Insert
    <2>3. ASSUME NEW r \in Requests, EraseUser(r)
          PROVE  c \in convs'
        BY <1>1, <2>3 DEF EraseUser, Mine, Of
    <2> QED
        BY <2>1, <2>2, <2>3, RowSteps DEF SignUp
<1> QED
    BY <1>1, <1>2 DEF Taken, Of, Later

\* A step leaves a request as it was, or it has dealt with an account by
\* inserting it or finding it taken.
LEMMA Dealt ==
    ASSUME TypeInv, [Next]_vars, NEW s \in Requests
    PROVE  \/ WorksOn(req[s], req'[s])
           \/ /\ req'[s].user = req[s].user /\ req'[s].wanted = req[s].wanted
              /\ req'[s].freed = req[s].freed
              /\ \A a \in req[s].todo \ req'[s].todo : Later(req[s].user, a)
<1> DEFINE Goal == \/ WorksOn(req[s], req'[s])
                   \/ /\ req'[s].user = req[s].user /\ req'[s].wanted = req[s].wanted
                      /\ req'[s].freed = req[s].freed
                      /\ \A a \in req[s].todo \ req'[s].todo : Later(req[s].user, a)
<1>0. TypeOK /\ \A t \in Requests : req[t] \in Tasks
    BY DEF TypeInv, TypeOK
<1>1. CASE Blank(req'[s]) \/ Kept(req[s], req'[s])
    BY <1>1 DEF Blank, Kept, WorksOn
<1>2. ASSUME NEW r \in Requests, Finish(r)
      PROVE  WorksOn(req[s], req'[s])
    BY <1>0, <1>2 DEF Finish, Idle, Task, TypeOK, WorksOn
<1>3. ASSUME NEW r \in Requests, SelectBatch(r)
      PROVE  WorksOn(req[s], req'[s])
    <2>1. ASSUME NEW S,
                 req' = [req EXCEPT ![r].at = "bulk", ![r].todo = S, ![r].wanted = S]
          PROVE  WorksOn(req[s], req'[s])
        BY <1>0, <2>1 DEF TypeOK, Tasks, WorksOn
    <2> QED
        BY <1>2, <1>3, <2>1 DEF SelectBatch
<1>4. ASSUME NEW r \in Requests, EraseUser(r)
      PROVE  WorksOn(req[s], req'[s])
    <2>1. CASE Goto(r, "mark")
        BY <1>0, <2>1 DEF Goto, TypeOK, Tasks, WorksOn
    <2> QED
        BY <1>2, <1>4, <2>1 DEF EraseUser
<1>5. ASSUME NEW r \in Requests, SkipCollision(r)
      PROVE  Goal
    <2>1. PICK a \in req[r].todo :
            Taken(req[r].user, a) /\ req' = [req EXCEPT ![r].todo = @ \ {a}]
        BY <1>5 DEF SkipCollision
    <2>2. convs' = convs
        BY <1>5 DEF SkipCollision, dbVars
    <2>3. CASE s # r
        BY <1>0, <2>1, <2>3 DEF WorksOn, TypeOK
    <2>4. CASE s = r
        <3>1. /\ req'[s].user = req[s].user /\ req'[s].wanted = req[s].wanted
              /\ req'[s].freed = req[s].freed /\ req'[s].todo = req[s].todo \ {a}
            BY <1>0, <2>1, <2>4 DEF TypeOK, Tasks
        <3> QED
            BY <2>1, <2>2, <2>4, <3>1 DEF Taken, Of, Later
    <2> QED
        BY <2>3, <2>4
<1>6. ASSUME NEW r \in Requests, InsertOne(r) \/ InsertBatch(r) \/ InsertSingle(r)
      PROVE  Goal
    <2>1. PICK accounts \in SUBSET Accounts, label \in {"log", "single"} :
            Insert(r, accounts, label)
        BY <1>0, <1>6 DEF InsertOne, InsertBatch, InsertSingle, Tasks
    <2>2. PICK f \in [accounts -> Ids \ born] : Inserts(r, accounts, label, f)
        BY <1>0, <2>1, InsertEffect DEF Labels
    <2>3. CASE s # r
        BY <2>2, <2>3 DEF WorksOn, Inserts, OthersSame
    <2>4. CASE s = r
        <3>1. /\ req'[s].user = req[s].user /\ req'[s].wanted = req[s].wanted
              /\ req'[s].freed = req[s].freed /\ req'[s].todo = req[s].todo \ accounts
            BY <1>0, <2>2, <2>4 DEF Inserts, Tasks
        <3>2. ASSUME NEW a \in accounts
              PROVE  Later(req[s].user, a)
            <4> DEFINE c == [id |-> f[a], user |-> req[r].user, account |-> a]
            <4>1. c \in convs'
                BY <2>2 DEF Inserts, RowsOf
            <4>2. c.user = req[s].user /\ c.account = a
                BY <2>4
            <4> HIDE DEF c
            <4>3. c.user = req'[s].user
                BY <3>1, <4>2
            <4> QED
                BY <3>1, <4>1, <4>2, <4>3 DEF Taken, Of, Later
        <3> QED
            BY <3>1, <3>2
    <2> QED
        BY <2>3, <2>4
<1> QED
    BY <1>1, <1>3, <1>4, <1>5, <1>6, Evolution

\* A user of a request that is there now was there before.
LEMMA Returns ==
    ASSUME TypeInv, Known, [Next]_vars, NEW s \in Requests,
           req[s].user \in users'
    PROVE  req[s].user \in users
<1>1. CASE users' \subseteq users
    BY <1>1
<1>2. ASSUME NEW r \in Requests, SignUp(r)
      PROVE  req[s].user \in users
    <2>1. PICK u \in Users \ (users \cup gone) : users' = users \cup {u}
        BY <1>2 DEF SignUp
    <2> QED
        BY <2>1, UserAssumption DEF Known
<1>3. ASSUME NEW r \in Requests, InsertStep(r)
      PROVE  users' = users
    BY <1>3 DEF InsertStep, Insert
<1> QED
    BY <1>1, <1>2, <1>3, RowSteps DEF UpdateConversion, RemoveConversions, EraseUser

\* However requests collide, each account is dealt with by a conversion.
THEOREM NobodyForgotten == Spec => []EveryAccountServed
<1> DEFINE Inv == TypeInv /\ Known /\ EveryAccountServed
<1>1. Init => Inv
    BY TypeInductive DEF Init, Known, EveryAccountServed, Idle, Task
<1>2. Inv /\ [Next]_vars => Inv'
    <2> SUFFICES ASSUME Inv, [Next]_vars
                 PROVE  EveryAccountServed'
        BY TypeInductive, KnownStep
    <2>1. CASE \E r \in Requests : UpdateConversion(r) \/ RemoveConversions(r)
        BY <2>1, ServedAfterRemoval
    <2>2. ASSUME \A r \in Requests : ~UpdateConversion(r) /\ ~RemoveConversions(r),
                 NEW s \in Requests, req'[s].user \in users',
                 NEW a \in req'[s].wanted \ req'[s].todo
          PROVE  Later(req'[s].user, a) \/ a \in req'[s].freed
        <3>1. CASE req'[s].wanted = req'[s].todo
            BY <2>2, <3>1
        <3>2. CASE /\ req'[s].user = req[s].user /\ req'[s].wanted = req[s].wanted
                   /\ req[s].freed \subseteq req'[s].freed
                   /\ \A b \in req[s].todo \ req'[s].todo : Later(req[s].user, b)
            <4>1. req[s].user \in users
                BY <2>2, <3>2, Returns
            <4>2. CASE a \in req[s].todo
                BY <2>2, <3>2, <4>2 DEF Taken, Of, Later
            <4>3. CASE a \in req[s].freed
                BY <3>2, <4>3
            <4>4. CASE Taken(req[s].user, a)
                <5>1. Later(req[s].user, a)
                    BY <2>2, <3>2, <4>1, <4>4, TakenStays
                <5> QED
                    BY <3>2, <5>1 DEF Taken, Of, Later
            <4> QED
                BY <2>2, <3>2, <4>1, <4>2, <4>3, <4>4 DEF EveryAccountServed
        <3> QED
            BY <3>1, <3>2, Dealt DEF WorksOn
    <2> QED
        BY <2>1, <2>2 DEF EveryAccountServed, Taken, Of, Later
<1> QED
    BY <1>1, <1>2, PTL DEF Spec

=============================================================================
