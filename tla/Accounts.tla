------------------------------- MODULE Accounts -------------------------------
(***************************************************************************)
(* Users, the conversions they configure and the activity log               *)
(* (src/app/store.py, src/app/users.py, src/app/events.py and the routes    *)
(* that change them), down to the single database transaction: a route      *)
(* checks, calls YNAB, writes, and logs an event on another connection, and *)
(* everybody else may come in between.  An account may be deleted at any    *)
(* time, from /settings or with the delete_user command line tool, which is *)
(* a process of its own.                                                    *)
(***************************************************************************)
EXTENDS Naturals

CONSTANTS
    Users,     \* user ids; one is never given out twice
    Accounts,  \* accounts in YNAB
    Ids,       \* conversion ids, the bound on the conversions ever created
    Requests,  \* requests served concurrently
    Consoles,  \* those of them that are delete_user processes
    NoUser,    \* the user of an idle request
    Moves      \* what is asked for in this instance

AllMoves ==
    {"signup", "create", "batch", "edit", "delete", "account", "other", "crash"}

ASSUME ConsoleAssumption == Consoles \subseteq Requests
ASSUME UserAssumption == NoUser \notin Users
ASSUME MoveAssumption == Moves \subseteq AllMoves

VARIABLES
    users,   \* rows of users
    convs,   \* rows of conversions
    events,  \* rows of events, without the account_deleted markers
    marks,   \* [Users -> Nat], the account_deleted markers
    req,     \* [Requests -> Tasks]
    gone,    \* history: deleted users
    born     \* history: conversion ids given out

dbVars == <<users, convs, events, marks>>
vars   == <<dbVars, req, gone, born>>

Rows == [id : Ids, user : Users, account : Accounts]
\* Events of one user are not told apart.
Events == [user : Users]
Labels == {"idle", "check", "insert", "load", "bulk", "single", "find",
           "update", "remove", "verify", "erase", "mark", "log"}

\* A request: where it is, the user of its session or the one it deletes, the
\* accounts it has still to configure, the conversions it edits or deletes, and
\* those it has created, which decide whether it logs.  The rest is history: the
\* accounts it set out to configure, and those that have lost a conversion since
\* it began.
Tasks ==
    [at : Labels, user : Users \cup {NoUser},
     todo : SUBSET Accounts, target : SUBSET Ids, made : SUBSET Ids,
     wanted : SUBSET Accounts, freed : SUBSET Accounts]

Task(u, label, accounts, ids) ==
    [at |-> label, user |-> u, todo |-> accounts, target |-> ids,
     made |-> {}, wanted |-> accounts, freed |-> {}]

Idle == Task(NoUser, "idle", {}, {})

Init ==
    /\ users \in SUBSET Users
    /\ convs = {}
    /\ events = {}
    /\ marks = [u \in Users |-> 0]
    /\ req = [r \in Requests |-> Idle]
    /\ gone = {}
    /\ born = {}

At(r, label) == req[r].at = label
Goto(r, label) == req' = [req EXCEPT ![r].at = label]
Finish(r) == req' = [req EXCEPT ![r] = Idle]

Of(u) == {c \in convs : c.user = u}
Taken(u, a) == \E c \in Of(u) : c.account = a
Mine(r) == Of(req[r].user)

\* The requests as they are when a user's conversions leave some accounts.
Freed(u, accounts) ==
    [r \in Requests |->
        IF req[r].user = u THEN [req[r] EXCEPT !.freed = @ \cup accounts]
                           ELSE req[r]]

-----------------------------------------------------------------------------
(* Requests arrive *)

\* require_login found the user of the session; every route begins so.
Begin(r, u, label, accounts, ids) ==
    /\ At(r, "idle")
    /\ u \in users
    /\ req' = [req EXCEPT ![r] = Task(u, label, accounts, ids)]
    /\ UNCHANGED <<dbVars, gone, born>>

StartCreate(r) ==
    /\ "create" \in Moves
    /\ \E u \in users, a \in Accounts : Begin(r, u, "check", {a}, {})

StartBatch(r) ==
    /\ "batch" \in Moves
    /\ \E u \in users, S \in SUBSET Accounts :
          S # {} /\ Begin(r, u, "load", S, {})

StartEdit(r) ==
    /\ "edit" \in Moves
    /\ \E u \in users, id \in born, a \in Accounts :
          Begin(r, u, "find", {a}, {id})

StartDelete(r) ==
    /\ "delete" \in Moves
    /\ \E u \in users, S \in SUBSET born :
          S # {} /\ Begin(r, u, "remove", {}, S)

\* A login, an apply or an OAuth callback has done its work.
StartOther(r) ==
    /\ "other" \in Moves
    /\ \E u \in users : Begin(r, u, "log", {}, {})

\* UserStore.create, the insert of POST /signup.
SignUp(r) ==
    /\ "signup" \in Moves
    /\ At(r, "idle")
    /\ \E u \in Users \ (users \cup gone) :
          /\ users' = users \cup {u}
          /\ req' = [req EXCEPT ![r] = Task(u, "log", {}, {})]
    /\ UNCHANGED <<convs, events, marks, gone, born>>

\* POST /settings/delete-account, before the password is verified, or
\* delete_user, which has looked the user up.
StartErase(r) ==
    /\ "account" \in Moves
    /\ \E u \in users :
          Begin(r, u, IF r \in Consoles THEN "erase" ELSE "verify", {}, {})

-----------------------------------------------------------------------------
(* POST /conversions.  The foreign key refuses a row without its user, the   *)
(* unique index one of an account that has a conversion.                     *)

\* _reject_duplicate_account, for a create.
CheckFree(r) ==
    /\ At(r, "check")
    /\ IF \E a \in req[r].todo : Taken(req[r].user, a)
       THEN Finish(r)
       ELSE Goto(r, "insert")
    /\ UNCHANGED <<dbVars, gone, born>>

\* The plan's currency or the category cannot be had from YNAB, or the form
\* does not agree with them.
LookupFails(r) ==
    /\ req[r].at \in {"insert", "load", "update"}
    /\ Finish(r)
    /\ UNCHANGED <<dbVars, gone, born>>

\* Mutant: there is no unique index.
AllowedTwice(r, accounts) == req[r].user \in users
\* The database takes a conversion of each of the accounts.
Allowed(r, accounts) ==
    req[r].user \in users /\ \A a \in accounts : ~Taken(req[r].user, a)

\* Fresh ids, one for each of the accounts.
NewIds(accounts) ==
    {f \in [accounts -> Ids \ born] :
        \A a, b \in accounts : f[a] = f[b] => a = b}

\* One committed transaction inserts a conversion of each of the accounts.
Insert(r, accounts, label) ==
    \E f \in NewIds(accounts) :
        LET new == {f[a] : a \in accounts} IN
        /\ convs' = convs \cup
             {[id |-> f[a], user |-> req[r].user, account |-> a] : a \in accounts}
        /\ born' = born \cup new
        /\ req' = [req EXCEPT ![r].at = label, ![r].todo = @ \ accounts,
                              ![r].made = @ \cup new]
        /\ UNCHANGED <<users, events, marks, gone>>

InsertOne(r) ==
    /\ At(r, "insert")
    /\ Allowed(r, req[r].todo)
    /\ Insert(r, req[r].todo, "log")

\* DuplicateAccountError is a 409, UserGoneError a redirect to /login.
InsertRefused(r) ==
    /\ At(r, "insert")
    /\ ~Allowed(r, req[r].todo)
    /\ Finish(r)
    /\ UNCHANGED <<dbVars, gone, born>>

-----------------------------------------------------------------------------
(* POST /conversions/batch *)

\* _create_batch: unknown, configured and malformed rows are left out.
SelectBatch(r) ==
    /\ At(r, "load")
    /\ \E S \in SUBSET {a \in req[r].todo : ~Taken(req[r].user, a)} :
          IF S = {}
          THEN Finish(r)
          ELSE req' = [req EXCEPT ![r].at = "bulk", ![r].todo = S, ![r].wanted = S]
    /\ UNCHANGED <<dbVars, gone, born>>

\* add_many: all of them in one transaction.
InsertBatch(r) ==
    /\ At(r, "bulk")
    /\ Allowed(r, req[r].todo)
    /\ Insert(r, req[r].todo, "log")

\* A collision, or the missing user, rolls the transaction back.
RollBackBatch(r) ==
    /\ At(r, "bulk")
    /\ ~Allowed(r, req[r].todo)
    /\ Goto(r, "single")
    /\ UNCHANGED <<dbVars, gone, born>>

\* The fallback: a transaction for each.
InsertSingle(r) ==
    /\ At(r, "single")
    /\ \E a \in req[r].todo : Allowed(r, {a}) /\ Insert(r, {a}, "single")

\* Mutant: the fallback stops at a collision.
StopAtCollision(r) ==
    /\ At(r, "single")
    /\ req[r].user \in users
    /\ \E a \in req[r].todo : Taken(req[r].user, a)
    /\ req' = [req EXCEPT ![r].todo = {}]
    /\ UNCHANGED <<dbVars, gone, born>>
SkipCollision(r) ==
    /\ At(r, "single")
    /\ req[r].user \in users
    /\ \E a \in req[r].todo :
          /\ Taken(req[r].user, a)
          /\ req' = [req EXCEPT ![r].todo = @ \ {a}]
    /\ UNCHANGED <<dbVars, gone, born>>

\* UserGoneError: what the fallback had inserted went with the user.
BatchUserGone(r) ==
    /\ At(r, "single")
    /\ req[r].todo # {} /\ req[r].user \notin users
    /\ Finish(r)
    /\ UNCHANGED <<dbVars, gone, born>>

\* An event only if something was created.
EndFallback(r) ==
    /\ At(r, "single")
    /\ req[r].todo = {}
    /\ IF req[r].made = {} THEN Finish(r) ELSE Goto(r, "log")
    /\ UNCHANGED <<dbVars, gone, born>>

-----------------------------------------------------------------------------
(* Editing and deleting conversions *)

\* _get_conversion_or_404 and _reject_duplicate_account.
FindConversion(r) ==
    /\ At(r, "find")
    /\ IF /\ \E c \in Mine(r) : c.id \in req[r].target
          /\ \A c \in Mine(r) : c.account \in req[r].todo => c.id \in req[r].target
       THEN Goto(r, "update")
       ELSE Finish(r)
    /\ UNCHANGED <<dbVars, gone, born>>

\* ConversionStore.update.  The form has every field, so nothing of the row
\* read before the UPDATE is kept; a row that is gone is logged all the same.
UpdateConversion(r) ==
    /\ At(r, "update")
    /\ \E a \in req[r].todo :
          LET old == {c \in Mine(r) : c.id \in req[r].target} IN
          /\ old = {} \/ \A c \in Mine(r) \ old : c.account # a
          /\ convs' = (convs \ old) \cup {[c EXCEPT !.account = a] : c \in old}
          /\ req' = [Freed(req[r].user, {c.account : c \in old})
                        EXCEPT ![r].at = "log"]
    /\ UNCHANGED <<users, events, marks, gone, born>>

\* DuplicateAccountError.
UpdateRefused(r) ==
    /\ At(r, "update")
    /\ \E c \in Mine(r) : c.id \in req[r].target
    /\ \E c \in Mine(r) : c.account \in req[r].todo /\ c.id \notin req[r].target
    /\ Finish(r)
    /\ UNCHANGED <<dbVars, gone, born>>

\* delete and delete_many: ids of somebody else, or of nobody, are skipped.
RemoveConversions(r) ==
    /\ At(r, "remove")
    /\ LET old == {c \in Mine(r) : c.id \in req[r].target} IN
          /\ convs' = convs \ old
          /\ req' = [Freed(req[r].user, {c.account : c \in old})
                        EXCEPT ![r].at = "log"]
    /\ UNCHANGED <<users, events, marks, gone, born>>

-----------------------------------------------------------------------------
(* The activity log, and the deletion of an account *)

TheEvent(r) == [user |-> req[r].user]

\* Mutant: the event is recorded without its user.
LoggedForNobody(r) == {[TheEvent(r) EXCEPT !.user = NoUser]}
\* Mutant: the insert does not ask for the user.
LoggedAnyway(r) == {TheEvent(r)}
\* What INSERT ... SELECT ... WHERE EXISTS adds.
Logged(r) == {e \in {TheEvent(r)} : e.user \in users}

\* record_event; a database error is swallowed.
RecordEvent(r) ==
    /\ At(r, "log")
    /\ events' \in {events, events \cup Logged(r)}
    /\ Finish(r)
    /\ UNCHANGED <<users, convs, marks, gone, born>>

\* The account is only erased with the right password.
VerifyPassword(r) ==
    /\ At(r, "verify")
    /\ Goto(r, "erase") \/ Finish(r)
    /\ UNCHANGED <<dbVars, gone, born>>

\* Mutant: the marker is written whether or not a row was deleted.
NeedsMarkAnyway(r) == TRUE
\* The delete has removed the user's row.
NeedsMark(r) == req[r].user \in users

\* UserStore.delete, one transaction.
EraseUser(r) ==
    /\ At(r, "erase")
    /\ convs' = convs \ Mine(r)
    /\ events' = {e \in events : e.user # req[r].user}
    /\ users' = users \ {req[r].user}
    /\ gone' = gone \cup {req[r].user}
    /\ IF NeedsMark(r) THEN Goto(r, "mark") ELSE Finish(r)
    /\ UNCHANGED <<marks, born>>

\* record_event of ACCOUNT_DELETED, the one insert without a condition.
MarkDeleted(r) ==
    /\ At(r, "mark")
    /\ marks' \in {marks, [marks EXCEPT ![req[r].user] = @ + 1]}
    /\ Finish(r)
    /\ UNCHANGED <<users, convs, events, gone, born>>

\* The server restarts, or a delete_user process is interrupted.
Crash ==
    /\ "crash" \in Moves
    /\ \/ req' = [r \in Requests |-> IF r \in Consoles THEN req[r] ELSE Idle]
       \/ \E r \in Consoles : Finish(r)
    /\ UNCHANGED <<dbVars, gone, born>>

-----------------------------------------------------------------------------
Arrive(r) ==
    \/ StartErase(r)
    \/ /\ r \notin Consoles
       /\ \/ SignUp(r) \/ StartCreate(r) \/ StartBatch(r) \/ StartEdit(r)
          \/ StartDelete(r) \/ StartOther(r)

Step(r) ==
    \/ CheckFree(r) \/ LookupFails(r) \/ InsertOne(r) \/ InsertRefused(r)
    \/ SelectBatch(r) \/ InsertBatch(r) \/ RollBackBatch(r)
    \/ InsertSingle(r) \/ SkipCollision(r) \/ BatchUserGone(r) \/ EndFallback(r)
    \/ FindConversion(r) \/ UpdateConversion(r) \/ UpdateRefused(r)
    \/ RemoveConversions(r) \/ RecordEvent(r)
    \/ VerifyPassword(r) \/ EraseUser(r) \/ MarkDeleted(r)

Next == (\E r \in Requests : Arrive(r) \/ Step(r)) \/ Crash

Spec == Init /\ [][Next]_vars

-----------------------------------------------------------------------------
(* Properties *)

TypeOK ==
    /\ users \subseteq Users
    /\ convs \subseteq Rows
    /\ events \subseteq Events
    /\ marks \in [Users -> Nat]
    /\ req \in [Requests -> Tasks]
    /\ gone \subseteq Users
    /\ born \subseteq Ids

\* A user never has two conversions of one account, whatever creates, batches
\* and edits pass the check together (_reject_duplicate_account and the unique
\* index): the second would convert the account's transactions again.
OnePerAccount ==
    \A c, d \in convs : c.user = d.user /\ c.account = d.account => c = d

\* Nothing of a deleted user is left but markers, although creates, batches
\* and events of requests in flight are committed after the deletion
\* (UserStore.delete, the foreign key, record_event's condition).
NothingOutlivesUser ==
    /\ \A c \in convs : c.user \in users
    /\ \A e \in events : e.user \in users

\* Two tabs and the operator deleting one account leave at most one marker of
\* it, and none of an account that is still there (delete_account, delete_user).
OneMarker == \A u \in Users : marks[u] <= 1 /\ (marks[u] = 1 => u \notin users)

\* Every account a create or a batch is done with has a conversion, its own or
\* the one it collided with, unless that was deleted or moved meanwhile
\* (_create_batch, add_many and its fallback).
EveryAccountServed ==
    \A r \in Requests :
        req[r].user \in users =>
            \A a \in req[r].wanted \ req[r].todo :
                Taken(req[r].user, a) \/ a \in req[r].freed
=============================================================================
