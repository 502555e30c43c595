----------------------------- MODULE OAuthTokens -----------------------------
(***************************************************************************)
(* One user's YNAB connection: how requests resolve an access token, refresh *)
(* it, and drop a dead connection (src/app/oauth.py, src/app/connections.py, *)
(* src/app/routes/settings.py, the 401 handler of src/app/main.py).          *)
(*                                                                           *)
(* The routes run on a thread pool, so the requests interleave at every      *)
(* database and YNAB call; refreshes of one user are serialized by a lock,   *)
(* everything else that touches the connection is not.  YNAB rotates the     *)
(* refresh token on use.  A token pair is named by the number of its issue.  *)
(***************************************************************************)
EXTENDS Naturals

CONSTANTS
    Requests,   \* concurrent requests
    MaxTokens,  \* how many token pairs YNAB issues in this instance
    Moves,      \* what the environment may do in this instance
    Nobody,     \* the holder of a free lock
    NoConn      \* no row in ynab_connections

AllMoves ==
    {"connect", "disconnect", "delete", "revoke",   \* the user
     "expire", "refuse", "lost", "crash"}           \* YNAB and the machine

ASSUME RequestAssumption == Nobody \notin Requests
ASSUME ConnAssumption == NoConn \notin Nat
ASSUME TokenAssumption == MaxTokens \in Nat \ {0}
ASSUME MoveAssumption == Moves \subseteq AllMoves

VARIABLES
    \* the database
    user,    \* BOOLEAN, the account exists
    conn,    \* the stored pair, Legacy, or NoConn
    \* the server process
    lock,    \* the holder of the user's _refresh_lock
    pc,      \* [Requests -> Labels]
    held,    \* the pair a request works with: it refreshes or uses it
    got,     \* the pair a request received and has not stored yet
    \* YNAB
    next,    \* the number of the next pair issued
    valid,   \* pairs whose refresh token YNAB accepts
    alive,   \* pairs whose access token YNAB accepts
    fresh,   \* pairs more than REFRESH_MARGIN_SECONDS from their expiry
    \* history
    revoked, \* pairs issued before the user revoked the grant in YNAB
    lost,    \* pairs whose refresh was processed without an answer stored
    stored,  \* pairs that were ever in the database (1 may be of a former
             \* connection)
    granted, \* pairs issued to an OAuth callback
    refused  \* pairs whose refresh YNAB answered 4xx though it accepts them

dbVars   == <<user, conn>>
ynabVars == <<next, valid, alive, fresh>>
history  == <<revoked, lost, stored, granted, refused>>
vars == <<dbVars, lock, pc, held, got, ynabVars, history>>

Legacy == 0  \* a row without a refresh token
Tokens == 1..MaxTokens
LockedSteps == {"legacy", "refresh", "recheck", "drop", "save"}
Labels == {"idle", "wait", "use", "unauthorized", "connect"} \cup LockedSteps

\* _is_fresh: a legacy row has no expiry and never is.
IsFresh(c) == c \in fresh

Init ==
    /\ user = TRUE
    /\ conn \in {NoConn, Legacy, 1}
    /\ lock = Nobody
    /\ pc = [p \in Requests |-> "idle"]
    /\ held = [p \in Requests |-> 0]
    /\ got = [p \in Requests |-> 0]
    /\ next = 2
    /\ valid = {1}
    /\ alive = {1}
    /\ fresh = {1}
    /\ revoked = {}
    /\ lost = {}
    /\ stored = {1}
    /\ granted = {}
    /\ refused = {}

Goto(p, label) == pc' = [pc EXCEPT ![p] = label]
Hold(p, c) == held' = [held EXCEPT ![p] = c]

\* The request leaves the lock with a token, or without.
Leave(p, label, c) ==
    /\ lock' = Nobody
    /\ Goto(p, label)
    /\ Hold(p, c)
    /\ got' = [got EXCEPT ![p] = 0]

-----------------------------------------------------------------------------
(* get_access_token *)

\* A fresh token is used without the lock; without a connection the request
\* is sent to /settings, which changes nothing.
Start(p) ==
    /\ pc[p] = "idle"
    /\ user
    /\ conn # NoConn
    /\ \/ /\ IsFresh(conn)
          /\ Goto(p, "use")
          /\ Hold(p, conn)
       \/ /\ ~IsFresh(conn)
          /\ Goto(p, "wait")
          /\ UNCHANGED held
    /\ UNCHANGED <<dbVars, lock, got, ynabVars, history>>

\* The connection read again under the lock, when it needs no refresh.
ReRead(p) ==
    /\ pc[p] = "wait"
    /\ lock = Nobody
    /\ \/ /\ conn = NoConn
          /\ Goto(p, "idle")
          /\ UNCHANGED held
       \/ /\ IsFresh(conn)
          /\ Goto(p, "use")
          /\ Hold(p, conn)
    /\ UNCHANGED <<dbVars, lock, got, ynabVars, history>>

\* Mutant: the lock is not waited for.
EnterUnlocked(p) ==
    /\ pc[p] = "wait"
    /\ conn # NoConn /\ ~IsFresh(conn)
    /\ lock' = p
    /\ Goto(p, IF conn = Legacy THEN "legacy" ELSE "refresh")
    /\ Hold(p, conn)
    /\ UNCHANGED <<dbVars, got, ynabVars, history>>
\* Mutant: the re-read no longer checks that there still is a connection.
EnterUnconnected(p) ==
    /\ pc[p] = "wait"
    /\ lock = Nobody
    /\ ~IsFresh(conn)
    /\ lock' = p
    /\ Goto(p, IF conn = Legacy THEN "legacy" ELSE "refresh")
    /\ Hold(p, conn)
    /\ UNCHANGED <<dbVars, got, ynabVars, history>>
\* The connection read again under the lock, when it needs one.
Enter(p) ==
    /\ pc[p] = "wait"
    /\ lock = Nobody
    /\ conn # NoConn /\ ~IsFresh(conn)
    /\ lock' = p
    /\ Goto(p, IF conn = Legacy THEN "legacy" ELSE "refresh")
    /\ Hold(p, conn)
    /\ UNCHANGED <<dbVars, got, ynabVars, history>>

\* A row without a refresh token cannot be refreshed and is deleted.
DropLegacy(p) ==
    /\ pc[p] = "legacy"
    /\ conn' = NoConn
    /\ Leave(p, "idle", 0)
    /\ UNCHANGED <<user, ynabVars, history>>

\* YNAB issues a pair; "spends" is the refresh token it takes in exchange.
Issue(spends) ==
    /\ next \in Tokens
    /\ next' = next + 1
    /\ valid' = (valid \ spends) \cup {next}
    /\ alive' = alive \cup {next}
    /\ fresh' = fresh \cup {next}

RefreshAccepted(p) ==
    /\ pc[p] = "refresh"
    /\ held[p] \in valid
    /\ Issue({held[p]})
    /\ got' = [got EXCEPT ![p] = next]
    /\ Goto(p, "save")
    /\ UNCHANGED <<dbVars, lock, held, history>>

\* Any 4xx is an OAuthGrantError: the pair is dead, or YNAB refuses a live one
\* for a while ("refuse": 408, 429, a client secret being replaced).
RefreshRejected(p) ==
    /\ pc[p] = "refresh"
    /\ held[p] \notin valid \/ "refuse" \in Moves
    /\ refused' = refused \cup ({held[p]} \cap valid)
    /\ Goto(p, "recheck")
    /\ UNCHANGED <<dbVars, lock, held, got, ynabVars, revoked, lost, stored,
                   granted>>

\* YNAB cannot be reached or answers 5xx: a YNABError, nothing changes.
RefreshFails(p) ==
    /\ pc[p] = "refresh"
    /\ Leave(p, "idle", 0)
    /\ UNCHANGED <<dbVars, ynabVars, history>>

\* YNAB rotates the token but its answer times out or is malformed.
RefreshLost(p) ==
    /\ "lost" \in Moves
    /\ pc[p] = "refresh"
    /\ held[p] \in valid
    /\ Issue({held[p]})
    /\ lost' = lost \cup {held[p]}
    /\ Leave(p, "idle", 0)
    /\ UNCHANGED <<dbVars, revoked, stored, granted, refused>>

\* Mutant: the connection is not compared with the one rejected.
RecheckBlind(p) ==
    /\ pc[p] = "recheck"
    /\ Goto(p, "drop")
    /\ UNCHANGED <<dbVars, lock, held, got, ynabVars, history>>
\* After a rejection: a connection with another refresh token is used as it
\* is, fresh or not.
Recheck(p) ==
    /\ pc[p] = "recheck"
    /\ \/ /\ conn \notin {NoConn, held[p]}
          /\ Leave(p, "use", conn)
       \/ /\ conn \in {NoConn, held[p]}
          /\ Goto(p, "drop")
          /\ UNCHANGED <<lock, held, got>>
    /\ UNCHANGED <<dbVars, ynabVars, history>>

Drop(p) ==
    /\ pc[p] = "drop"
    /\ conn' = NoConn
    /\ Leave(p, "idle", 0)
    /\ UNCHANGED <<user, ynabVars, history>>

\* Mutant: the row is written although the user it refers to is gone.
StoreOrphan(c) == conn' = c /\ stored' = stored \cup {c}
\* set_oauth: an upsert the foreign key refuses without the user.
StoreTokens(c) ==
    /\ conn' = IF user THEN c ELSE conn
    /\ stored' = IF user THEN stored \cup {c} ELSE stored

\* Mutant: a token that could not be stored is used all the same.
SaveAndUse(p) ==
    /\ pc[p] = "save"
    /\ StoreTokens(got[p])
    /\ Leave(p, "use", got[p])
    /\ UNCHANGED <<user, ynabVars, revoked, lost, granted, refused>>
\* The new pair is stored and used; without the user, ConnectionGoneError
\* becomes a 401.
Save(p) ==
    /\ pc[p] = "save"
    /\ StoreTokens(got[p])
    /\ \/ user /\ Leave(p, "use", got[p])
       \/ ~user /\ Leave(p, "unauthorized", 0)
    /\ UNCHANGED <<user, ynabVars, revoked, lost, granted, refused>>

-----------------------------------------------------------------------------
(* The request with its token, and the 401 handler. *)

\* A data call answers 401.
Refused(p) ==
    /\ pc[p] = "use"
    /\ held[p] \notin alive
    /\ Goto(p, "unauthorized")
    /\ UNCHANGED <<dbVars, lock, held, got, ynabVars, history>>

\* The handler deletes the connection of the session's user, whichever it is.
HandleUnauthorized(p) ==
    /\ pc[p] = "unauthorized"
    /\ conn' = NoConn
    /\ Goto(p, "idle")
    /\ Hold(p, 0)
    /\ UNCHANGED <<user, lock, got, ynabVars, history>>

\* The request ends: its data calls succeeded, failed with something else, or
\* it was the dashboard's refresh, which swallows a 401 too.
End(p) ==
    /\ pc[p] = "use"
    /\ Goto(p, "idle")
    /\ Hold(p, 0)
    /\ UNCHANGED <<dbVars, lock, got, ynabVars, history>>

-----------------------------------------------------------------------------
(* routes/settings.py: none of these takes the refresh lock. *)

\* oauth_callback: the code of a new grant is exchanged.  A denied one
\* changes nothing.
Exchange(p) ==
    /\ "connect" \in Moves
    /\ pc[p] = "idle"
    /\ user
    /\ Issue({})
    /\ got' = [got EXCEPT ![p] = next]
    /\ Goto(p, "connect")
    /\ granted' = granted \cup {next}
    /\ UNCHANGED <<dbVars, lock, held, revoked, lost, stored, refused>>

Connect(p) ==
    /\ pc[p] = "connect"
    /\ StoreTokens(got[p])
    /\ got' = [got EXCEPT ![p] = 0]
    /\ Goto(p, "idle")
    /\ UNCHANGED <<user, lock, held, ynabVars, revoked, lost, granted, refused>>

Disconnect ==
    /\ "disconnect" \in Moves
    /\ conn # NoConn
    /\ conn' = NoConn
    /\ UNCHANGED <<user, lock, pc, held, got, ynabVars, history>>

\* UserStore.delete: the connection and the user in one transaction.
DeleteAccount ==
    /\ "delete" \in Moves
    /\ user
    /\ user' = FALSE
    /\ conn' = NoConn
    /\ UNCHANGED <<lock, pc, held, got, ynabVars, history>>

-----------------------------------------------------------------------------
(* YNAB, the clock, and the machine. *)

\* The user revokes the application's access in YNAB.
Revoke ==
    /\ "revoke" \in Moves
    /\ valid # {}
    /\ valid' = {}
    /\ alive' = {}
    /\ revoked' = 1..(next - 1)
    /\ UNCHANGED <<dbVars, lock, pc, held, got, next, fresh, lost, stored,
                   granted, refused>>

\* An access token comes within the refresh margin of its expiry.
GoesStale(c) ==
    /\ c \in fresh
    /\ fresh' = fresh \ {c}
    /\ UNCHANGED <<dbVars, lock, pc, held, got, next, valid, alive, history>>

Expires(c) ==
    /\ "expire" \in Moves
    /\ c \in alive \ fresh
    /\ alive' = alive \ {c}
    /\ UNCHANGED <<dbVars, lock, pc, held, got, next, valid, fresh, history>>

\* The server restarts: requests and the lock are gone.
Crash ==
    /\ "crash" \in Moves
    /\ \E p \in Requests : pc[p] # "idle"
    /\ lost' = lost \cup {held[p] : p \in {q \in Requests : pc[q] = "save"}}
    /\ lock' = Nobody
    /\ pc' = [p \in Requests |-> "idle"]
    /\ held' = [p \in Requests |-> 0]
    /\ got' = [p \in Requests |-> 0]
    /\ UNCHANGED <<dbVars, ynabVars, revoked, stored, granted, refused>>

-----------------------------------------------------------------------------
Locked(p) ==
    \/ DropLegacy(p)
    \/ RefreshAccepted(p) \/ RefreshRejected(p) \/ RefreshFails(p) \/ RefreshLost(p)
    \/ Recheck(p) \/ Drop(p) \/ Save(p)

Request(p) ==
    \/ Start(p) \/ ReRead(p) \/ Enter(p) \/ Locked(p)
    \/ Refused(p) \/ HandleUnauthorized(p) \/ End(p)
    \/ Exchange(p) \/ Connect(p)

World ==
    \/ Disconnect \/ DeleteAccount \/ Revoke \/ Crash
    \/ \E c \in Tokens : GoesStale(c) \/ Expires(c)

Next == World \/ \E p \in Requests : Request(p)

Spec == Init /\ [][Next]_vars

-----------------------------------------------------------------------------
(* Properties *)

\* The type invariant.
TypeOK ==
    /\ user \in BOOLEAN
    /\ conn \in Tokens \cup {Legacy, NoConn}
    /\ lock \in Requests \cup {Nobody}
    /\ pc \in [Requests -> Labels]
    /\ held \in [Requests -> Tokens \cup {0}]
    /\ got \in [Requests -> Tokens \cup {0}]
    /\ next \in 2..(MaxTokens + 1)
    /\ valid \in SUBSET Tokens
    /\ alive \in SUBSET Tokens
    /\ fresh \in SUBSET Tokens
    /\ revoked \in SUBSET Tokens
    /\ lost \in SUBSET Tokens
    /\ stored \in SUBSET Tokens
    /\ granted \in SUBSET Tokens
    /\ refused \in SUBSET Tokens

\* Rotation does not strand the user: whenever no refresh is under way, the
\* stored refresh token is one YNAB accepts, unless the user revoked it or
\* the answer to its refresh never got stored.  (Two requests refreshing one
\* token are what _refresh_lock and the re-read under it exist for.)
StoredTokenWorks ==
    lock = Nobody /\ conn \in Tokens \ (revoked \cup lost) => conn \in valid

\* A rejected refresh only deletes a connection that YNAB refused to refresh,
\* whatever other requests refreshed, connected or dropped meanwhile: the
\* re-check never decides to delete another one, and the delete, a statement of
\* its own, only ever hits one that an OAuth callback stored in between.  That a
\* refused connection is dead is another matter: see the README.
RefreshDropsOnlyRefused ==
    [][\A p \in Requests :
         /\ Recheck(p) /\ pc'[p] = "drop" => conn \notin valid \ refused
         /\ Drop(p) => conn \notin valid \ (refused \cup granted)]_vars

\* A request only ever uses a token the database holds or held: after the
\* account is deleted, a refresh in flight does not go on with its new token.
UsesStoredToken ==
    \A p \in Requests : pc[p] = "use" => held[p] \in stored

\* A deleted account has no tokens, also when a refresh or an OAuth callback
\* was under way.
NoTokenWithoutUser == conn # NoConn => user

-----------------------------------------------------------------------------
(* Stated by a doc or a comment, and not so: see the README's findings. *)

\* "Delete the now-dead connection (same as a rejected refresh in oauth.py)"
\* (the 401 handler).
HandlerDropsOnlyDead ==
    [][\A p \in Requests : HandleUnauthorized(p) => conn \notin valid]_vars

\* "When you disconnect YNAB from the Settings page, the stored access and
\* refresh tokens are deleted immediately" (privacy.html): only connecting
\* again stores tokens after that.
OnlyConnectingConnects ==
    [][conn = NoConn /\ conn' # NoConn => \E p \in Requests : Connect(p)]_vars
==============================================================================
