-------------------------- MODULE OAuthTokens_proofs --------------------------
(***************************************************************************)
(* Proofs about OAuthTokens, for any number of requests and of token pairs.  *)
(***************************************************************************)
EXTENDS OAuthTokens, TLAPS

Refreshing == {"refresh", "recheck", "drop", "save"}
Receiving == {"save", "connect"}

-----------------------------------------------------------------------------
(* Types *)

\* A request that refreshes has a pair to refresh, one that received a pair
\* has it.
InHand ==
    \A p \in Requests :
        /\ pc[p] \in Refreshing => held[p] \in Tokens
        /\ pc[p] \in Receiving => got[p] \in Tokens
TypeInv == TypeOK /\ InHand

\* Issuing a pair keeps the types of YNAB's variables.
LEMMA IssueType ==
    ASSUME TypeOK, NEW spends, Issue(spends)
    PROVE  /\ next \in Tokens
           /\ next' \in 2..(MaxTokens + 1)
           /\ valid' \in SUBSET Tokens
           /\ alive' \in SUBSET Tokens
           /\ fresh' \in SUBSET Tokens
<1>1. next \in Tokens /\ next \in Nat /\ next \in 2..(MaxTokens + 1)
    BY TokenAssumption DEF TypeOK, Issue
<1>2. next' = next + 1 /\ next <= MaxTokens
    BY <1>1 DEF Issue, Tokens
<1>3. next' \in 2..(MaxTokens + 1)
    BY <1>1, <1>2, TokenAssumption
<1> QED
    BY <1>1, <1>3 DEF TypeOK, Issue

\* The pairs issued so far are tokens.
LEMMA IssuedTokens ==
    ASSUME TypeOK
    PROVE  1..(next - 1) \in SUBSET Tokens
<1>1. next \in Nat /\ next <= MaxTokens + 1 /\ next >= 2
    BY TokenAssumption DEF TypeOK
<1> QED
    BY <1>1, TokenAssumption DEF Tokens

\* A step of a request keeps the types.
LEMMA TypeRequest ==
    ASSUME TypeInv, NEW p \in Requests, Request(p)
    PROVE  TypeInv'
<1> USE ConnAssumption, TokenAssumption
    DEF TypeInv, TypeOK, InHand, Refreshing, Receiving,
        Labels, LockedSteps, Tokens, Legacy, dbVars, ynabVars, history,
        Goto, Hold, Leave, IsFresh
<1>1. CASE Start(p)
    BY <1>1 DEF Start
<1>2. CASE ReRead(p)
    BY <1>2 DEF ReRead
<1>3. CASE Enter(p)
    BY <1>3 DEF Enter
<1>4. CASE DropLegacy(p)
    BY <1>4 DEF DropLegacy
<1>5. CASE RefreshAccepted(p)
    BY <1>5, IssueType DEF RefreshAccepted
<1>6. CASE RefreshRejected(p)
    BY <1>6 DEF RefreshRejected
<1>7. CASE RefreshFails(p)
    BY <1>7 DEF RefreshFails
<1>8. CASE RefreshLost(p)
    BY <1>8, IssueType DEF RefreshLost
<1>9. CASE Recheck(p)
    BY <1>9 DEF Recheck
<1>10. CASE Drop(p)
    BY <1>10 DEF Drop
<1>11. CASE Save(p)
    BY <1>11 DEF Save, StoreTokens
<1>12. CASE Refused(p)
    BY <1>12 DEF Refused
<1>13. CASE HandleUnauthorized(p)
    BY <1>13 DEF HandleUnauthorized
<1>14. CASE End(p)
    BY <1>14 DEF End
<1>15. CASE Exchange(p)
    BY <1>15, IssueType DEF Exchange
<1>16. CASE Connect(p)
    BY <1>16 DEF Connect, StoreTokens
<1> QED
    BY <1>1, <1>2, <1>3, <1>4, <1>5, <1>6, <1>7, <1>8, <1>9, <1>10, <1>11,
       <1>12, <1>13, <1>14, <1>15, <1>16
    DEF Request, Locked

\* A step of the world keeps the types.
LEMMA TypeWorld ==
    ASSUME TypeInv, World
    PROVE  TypeInv'
<1> USE DEF TypeInv, TypeOK, InHand, Refreshing, Receiving,
        Labels, LockedSteps, Tokens, Legacy, dbVars, ynabVars, history
<1>1. CASE Disconnect
    BY <1>1 DEF Disconnect
<1>2. CASE DeleteAccount
    BY <1>2 DEF DeleteAccount
<1>3. CASE Revoke
    BY <1>3, IssuedTokens DEF Revoke
<1>4. CASE Crash
    BY <1>4 DEF Crash
<1>5. ASSUME NEW c \in Tokens, GoesStale(c) \/ Expires(c)
      PROVE  TypeInv'
    BY <1>5 DEF GoesStale, Expires
<1> QED
    BY <1>1, <1>2, <1>3, <1>4, <1>5 DEF World

\* The initial states are well typed.
LEMMA TypeInit == Init => TypeInv
    BY TokenAssumption, ConnAssumption
    DEF Init, TypeInv, TypeOK, InHand, Refreshing, Receiving,
        Labels, LockedSteps, Tokens, Legacy

\* The variables keep their types, whatever the requests, YNAB and the user do.
THEOREM TypeCorrect == Spec => []TypeOK
<1>1. Init => TypeInv
    BY TypeInit
<1>2. TypeInv /\ [Next]_vars => TypeInv'
    <2> SUFFICES ASSUME TypeInv, [Next]_vars PROVE TypeInv'
        OBVIOUS
    <2>1. CASE UNCHANGED vars
        BY <2>1 DEF TypeInv, TypeOK, InHand, vars, dbVars, ynabVars, history
    <2> QED
        BY <2>1, TypeRequest, TypeWorld DEF Next
<1> QED
    BY <1>1, <1>2, PTL DEF Spec, TypeInv

-----------------------------------------------------------------------------
(* Rotation *)

\* The pairs issued so far.
Issued == 1..(next - 1)

\* Only the holder of the lock is between its re-read and its answer.
HolderOnly == \A p \in Requests : pc[p] \in LockedSteps => lock = p

\* The sets of pairs hold issued ones, and a stored connection was stored.
IssuedOnly ==
    /\ valid \subseteq Issued
    /\ fresh \subseteq Issued
    /\ revoked \subseteq Issued
    /\ stored \subseteq Issued
    /\ conn \in Tokens => conn \in stored

\* What a request refreshes was stored once, and is not a legacy row.
HeldStored ==
    \A p \in Requests : pc[p] \in Refreshing =>
        held[p] \in stored /\ conn # Legacy

\* What a request received is issued, not stored yet, used by nobody and in
\* no other hands.
Received ==
    /\ \A p \in Requests : pc[p] \in Receiving =>
         /\ got[p] \in Issued \ stored
         /\ got[p] \in valid \cup revoked
    /\ \A p, q \in Requests :
         pc[p] \in Receiving /\ pc[q] \in Receiving /\ got[p] = got[q] => p = q

\* A stored pair that is used up is the one whose successor a request is
\* about to store.
SpentIsReplaced ==
    conn \in Tokens \ (valid \cup revoked \cup lost) =>
        \E p \in Requests : pc[p] = "save" /\ held[p] = conn

RotationInv ==
    /\ TypeInv
    /\ HolderOnly
    /\ IssuedOnly
    /\ HeldStored
    /\ Received
    /\ SpentIsReplaced
    /\ NoTokenWithoutUser
    /\ UsesStoredToken

\* Issuing a pair adds exactly one to the issued ones.
LEMMA IssueIssued ==
    ASSUME TypeOK, NEW spends, Issue(spends)
    PROVE  /\ Issued' = Issued \cup {next}
           /\ next \notin Issued
<1>1. next \in Nat /\ next >= 2 /\ next' = next + 1
    BY TokenAssumption DEF TypeOK, Issue
<1> QED
    BY <1>1 DEF Issued

\* No pair is a missing row or a legacy one.
LEMMA NotTokens == NoConn \notin Tokens /\ 0 \notin Tokens /\ NoConn # 0
<1>1. \A c \in Tokens : c \in Nat /\ c # 0
    BY TokenAssumption DEF Tokens
<1>2. 0 \in Nat
    OBVIOUS
<1> QED
    BY <1>1, <1>2, ConnAssumption

\* A step of a request keeps the rotation invariant.
LEMMA RotationRequest ==
    ASSUME RotationInv, NEW p \in Requests, Request(p)
    PROVE  RotationInv'
<1>0. TypeInv'
    BY TypeRequest DEF RotationInv
<1> DEFINE Rest == /\ HolderOnly /\ IssuedOnly /\ HeldStored /\ Received
                   /\ SpentIsReplaced /\ NoTokenWithoutUser /\ UsesStoredToken
<1> SUFFICES Rest'
    BY <1>0 DEF RotationInv
<1> USE RequestAssumption, NotTokens
    DEF RotationInv, TypeInv, TypeOK, InHand, HolderOnly, IssuedOnly,
        HeldStored, Received, SpentIsReplaced, NoTokenWithoutUser,
        UsesStoredToken,
        Refreshing, Receiving, LockedSteps, Legacy,
        dbVars, ynabVars, history, Goto, Hold, Leave, IsFresh
<1>1. CASE Start(p)
    BY <1>1 DEF Start, Issued
<1>2. CASE ReRead(p)
    BY <1>2 DEF ReRead, Issued
<1>3. CASE Enter(p)
    BY <1>3 DEF Enter, Issued
<1>4. CASE DropLegacy(p)
    BY <1>4 DEF DropLegacy, Issued
<1>5. CASE RefreshAccepted(p)
    BY <1>5, IssueIssued, IssueType DEF RefreshAccepted, Issue
<1>6. CASE RefreshRejected(p)
    BY <1>6 DEF RefreshRejected, Issued
<1>7. CASE RefreshFails(p)
    BY <1>7 DEF RefreshFails, Issued
<1>8. CASE RefreshLost(p)
    BY <1>8, IssueIssued, IssueType DEF RefreshLost, Issue
<1>9. CASE Recheck(p)
    BY <1>9 DEF Recheck, Issued
<1>10. CASE Drop(p)
    BY <1>10 DEF Drop, Issued
<1>11. CASE Save(p)
    <2>1. got[p] \in Tokens /\ got[p] \in Issued \ stored
          /\ got[p] \in valid \cup revoked
        BY <1>11 DEF Save
    <2>2. \A q \in Requests \ {p} :
            pc'[q] = pc[q] /\ held'[q] = held[q] /\ got'[q] = got[q]
        BY <1>11 DEF Save
    <2>3. pc'[p] \in {"use", "unauthorized"} /\ (pc'[p] = "use" => user)
          /\ (user => held'[p] = got[p])
        BY <1>11 DEF Save
    <2>4. /\ Issued' = Issued /\ user' = user
          /\ UNCHANGED <<valid, fresh, revoked, lost>>
          /\ conn' = (IF user THEN got[p] ELSE conn)
          /\ stored' = (IF user THEN stored \cup {got[p]} ELSE stored)
        BY <1>11 DEF Save, StoreTokens, Issued
    <2>5. HolderOnly'
        BY <1>11, <2>2, <2>3 DEF Save
    <2>6. IssuedOnly' /\ NoTokenWithoutUser'
        BY <2>1, <2>4
    <2>7. HeldStored'
        BY <2>1, <2>2, <2>3, <2>4
    <2>8. Received'
        BY <1>11, <2>1, <2>2, <2>3, <2>4 DEF Save
    <2>9. SpentIsReplaced'
        BY <2>1, <2>4
    <2>10. UsesStoredToken'
        BY <2>1, <2>2, <2>3, <2>4
    <2> QED
        BY <2>5, <2>6, <2>7, <2>8, <2>9, <2>10
<1>12. CASE Refused(p)
    BY <1>12 DEF Refused, Issued
<1>13. CASE HandleUnauthorized(p)
    BY <1>13 DEF HandleUnauthorized, Issued
<1>14. CASE End(p)
    BY <1>14 DEF End, Issued
<1>15. CASE Exchange(p)
    BY <1>15, IssueIssued, IssueType DEF Exchange, Issue
<1>16. CASE Connect(p)
    <2>1. got[p] \in Tokens /\ got[p] \in Issued \ stored
          /\ got[p] \in valid \cup revoked
        BY <1>16 DEF Connect
    <2>2. \A q \in Requests \ {p} :
            pc'[q] = pc[q] /\ held'[q] = held[q] /\ got'[q] = got[q]
        BY <1>16 DEF Connect
    <2>3. pc'[p] = "idle"
        BY <1>16 DEF Connect
    <2>4. /\ Issued' = Issued /\ user' = user
          /\ UNCHANGED <<valid, fresh, revoked, lost>>
          /\ conn' = (IF user THEN got[p] ELSE conn)
          /\ stored' = (IF user THEN stored \cup {got[p]} ELSE stored)
        BY <1>16 DEF Connect, StoreTokens, Issued
    <2>5. HolderOnly'
        BY <1>16, <2>2, <2>3 DEF Connect
    <2>6. IssuedOnly' /\ NoTokenWithoutUser'
        BY <2>1, <2>4
    <2>7. HeldStored'
        BY <2>1, <2>2, <2>3, <2>4
    <2>8. Received'
        BY <1>16, <2>1, <2>2, <2>3, <2>4 DEF Connect
    <2>9. SpentIsReplaced'
        BY <1>16, <2>1, <2>2, <2>4 DEF Connect
    <2>10. UsesStoredToken'
        BY <2>1, <2>2, <2>3, <2>4
    <2> QED
        BY <2>5, <2>6, <2>7, <2>8, <2>9, <2>10
<1> QED
    BY <1>1, <1>2, <1>3, <1>4, <1>5, <1>6, <1>7, <1>8, <1>9, <1>10, <1>11, <1>12, <1>13, <1>14, <1>15, <1>16
    DEF Request, Locked

\* A step of the world keeps the rotation invariant.
LEMMA RotationWorld ==
    ASSUME RotationInv, World
    PROVE  RotationInv'
<1>0. TypeInv'
    BY TypeWorld DEF RotationInv
<1> DEFINE Rest == /\ HolderOnly /\ IssuedOnly /\ HeldStored /\ Received
                   /\ SpentIsReplaced /\ NoTokenWithoutUser /\ UsesStoredToken
<1> SUFFICES Rest'
    BY <1>0 DEF RotationInv
<1> USE RequestAssumption, NotTokens
    DEF RotationInv, TypeInv, TypeOK, InHand, HolderOnly, IssuedOnly,
        HeldStored, Received, SpentIsReplaced, NoTokenWithoutUser,
        UsesStoredToken, Refreshing, Receiving, LockedSteps, Legacy,
        dbVars, ynabVars, history, Issued
<1>1. CASE Disconnect
    BY <1>1 DEF Disconnect
<1>2. CASE DeleteAccount
    BY <1>2 DEF DeleteAccount
<1>3. CASE Revoke
    BY <1>3 DEF Revoke
<1>4. CASE Crash
    BY <1>4 DEF Crash
<1>5. ASSUME NEW c \in Tokens, GoesStale(c) \/ Expires(c)
      PROVE  Rest'
    BY <1>5 DEF GoesStale, Expires
<1> QED
    BY <1>1, <1>2, <1>3, <1>4, <1>5 DEF World

\* Init establishes the rotation invariant, every step keeps it.
LEMMA RotationInit == Init => RotationInv
<1> SUFFICES ASSUME Init PROVE RotationInv
    OBVIOUS
<1>1. TypeInv
    BY TypeInit DEF Init
<1>2. Issued = {1}
    BY DEF Init, Issued
<1> QED
    BY <1>1, <1>2, NotTokens
    DEF Init, RotationInv, HolderOnly, IssuedOnly, HeldStored, Received,
        SpentIsReplaced, NoTokenWithoutUser, UsesStoredToken, Refreshing,
        Receiving, LockedSteps, Legacy

\* Every step keeps the rotation invariant.
LEMMA RotationStep == RotationInv /\ [Next]_vars => RotationInv'
<1> SUFFICES ASSUME RotationInv, [Next]_vars PROVE RotationInv'
    OBVIOUS
<1>1. CASE UNCHANGED vars
    BY <1>1
    DEF vars, dbVars, ynabVars, history, RotationInv, TypeInv, TypeOK, InHand,
        HolderOnly, IssuedOnly, HeldStored, Received, SpentIsReplaced,
        NoTokenWithoutUser, UsesStoredToken, Issued
<1> QED
    BY <1>1, RotationRequest, RotationWorld DEF Next

\* For any number of requests refreshing at once: whenever no refresh is under
\* way, YNAB accepts the stored refresh token, unless the user revoked it or
\* the answer of its refresh was lost.
THEOREM RotationKeepsConnection == Spec => []StoredTokenWorks
<1>1. RotationInv => StoredTokenWorks
    BY RequestAssumption
    DEF RotationInv, HolderOnly, SpentIsReplaced, StoredTokenWorks, LockedSteps
<1> QED
    BY <1>1, RotationInit, RotationStep, PTL DEF Spec

\* No interleaving of refreshes, OAuth callbacks and the deletion of the
\* account leaves tokens in the database for a user who is gone.
THEOREM DeletedHasNoToken == Spec => []NoTokenWithoutUser
<1>1. RotationInv => NoTokenWithoutUser
    BY DEF RotationInv
<1> QED
    BY <1>1, RotationInit, RotationStep, PTL DEF Spec

\* No request goes on with a token that could not be stored.
THEOREM OnlyStoredTokensUsed == Spec => []UsesStoredToken
<1>1. RotationInv => UsesStoredToken
    BY DEF RotationInv
<1> QED
    BY <1>1, RotationInit, RotationStep, PTL DEF Spec

-----------------------------------------------------------------------------
(* Dropping a connection *)

\* A request after a rejection holds a pair that is dead or was refused, and
\* the connection is that one, or gone, or from an OAuth callback.
RejectedIsRefused ==
    \A p \in Requests :
        /\ pc[p] \in {"refresh", "recheck", "drop"} =>
             conn \in {NoConn, held[p]} \cup granted
        /\ pc[p] \in {"recheck", "drop"} => held[p] \notin valid \ refused
        /\ pc[p] = "connect" => got[p] \in granted
DropInv == RotationInv /\ RejectedIsRefused

\* Every step keeps it: only the holder of the lock and an OAuth callback store
\* a pair, and YNAB accepts no pair again.
LEMMA DropStep ==
    ASSUME DropInv, [Next]_vars
    PROVE  DropInv'
<1>0. RotationInv'
    BY RotationStep DEF DropInv
<1> SUFFICES RejectedIsRefused'
    BY <1>0 DEF DropInv
<1> USE RequestAssumption, NotTokens
    DEF DropInv, RejectedIsRefused, RotationInv, TypeInv, TypeOK, HolderOnly,
        LockedSteps, dbVars, ynabVars, history, Goto, Hold, Leave
<1>1. ASSUME NEW p \in Requests, Request(p)
      PROVE  RejectedIsRefused'
    <2> USE <1>1
    <2>1. CASE Start(p)
        BY <2>1 DEF Start
    <2>2. CASE ReRead(p)
        BY <2>2 DEF ReRead
    <2>3. CASE Enter(p)
        BY <2>3 DEF Enter
    <2>4. CASE DropLegacy(p)
        BY <2>4 DEF DropLegacy
    <2>5. CASE RefreshAccepted(p)
        BY <2>5 DEF RefreshAccepted, Issue
    <2>6. CASE RefreshRejected(p)
        BY <2>6 DEF RefreshRejected
    <2>7. CASE RefreshFails(p)
        BY <2>7 DEF RefreshFails
    <2>8. CASE RefreshLost(p)
        BY <2>8 DEF RefreshLost, Issue
    <2>9. CASE Recheck(p)
        BY <2>9 DEF Recheck
    <2>10. CASE Drop(p)
        BY <2>10 DEF Drop
    <2>11. CASE Save(p)
        BY <2>11 DEF Save
    <2>12. CASE Refused(p)
        BY <2>12 DEF Refused
    <2>13. CASE HandleUnauthorized(p)
        BY <2>13 DEF HandleUnauthorized
    <2>14. CASE End(p)
        BY <2>14 DEF End
    <2>15. CASE Exchange(p)
        <3>1. \A q \in Requests : pc[q] \in {"recheck", "drop"} => held[q] # next
            BY DEF InHand, HeldStored, IssuedOnly, Issued, Refreshing
        <3>2. QED
            BY <2>15, <3>1 DEF Exchange, Issue
    <2>16. CASE Connect(p)
        BY <2>16 DEF Connect, StoreTokens
    <2> QED
        BY <2>1, <2>2, <2>3, <2>4, <2>5, <2>6, <2>7, <2>8, <2>9, <2>10,
           <2>11, <2>12, <2>13, <2>14, <2>15, <2>16
        DEF Request, Locked
<1>2. CASE World
    BY <1>2 DEF World, Disconnect, DeleteAccount, Revoke, Crash, GoesStale, Expires
<1>3. CASE UNCHANGED vars
    BY <1>3 DEF vars
<1> QED
    BY <1>1, <1>2, <1>3 DEF Next

\* A rejected refresh never decides to delete a connection YNAB accepts and
\* did not refuse, and only ever deletes one that an OAuth callback stored after
\* that decision.
THEOREM RejectedDropsOnlyRefused == Spec => RefreshDropsOnlyRefused
<1>1. Init => DropInv
    BY RotationInit DEF DropInv, RejectedIsRefused, Init
<1>2. DropInv /\ [Next]_vars => DropInv'
    BY DropStep
<1>3. DropInv => \A p \in Requests :
                   /\ Recheck(p) /\ pc'[p] = "drop" => conn \notin valid \ refused
                   /\ Drop(p) => conn \notin valid \ (refused \cup granted)
    BY NotTokens DEF DropInv, RejectedIsRefused, RotationInv, TypeInv, TypeOK,
        Drop, Recheck, Leave, Goto
<1> QED
    BY <1>1, <1>2, <1>3, PTL DEF Spec, RefreshDropsOnlyRefused
==============================================================================
