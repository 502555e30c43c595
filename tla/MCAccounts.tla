----------------------------- MODULE MCAccounts -----------------------------
(* A small instance of Accounts for TLC. *)
EXTENDS Accounts, TLC

CONSTANTS u1, a1, a2, i1, i2, r1, r2, op

OneUser == {u1}
TwoAccounts == {a1, a2}
TwoIds == {i1, i2}
TwoAndConsole == {r1, r2, op}
Operator == {op}

Symmetric ==
    Permutations(Accounts) \cup Permutations(Ids)
        \cup Permutations(Requests \ Consoles)
=============================================================================
