-------------------------------- MODULE Ledger --------------------------------
(***************************************************************************)
(* What the preview and the apply promise of the transactions of a budget, *)
(* with none of their requests, locks and retries: a transaction is offered *)
(* at the amount it has, and settled at most once, in one step, on the      *)
(* strength of an offer.                                                    *)
(*                                                                         *)
(* Calm says that nobody else writes the transactions between an offer and  *)
(* its settlement: then a settlement finds exactly what was offered.        *)
(* Otherwise it may find an amount typed meanwhile, but it still writes      *)
(* what was offered and never the conversion of a conversion.               *)
(***************************************************************************)
EXTENDS Naturals

CONSTANTS
    Txns,    \* transactions
    Splits,  \* those with subtransactions, which are never offered
    Values,  \* the amounts a user may type
    Calm     \* BOOLEAN, see above

VARIABLES
    st,     \* [Txns -> {"absent", "present", "deleted"}]
    amt,    \* [Txns -> Amounts]
    mark,   \* [Txns -> {"none", "fx", "skip"}]
    offers  \* SUBSET Offers, what some page, request or PATCH still holds

ledgerVars == <<st, amt, mark, offers>>

Amounts == [v : Values, k : Nat]
Offers == [id : Txns, original : Amounts]
Converted(a) == [v |-> a.v, k |-> a.k + 1]

\* The transactions that need the user's attention and can be settled.
Unsettled(t) ==
    st[t] = "present" /\ mark[t] = "none" /\ amt[t].v # 0 /\ t \notin Splits

Init ==
    /\ st \in [Txns -> {"absent", "present"}]
    /\ amt \in [Txns -> [v : Values, k : {0}]]
    /\ mark = [t \in Txns |-> "none"]
    /\ offers = {}

Offer ==
    /\ \A o \in offers' \ offers :
         /\ o \in Offers
         /\ Unsettled(o.id) /\ o.original = amt[o.id]
    /\ UNCHANGED <<st, amt, mark>>

\* One transaction settled: converted, marked as converted, or set aside.
Settled(t) ==
    /\ st[t] = "present"
    /\ \E o \in offers :
         /\ o.id = t
         /\ Calm => Unsettled(t)
         /\ \/ mark'[t] = "skip" /\ amt'[t] = amt[t]
            \/ /\ mark'[t] = "fx"
               /\ Calm => amt[t] = o.original
               /\ amt'[t] \in {amt[t], Converted(o.original)}

Settle ==
    /\ amt' \in [Txns -> Amounts]
    /\ mark' \in [Txns -> {"none", "fx", "skip"}]
    /\ \A t \in Txns :
         Settled(t) \/ (amt'[t] = amt[t] /\ mark'[t] = mark[t])
    /\ offers' \subseteq offers
    /\ UNCHANGED st

\* The user in YNAB, and the bank import.
Type(t) ==
    /\ st[t] = "present"
    /\ \E v \in Values : amt' = [amt EXCEPT ![t] = [v |-> v, k |-> 0]]
    /\ UNCHANGED <<st, mark, offers>>

Mark(t) ==
    /\ st[t] = "present"
    /\ mark[t] = "none"
    /\ \E m \in {"fx", "skip"} : mark' = [mark EXCEPT ![t] = m]
    /\ UNCHANGED <<st, amt, offers>>

Move(t) ==
    /\ \/ st[t] = "absent" /\ st' = [st EXCEPT ![t] = "present"]
       \/ st[t] = "present" /\ st' = [st EXCEPT ![t] = "deleted"]
    /\ UNCHANGED <<amt, mark, offers>>

Next ==
    \/ Offer \/ Settle
    \/ \E t \in Txns : Type(t) \/ Mark(t) \/ Move(t)

Spec == Init /\ [][Next]_ledgerVars
==============================================================================
