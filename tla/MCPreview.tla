------------------------------ MODULE MCPreview ------------------------------
(* A small instance of Preview for TLC. *)
EXTENDS Preview

Plain == [memo |-> <<"a">>, amount |-> -1000, from |-> "EUR", to |-> "USD",
          day |-> 3, others |-> {}, quotes |-> [d \in {3} |-> 150], unit |-> "bytes"]

SomeRaw == {-1, 0, 70, 1000}

\* Every memo of up to 8 characters, in what YNAB can hold.
Memos == UNION {[1..n -> {"a", "w", "n"}] : n \in 0..8}
MemoCases ==
    {[Plain EXCEPT !.memo = m, !.unit = u] : m \in Memos, u \in {"bytes", "chars"}}

\* Quotes on some of four days, with one refused; two transactions at most.
Quotes == [1..4 -> {NoRate, 0, 50, 150}]
RateCases ==
    {[Plain EXCEPT !.quotes = q, !.day = d, !.others = o] :
        q \in Quotes, d \in 2..4, o \in {{}, {1}, {2}, {4}}}
    \cup {[Plain EXCEPT !.quotes = q, !.to = "EUR"] : q \in Quotes}

\* Ties, signs and currencies with and without cents.
AmountCases ==
    {[Plain EXCEPT !.amount = a, !.from = f, !.to = t, !.quotes = 3 :> r] :
        a \in {-1500, -1000, -500, -35, -30, -10, -5, -1, 0, 5, 15, 333, 500, 1005, 2500},
        f \in {"EUR", "JPY"}, t \in {"USD", "KRW"}, r \in {1, 33, 50, 100, 150}}

SomeCases == MemoCases \cup RateCases \cup AmountCases
===============================================================================
