------------------------------- MODULE Preview -------------------------------
(***************************************************************************)
(* How one row of a preview is computed, and what becomes of its memo: the  *)
(* rate of its day (src/app/rates.py), the amount and the memos             *)
(* (src/app/convert.py), the way through the browser's form and back, and   *)
(* what YNAB stores.  ConversionApply takes all of this as one step.        *)
(*                                                                         *)
(* A memo is a sequence of characters: "a" and "w" stand for those of one   *)
(* and of two bytes, "n" is a newline and "r" a carriage return, "~" the    *)
(* sign before an equivalent, "#" an amount and "(" ")" the FX rate marker.  *)
(***************************************************************************)
EXTENDS Integers, FiniteSets, Sequences, SequencesExt

CONSTANTS
    Cases,        \* [memo, amount, from, to, day, others, quotes, unit]
    Raw,          \* what users type into a rate field
    ZeroDecimal,  \* ZERO_DECIMAL_CURRENCIES
    MemoMax,      \* MEMO_MAX, and YNAB's limit
    Lookback,     \* LOOKBACK_DAYS
    MaxOverride,  \* _MAX_OVERRIDE_RATE
    One,          \* a rate of 1: rates are whole numbers of 1/One
    NoRate,       \* nothing is quoted on a day
    NoRow         \* there is no row

\* The characters of memos, and of what is sent of them.
Chars == {"a", "w", "n", " ", "~", "#", "(", ")", "[", "]"}
SentChars == Chars \cup {"r"}

ASSUME RateAssumption ==
    /\ One \in Nat \ {0} /\ MaxOverride \in Nat
    /\ Lookback \in Nat /\ NoRate \notin Int
ASSUME RawAssumption == Raw \subseteq Int
ASSUME CaseAssumption ==
    \A c \in Cases :
        /\ c.memo \in Seq(Chars) /\ c.amount \in Int
        /\ c.day \in Int /\ c.others \subseteq Int /\ IsFiniteSet(c.others)
        /\ \A d \in DOMAIN c.quotes : c.quotes[d] \in Int \cup {NoRate}

VARIABLES
    case,     \* the transaction and its conversion as they were at first
    memo,     \* its memo in YNAB
    amount,   \* and its amount, in milliunits
    phase,    \* "fetched", "shown", "failed" or "excluded"
    row,      \* the row shown
    written   \* history: how the transaction has been applied, if it has

vars == <<case, memo, amount, phase, row, written>>

Abs(n) == IF n < 0 THEN -n ELSE n

-----------------------------------------------------------------------------
(* Amounts *)

\* Milliunits in a currency's minor unit.
Quantum(currency) == IF currency \in ZeroDecimal THEN 1000 ELSE 10

\* Mutant: ties go up.
RoundTiesUp(n, d) == (2 * n + d) \div (2 * d)
\* n / d, as quantize(ROUND_HALF_UP) rounds it.
RoundHalfUp(n, d) ==
    IF n < 0 THEN -((2 * (-n) + d) \div (2 * d)) ELSE (2 * n + d) \div (2 * d)

Converted(milliunits, rate, to) ==
    RoundHalfUp(milliunits * rate, One * Quantum(to)) * Quantum(to)
Equivalent(milliunits, rate, from) ==
    RoundHalfUp(milliunits * One, rate * Quantum(from)) * Quantum(from)

-----------------------------------------------------------------------------
(* Memos *)

Bytes(char) == CASE char = "w" -> 2 [] char = "~" -> 3 [] OTHER -> 1
Encode(text) ==
    FlattenSeq([i \in DOMAIN text |-> [b \in 1..Bytes(text[i]) |-> <<text[i], b>>]])
\* A character that is not whole is ignored.
Decode(bytes) ==
    FlattenSeq([i \in DOMAIN bytes |->
                   IF bytes[i][2] = Bytes(bytes[i][1]) THEN <<bytes[i][1]>> ELSE <<>>])
Length(text) == Len(Encode(text))

\* A cut in characters; also a mutant of the next.
TruncateChars(text, max) == IF Len(text) <= max THEN text ELSE SubSeq(text, 1, max)
TruncateBytes(text, max) ==
    IF Length(text) <= max THEN text ELSE Decode(SubSeq(Encode(text), 1, max))

RStrip(text) ==
    LET kept == {i \in DOMAIN text : text[i] \notin {" ", "n"}} IN
    SubSeq(text, 1, IF kept = {} THEN 0 ELSE CHOOSE i \in kept : \A j \in kept : j <= i)

\* _append_marker: text gives way to the marker.
AppendMarker(old, marker) ==
    LET room == MemoMax - Length(marker) - 1
        kept == IF Length(old) > room THEN RStrip(TruncateBytes(old, room)) ELSE old IN
    IF old = <<>> \/ room <= 0 THEN TruncateBytes(marker, MemoMax)
    ELSE IF kept = <<>> THEN marker
    ELSE kept \o <<" ">> \o marker

Actions == {"convert", "already", "skip"}
Marker(action) ==
    CASE action = "convert" -> <<"#", "(", ")">>
      [] action = "already" -> <<"~", " ", "#", "(", ")">>
      [] action = "skip"    -> <<"[", "]">>

\* A marker and a space do not fill the field.
ASSUME MemoAssumption ==
    MemoMax \in Nat /\ \A a \in Actions : Length(Marker(a)) < MemoMax

Holds(text, found) ==
    \E i \in 1..(Len(text) - Len(found) + 1) :
        SubSeq(text, i, i + Len(found) - 1) = found
IsMarked(text) == Holds(text, <<"(", ")">>) \/ Holds(text, <<"[", "]">>)

\* What a browser sends of a hidden field, and what the server takes.
Sent(text) == FlattenSeq([i \in DOMAIN text |->
                            IF text[i] = "n" THEN <<"r", "n">> ELSE <<text[i]>>])
\* Mutant: the newlines stay as they are sent.
MemoAsSent(text) == TruncateChars(text, MemoMax)
MemoFromForm(text) ==
    TruncateChars(FlattenSeq([i \in DOMAIN text |->
                                 IF text[i] = "r" THEN <<>> ELSE <<text[i]>>]), MemoMax)

\* YNAB keeps MemoMax bytes or characters: the code allows for both.
Stored(text) ==
    IF case.unit = "bytes" THEN TruncateBytes(text, MemoMax)
                           ELSE TruncateChars(text, MemoMax)

-----------------------------------------------------------------------------
(* Rates *)

\* The days whose rates are needed, and the first and the last of them.
Pending == {case.day} \cup case.others
Earliest == CHOOSE d \in Pending : \A e \in Pending : d <= e
Latest == CHOOSE d \in Pending : \A e \in Pending : d >= e

\* Mutant: only the days of the transactions are asked for.
QuotesOfTheDays(d) ==
    IF d \in DOMAIN case.quotes /\ Earliest <= d /\ d <= Latest
    THEN case.quotes[d] ELSE NoRate
\* get_rates: the quotes asked for.
Fetched(d) ==
    IF d \in DOMAIN case.quotes /\ Earliest - Lookback <= d /\ d <= Latest
    THEN case.quotes[d] ELSE NoRate

\* Mutant: the days after are looked at.
RateForLater(day) ==
    LET look[i \in 0..(Lookback + 1)] ==
            IF i = Lookback + 1 THEN NoRate
            ELSE IF Fetched(day + i) # NoRate THEN Fetched(day + i)
            ELSE look[i + 1]
    IN IF case.from = case.to THEN One ELSE look[0]
\* rate_for: the rate of the day or of one before.
RateFor(day) ==
    LET look[i \in 0..(Lookback + 1)] ==
            IF i = Lookback + 1 THEN NoRate
            ELSE IF Fetched(day - i) # NoRate THEN Fetched(day - i)
            ELSE look[i + 1]
    IN IF case.from = case.to THEN One ELSE look[0]

\* A rate that is not positive stands for every one that is refused.
IsRate(rate) == rate # NoRate /\ rate \in Nat \ {0}

\* _parse_rate_overrides: the override typed, if it is one.
Override(raw) == IF 0 < raw /\ raw < MaxOverride THEN raw ELSE NoRate

-----------------------------------------------------------------------------
Row(override) ==
    LET rate == IF override # NoRate THEN override ELSE RateFor(case.day) IN
    [rate |-> rate,
     market |-> override = NoRate,
     amount |-> Converted(amount, rate, case.to),
     equivalent |-> Equivalent(amount, rate, case.from),
     memos |-> [a \in Actions |-> AppendMarker(memo, Marker(a))]]

Init ==
    /\ case \in Cases
    /\ memo = case.memo /\ amount = case.amount
    /\ phase = "fetched"
    /\ row = NoRow
    /\ written = "no"

IsConvertible == amount # 0 /\ ~IsMarked(memo)

\* The transaction is proposed, unless it is excluded or a rate is missing: a
\* rate of any of the days.
Compute(override) ==
    IF ~IsConvertible THEN phase' = "excluded" /\ row' = NoRow
    ELSE IF \A d \in Pending : IsRate(RateFor(d))
    THEN phase' = "shown" /\ row' = Row(override)
    ELSE phase' = "failed" /\ row' = NoRow

Show ==
    /\ phase = "fetched"
    /\ Compute(NoRate)
    /\ UNCHANGED <<case, memo, amount, written>>

\* "Recompute with my rates".
Recompute(raw) ==
    /\ phase = "shown"
    /\ Compute(Override(raw))
    /\ UNCHANGED <<case, memo, amount, written>>

\* The row is applied, and the transaction fetched for the next preview.
Apply(action) ==
    /\ phase = "shown"
    /\ memo' = Stored(MemoFromForm(Sent(row.memos[action])))
    /\ amount' = IF action = "convert" THEN row.amount ELSE amount
    /\ phase' = "fetched"
    /\ row' = NoRow
    /\ written' = action
    /\ UNCHANGED case

Next ==
    \/ Show
    \/ \E raw \in Raw : Recompute(raw)
    \/ \E action \in Actions : Apply(action)

Spec == Init /\ [][Next]_vars

-----------------------------------------------------------------------------
(* Properties *)

TypeOK ==
    /\ memo \in Seq(Chars)
    /\ amount \in Int
    /\ phase \in {"fetched", "shown", "failed", "excluded"}
    /\ row = NoRow \/ (row.rate \in Nat \ {0} /\ row.amount \in Int)
    /\ written \in Actions \cup {"no"}

\* A transaction that has been applied carries its whole marker, whatever was
\* in its memo and whether YNAB counts bytes or characters, and is not proposed
\* again (_append_marker, _memo_from_form).
MarkerSurvives == written # "no" => IsMarked(memo) /\ phase # "shown"

\* Of the old memo what is kept is all of it, or as many characters as fit in
\* bytes before the marker; none is split and no marker is kept by dropping
\* text there is room for (_truncate_bytes, _append_marker).
KeepsWhatFits ==
    written # "no" =>
        LET marker == Marker(written)
            room == MemoMax - Length(marker) - 1
            fits(n) == Length(SubSeq(case.memo, 1, n)) <= room
            old == case.memo IN
        \E n \in 0..Len(old) :
            /\ fits(n)
            /\ n < Len(old) => ~fits(n + 1)
            /\ LET kept == IF n < Len(old) THEN RStrip(SubSeq(old, 1, n)) ELSE old IN
               memo = IF kept = <<>> THEN marker ELSE kept \o <<" ">> \o marker

\* The days to look at for a rate, in all that was ever quoted.
QuotedBefore(day) ==
    {d \in (day - Lookback)..day : d \in DOMAIN case.quotes /\ case.quotes[d] # NoRate}

\* A market rate is the last one quoted up to the transaction's day, although
\* only a window of quotes is fetched, for all the days at once (get_rates,
\* rate_for).
RateIsOfTheDay ==
    (phase = "shown" /\ row.market /\ case.from # case.to) =>
        \E d \in QuotedBefore(case.day) :
            /\ \A e \in QuotedBefore(case.day) : e <= d
            /\ row.rate = case.quotes[d]

\* A preview fails for want of a rate only if some day has none, or one that
\* is refused (rate_for, get_rates).
FailsOnlyUnquoted ==
    phase = "failed" =>
        \E p \in Pending :
            \A d \in QuotedBefore(p) :
                (\A e \in QuotedBefore(p) : e <= d) => case.quotes[d] <= 0

\* q is the whole number nearest to n / d, and of two the one away from zero.
IsNearest(q, n, d) ==
    /\ 2 * Abs(n - q * d) <= d
    /\ 2 * Abs(n - q * d) = d => Abs(q * d) > Abs(n)

\* What is written, and the equivalent an "already" memo records, are the exact
\* amounts to the nearest minor unit, for refunds as for payments: no
\* amount drifts upwards (convert_milliunits, equivalent_milliunits).
AmountsAreNearest ==
    row # NoRow =>
        LET to == Quantum(case.to)
            from == Quantum(case.from) IN
        /\ row.amount % to = 0
        /\ IsNearest(row.amount \div to, amount * row.rate, One * to)
        /\ row.equivalent % from = 0
        /\ IsNearest(row.equivalent \div from, amount * One, row.rate * from)
===============================================================================
