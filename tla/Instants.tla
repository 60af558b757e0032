------------------------------ MODULE Instants ------------------------------
(***************************************************************************)
(* The values Duration and DateTime (packages/sqon/src/value).  Each keeps  *)
(* whole seconds and nanoseconds apart; the program applies their           *)
(* constructors and methods one after another.  Beside each value the model *)
(* keeps the number of nanoseconds it stands for, and the properties        *)
(* compare the two.  The ratios of the units are constants, so that TLC can *)
(* use small ones.                                                          *)
(***************************************************************************)
EXTENDS Integers, Sequences

CONSTANTS
    Thousand, Sixty, HoursPerDay, DaysPerWeek, DaysPerYear,  \* the ratios
    Grain,      \* the distance of two doubles near a time in milliseconds, in ns
    MaxSpan,    \* bounds the durations, in nanoseconds
    MaxTime,    \* bounds the times, in nanoseconds
    Amounts     \* the amounts given to constructors

VARIABLES
    span,     \* a Duration
    spanIs,   \* the nanoseconds it stands for
    time,     \* a DateTime
    timeIs    \* the nanoseconds since the epoch it stands for

vars == <<span, spanIs, time, timeIs>>

-----------------------------------------------------------------------------
(* Numbers: a bigint division truncates, Math.floor does not.              *)
Abs(n) == IF n < 0 THEN -n ELSE n
Quot(a, b) == IF (a < 0) = (b < 0) THEN Abs(a) \div Abs(b) ELSE -(Abs(a) \div Abs(b))
Rem(a, b) == a - b * Quot(a, b)

NANOSECOND  == 1
MICROSECOND == Thousand
MILLISECOND == Thousand * MICROSECOND
SECOND      == Thousand * MILLISECOND
MINUTE      == Sixty * SECOND
HOUR        == Sixty * MINUTE
DAY         == HoursPerDay * HOUR
WEEK        == DaysPerWeek * DAY
YEAR        == DaysPerYear * DAY

\* The units, smallest first.
UNITS == <<NANOSECOND, MICROSECOND, MILLISECOND, SECOND, MINUTE, HOUR, DAY, WEEK, YEAR>>

-----------------------------------------------------------------------------
(* Duration.                                                               *)
Parts(sec, ns) == [s |-> sec, ns |-> ns]
Total(v) == v.s * SECOND + v.ns

\* A faulty variant: the carry into the seconds is left out.
DurationUncarried(sec, ns) == Parts(sec, ns)

\* The constructor for a tuple.
Duration(sec, ns) ==
    LET total == sec * SECOND + ns IN Parts(Quot(total, SECOND), Rem(total, SECOND))

OfNanoseconds(n) == Duration(Quot(n, SECOND), Rem(n, SECOND))

\* Duration.milliseconds(n), Duration.weeks(n), ...
OfUnit(n, unit) ==
    IF unit >= SECOND THEN Duration(n * (unit \div SECOND), 0) ELSE OfNanoseconds(n * unit)

\* Duration.parseFloat("<int>.<frac><unit>"): `scale` is ten to the length of frac.
OfFloat(int, frac, scale, unit) ==
    OfNanoseconds(Quot((int * scale + frac) * unit, scale))

AddSpans(a, b) ==
    LET ns == a.ns + b.ns IN
    IF ns >= SECOND THEN Duration(a.s + b.s + 1, ns - SECOND) ELSE Duration(a.s + b.s, ns)

SubSpans(a, b) ==
    LET ns == a.ns - b.ns IN
    IF ns < 0 THEN Duration(a.s - b.s - 1, ns + SECOND) ELSE Duration(a.s - b.s, ns)

Times(a, factor) == OfNanoseconds(Total(a) * factor)
Divided(a, divisor) == OfNanoseconds(Quot(Total(a), divisor))
Ratio(a, b) == Quot(Total(a), Total(b))
Modulo(a, b) == OfNanoseconds(Rem(Total(a), Total(b)))

Compare(a, b) ==
    IF a.s < b.s THEN -1 ELSE IF a.s > b.s THEN 1
    ELSE IF a.ns < b.ns THEN -1 ELSE IF a.ns > b.ns THEN 1 ELSE 0

\* The tuple sent to the server: zeros at its end are left out.
ToCompact(v) ==
    IF v.ns > 0 THEN <<v.s, v.ns>> ELSE IF v.s > 0 THEN <<v.s>> ELSE <<>>

OfCompact(t) == Duration(IF Len(t) > 0 THEN t[1] ELSE 0, IF Len(t) > 1 THEN t[2] ELSE 0)

\* The getters: microseconds to seconds, then minutes to years.
InUnit(v, unit) ==
    IF unit <= SECOND THEN Quot(Total(v), unit) ELSE Quot(v.s, unit \div SECOND)

\* A faulty variant: what a unit took is not taken off.
PickAgain(left, amount, unit) == [left EXCEPT !.out = Append(@, <<amount, unit>>)]

\* One round of the loops of toString.
Pick(left, amount, unit) ==
    [n |-> Rem(left.n, unit), out |-> Append(left.out, <<amount, unit>>)]

\* toString: the greedy parts, from years down to nanoseconds.  A string is
\* the sequence of its parts; no part stands for "0ns".
ToString(v) ==
    LET Round[i \in 0..9] ==
            IF i = 0 THEN [n |-> v.s * SECOND, out |-> <<>>]
            ELSE LET unit   == UNITS[10 - i]
                     before == Round[i - 1]
                     left   == IF i = 7 THEN [before EXCEPT !.n = @ + v.ns] ELSE before
                     amount == Quot(left.n, unit)
                 IN IF amount > 0 THEN Pick(left, amount, unit) ELSE left
    IN Round[9].out

\* parseString: whole seconds and smaller units are summed up apart.
ParseString(parts) ==
    LET Sum[i \in 0..Len(parts)] ==
            IF i = 0 THEN Parts(0, 0)
            ELSE LET amount == parts[i][1]  unit == parts[i][2]  sum == Sum[i - 1]
                 IN IF unit >= SECOND THEN [sum EXCEPT !.s = @ + amount * (unit \div SECOND)]
                    ELSE [sum EXCEPT !.ns = @ + amount * unit]
        all == Sum[Len(parts)]
    IN Parts(all.s + Quot(all.ns, SECOND), Rem(all.ns, SECOND))

-----------------------------------------------------------------------------
(* DateTime.                                                               *)

\* The constructor for a tuple: unlike a Duration's it leaves the sign of
\* the nanoseconds alone.
DateTime(sec, ns) == Parts(sec + Quot(ns, SECOND), Rem(ns, SECOND))

\* The constructor for a Date, of which `ms` are the milliseconds: the
\* seconds are rounded down, the remainder has the sign of `ms`.
OfDate(ms) == Parts(ms \div Thousand, Rem(ms, Thousand) * MILLISECOND)

ToDate(t) == t.s * Thousand + t.ns \div MILLISECOND

OfEpochNanoseconds(n) == DateTime(Quot(n, SECOND), Rem(n, SECOND))
OfEpochUnit(n, unit) ==
    IF unit = SECOND THEN DateTime(n, 0) ELSE OfEpochNanoseconds(n * unit)

\* A faulty variant: the borrow from the seconds is left out.
LaterWithoutCarry(t, s, ns) == Parts(t.s + s, Rem(t.ns + ns, SECOND))

Later(t, s, ns) ==
    IF t.ns + ns >= SECOND THEN DateTime(t.s + s + 1, t.ns + ns - SECOND)
    ELSE DateTime(t.s + s, t.ns + ns)

Earlier(t, s, ns) ==
    IF t.ns - ns < 0 THEN DateTime(t.s - s - 1, t.ns - ns + SECOND)
    ELSE DateTime(t.s - s, t.ns - ns)

\* add and sub take the compact tuple of a duration.
Get(tuple, i) == IF Len(tuple) >= i THEN tuple[i] ELSE 0
AddTime(t, d) == Later(t, Get(ToCompact(d), 1), Get(ToCompact(d), 2))
SubTime(t, d) == Earlier(t, Get(ToCompact(d), 1), Get(ToCompact(d), 2))

Diff(t, other) == OfNanoseconds(Abs(Total(t) - Total(other)))

CompareTimes(a, b) ==
    IF Total(a) < Total(b) THEN -1 ELSE IF Total(a) > Total(b) THEN 1 ELSE 0

\* A double near the present holds milliseconds and a few more bits: the sum
\* of seconds and nanoseconds is rounded, a tie to the even neighbour.
Rounded(ns) ==
    LET low == ns \div Grain
        up  == ns - low * Grain
    IN (IF 2 * up > Grain \/ (2 * up = Grain /\ low % 2 = 1) THEN low + 1 ELSE low) * Grain

\* toISOString: the second comes from the rounded milliseconds, the digits
\* after the point from the nanoseconds.
ToISOString(t) == [second |-> Rounded(Total(t)) \div SECOND, fraction |-> t.ns]

\* parseString for the ISO format.
ParseISO(iso) == Parts(iso.second, iso.fraction)

-----------------------------------------------------------------------------
Init ==
    /\ span = Duration(0, 0) /\ spanIs = 0
    /\ time = DateTime(0, 0) /\ timeIs = 0

NewSpan(v, n) == /\ Abs(n) <= MaxSpan
                 /\ span' = v /\ spanIs' = n
                 /\ UNCHANGED <<time, timeIs>>
NewTime(v, n) == /\ 0 <= n /\ n <= MaxTime
                 /\ time' = v /\ timeIs' = n
                 /\ UNCHANGED <<span, spanIs>>

\* A constructor does not look at the value before: one state is enough.
MakeSpan ==
    /\ spanIs = 0
    /\ \/ \E s, ns \in Amounts \cup {-1} : NewSpan(Duration(s, ns), s * SECOND + ns)
       \/ \E n \in Amounts, i \in 1..9 : NewSpan(OfUnit(n, UNITS[i]), n * UNITS[i])
       \/ \E n, f \in {0, 2, 5}, scale \in {10, 100}, i \in {3, 4} :
            NewSpan(OfFloat(n, f, scale, UNITS[i]), ((n * scale + f) * UNITS[i]) \div scale)
       \/ \E n, m \in Amounts, i, j \in 1..9 :
            NewSpan(ParseString(<<<<n, UNITS[i]>>, <<m, UNITS[j]>>>>),
                    n * UNITS[i] + m * UNITS[j])

CombineSpans ==
    \E n \in Amounts :
        LET other == OfNanoseconds(n) IN
        \/ NewSpan(AddSpans(span, other), spanIs + n)
        \/ NewSpan(SubSpans(span, other), spanIs - n)
        \/ NewSpan(Times(span, n), spanIs * n)
        \/ n # 0 /\ NewSpan(Divided(span, n), Quot(spanIs, n))
        \/ n # 0 /\ NewSpan(Modulo(span, other), Rem(spanIs, n))

\* Times from the epoch on.
MakeTime ==
    /\ timeIs = 0
    /\ \/ \E s, ns \in Amounts : NewTime(DateTime(s, ns), s * SECOND + ns)
       \/ \E ms \in Amounts : NewTime(OfDate(ms), ms * MILLISECOND)
       \/ \E n \in Amounts, i \in 1..4 : NewTime(OfEpochUnit(n, UNITS[i]), n * UNITS[i])

\* A duration below zero has the compact tuple of none: add() and sub() of
\* such a one do nothing.
MoveTime ==
    /\ spanIs >= 0
    /\ \/ NewTime(AddTime(time, span), timeIs + spanIs)
       \/ NewTime(SubTime(time, span), timeIs - spanIs)

Measure ==
    \E n \in Amounts : NewSpan(Diff(time, OfEpochNanoseconds(n)), Abs(timeIs - n))

Next == MakeSpan \/ CombineSpans \/ MakeTime \/ MoveTime \/ Measure

Spec == Init /\ [][Next]_vars

-----------------------------------------------------------------------------
\* After any sequence of operations a duration is the number of nanoseconds
\* that arithmetic says, in the one form whose parts agree in sign, so that
\* equals() and compare(), which look at the parts, mean the numbers; a
\* duration of at least zero survives its wire tuple (duration.ts:61).
SpansAreExact ==
    /\ Total(span) = spanIs
    /\ Abs(span.ns) < SECOND /\ span.s * span.ns >= 0
    /\ \A n \in Amounts : LET other == OfNanoseconds(n) IN
        /\ Compare(span, other) = IF spanIs < n THEN -1 ELSE IF spanIs > n THEN 1 ELSE 0
        /\ n # 0 => Total(Modulo(span, other)) + n * Ratio(span, other) = spanIs
    /\ \A i \in 2..9 : InUnit(span, UNITS[i]) = Quot(spanIs, UNITS[i])
    /\ spanIs >= 0 => OfCompact(ToCompact(span)) = span

\* A duration of at least zero survives its string (duration.ts:179).
SpansReadBack == spanIs >= 0 => ParseString(ToString(span)) = span

\* From the epoch on a time is the instant that arithmetic says, in its one
\* form, whatever it was made of, moved by or compared with (datetime.ts:73).
TimesAreExact ==
    /\ Total(time) = timeIs
    /\ 0 <= time.ns /\ time.ns < SECOND
    /\ Rem(timeIs, MILLISECOND) = 0 => OfDate(ToDate(time)) = time
    /\ \A n \in Amounts :
        LET other == OfEpochNanoseconds(n) IN
        CompareTimes(time, other) = IF timeIs < n THEN -1 ELSE IF timeIs > n THEN 1 ELSE 0

\* "Formats the datetime as an ISO 8601 string", with "nanosecond precision"
\* (datetime.ts:142, 16): the string reads back as the same instant.
ReadsBack == ParseISO(ToISOString(time)) = time
=============================================================================
