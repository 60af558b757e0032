------------------------------ MODULE Decimals ------------------------------
(***************************************************************************)
(* The value Decimal (packages/sqon/src/value/decimal.ts): a whole part and *)
(* a fraction, each with the sign of the number, and a scale, the number of *)
(* digits of the fraction.  The program builds decimals and combines them.  *)
(* Beside the value the model keeps the number it stands for, as a          *)
(* numerator over a power of the radix; and, where the constructors take    *)
(* what they do not read as that number, what there is to doubt:            *)
(*   "value"  the decimal is another number, and that number is forgotten;  *)
(*   "parts"  it is the number, but its parts differ in sign or its         *)
(*            fraction is one and more.                                     *)
(***************************************************************************)
EXTENDS Integers, Sequences

CONSTANTS
    Radix,        \* ten in the code; even, so that a half has no remainder
    TargetScale,  \* the scale of a quotient, 38 in the code
    MaxNum,       \* bounds the numerators
    MaxScale      \* bounds the scales

VARIABLES
    dec,   \* a Decimal
    num,   \* the numerator of the number it stands for,
    over,  \* and the exponent of its denominator
    doubt  \* "none", "value" or "parts"

vars == <<dec, num, over, doubt>>

-----------------------------------------------------------------------------
Abs(n) == IF n < 0 THEN -n ELSE n
Quot(a, b) == IF (a < 0) = (b < 0) THEN Abs(a) \div Abs(b) ELSE -(Abs(a) \div Abs(b))
Rem(a, b) == a - b * Quot(a, b)
Larger(a, b) == IF a >= b THEN a ELSE b
Pow(n) == LET pow[i \in 0..n] == IF i = 0 THEN 1 ELSE Radix * pow[i - 1] IN pow[n]

Decimal(int, frac, scale) == [int |-> int, frac |-> frac, scale |-> scale]

\* The constructor for a tuple: a fraction of one and more is carried, one
\* of minus one and less is not.
OfTuple(int, frac, scale) ==
    IF frac >= Pow(scale)
    THEN Decimal(int + frac \div Pow(scale), frac % Pow(scale), scale)
    ELSE Decimal(int, frac, scale)

OfBigInt(n) == Decimal(n, 0, 0)

\* toBigIntWithScale
ValueOf(d) == d.int * Pow(d.scale) + d.frac

\* A faulty variant: the remainder is the floored one, never negative.
SplitFloored(value, scale) == Decimal(value \div Pow(scale), value % Pow(scale), scale)

Split(value, scale) ==
    OfTuple(Quot(value, Pow(scale)), Rem(value, Pow(scale)), scale)

\* A faulty variant: the operand of smaller scale is not scaled up.
Unaligned(d, scale) == ValueOf(d)

Aligned(d, scale) == ValueOf(d) * Pow(scale - d.scale)

Add(a, b) == LET s == Larger(a.scale, b.scale) IN Split(Aligned(a, s) + Aligned(b, s), s)
Sub(a, b) == LET s == Larger(a.scale, b.scale) IN Split(Aligned(a, s) - Aligned(b, s), s)
Mul(a, b) == Split(ValueOf(a) * ValueOf(b), a.scale + b.scale)
Mod(a, b) == LET s == Larger(a.scale, b.scale) IN Split(Rem(Aligned(a, s), Aligned(b, s)), s)

\* A quotient has the target scale.  The power is negative, and its bigint
\* operation throws, when the dividend has more digits than that.
CanDivide(a, b) == ValueOf(b) # 0 /\ a.scale <= TargetScale + b.scale
Div(a, b) ==
    Split(Quot(ValueOf(a) * Pow(TargetScale + b.scale - a.scale), ValueOf(b)), TargetScale)

IsNegative(d) == d.int < 0 \/ (d.int = 0 /\ d.frac < 0)
IsZero(d) == d.int = 0 /\ d.frac = 0
Negated(d) == OfTuple(-d.int, -d.frac, d.scale)
AbsOf(d) == IF d.int < 0 \/ d.frac < 0 THEN OfTuple(Abs(d.int), Abs(d.frac), d.scale) ELSE d

Compare(a, b) ==
    LET s == Larger(a.scale, b.scale) IN
    IF Aligned(a, s) < Aligned(b, s) THEN -1 ELSE IF Aligned(a, s) > Aligned(b, s) THEN 1 ELSE 0

\* A half is rounded away from zero.
Round(d, precision) ==
    IF d.scale <= precision
    THEN Split(ValueOf(d) * Pow(precision - d.scale), precision)
    ELSE LET factor == Pow(d.scale - precision)
             half   == IF ValueOf(d) >= 0 THEN factor \div 2 ELSE -(factor \div 2)
         IN Split(Quot(ValueOf(d) + half, factor), precision)

ToBigInt(d) == IF d.int < 0 /\ d.frac # 0 THEN d.int - 1 ELSE d.int

\* The parts agree in sign, and the fraction is below one.
OfOneSign(d) == (d.int >= 0 /\ d.frac >= 0) \/ (d.int <= 0 /\ d.frac <= 0)
InForm(d) == Abs(d.frac) < Pow(d.scale) /\ OfOneSign(d)

-----------------------------------------------------------------------------
(* Strings: a sign and the digits before and after the point.              *)

Digits(n) ==
    LET D[k \in 0..n] == IF k < Radix THEN <<k>> ELSE Append(D[k \div Radix], k % Radix)
    IN D[n]

NumberOf(ds) ==
    LET N[i \in 0..Len(ds)] == IF i = 0 THEN 0 ELSE N[i - 1] * Radix + ds[i] IN N[Len(ds)]

Zeros(n) == [i \in 1..n |-> 0]
PadStart(ds, n) == Zeros(Larger(n - Len(ds), 0)) \o ds

\* Zeros at the end, and at the start, are taken off.
TrimEnd(ds) ==
    SubSeq(ds, 1, CHOOSE k \in 0..Len(ds) :
                    /\ \A i \in (k + 1)..Len(ds) : ds[i] = 0
                    /\ k > 0 => ds[k] # 0)
TrimStart(ds) ==
    SubSeq(ds, CHOOSE k \in 1..(Len(ds) + 1) :
                    /\ \A i \in 1..(k - 1) : ds[i] = 0
                    /\ k <= Len(ds) => ds[k] # 0, Len(ds))

Text(neg, int, frac) == [neg |-> neg, int |-> int, frac |-> frac]

\* A faulty variant: zeros between the point and the digits are lost.
FractionUnpadded(d) == Digits(Abs(d.frac))

Fraction(d) == PadStart(Digits(Abs(d.frac)), d.scale)

ToString(d) ==
    Text(d.int < 0 \/ d.frac < 0, Digits(Abs(d.int)),
         IF d.scale = 0 THEN <<>> ELSE TrimEnd(Fraction(d)))

\* The constructor for a string without an exponent, and for a number that
\* prints without one: no fraction counts as one digit, a zero.
OfString(t) ==
    LET sign == IF t.neg THEN -1 ELSE 1 IN
    Decimal(sign * NumberOf(t.int), sign * NumberOf(t.frac), Larger(Len(t.frac), 1))

ToFixed(d, precision) ==
    LET r == Round(d, precision) IN
    Text(r.int < 0 \/ r.frac < 0, Digits(Abs(r.int)),
         IF precision = 0 THEN <<>> ELSE PadStart(Digits(Abs(r.frac)), precision))

Scientific(neg, int, frac, exp) == [neg |-> neg, int |-> int, frac |-> frac, exp |-> exp]

\* The constructor for a number that prints with an exponent.  Only strings
\* are looked through for one: here the exponent belongs to the digits next to
\* it, which are no number and count as one zero.
OfNumber(x) ==
    Decimal(IF x.frac = <<>> THEN 0 ELSE (IF x.neg THEN -1 ELSE 1) * NumberOf(x.int), 0, 1)

ToScientific(d) ==
    LET t      == ToString(IF IsNegative(d) THEN Negated(d) ELSE d)
        raw    == TrimStart(t.int \o t.frac)
        digits == TrimEnd(raw)
        exp    == IF t.int # <<0>> THEN Len(t.int) - 1
                  ELSE -(Len(t.frac) - Len(TrimStart(t.frac))) - 1
    IN IF IsZero(d) THEN Scientific(FALSE, <<0>>, <<>>, 0)
       ELSE Scientific(IsNegative(d), SubSeq(digits, 1, 1),
                       SubSeq(digits, 2, Len(digits)), exp)

\* The point moves by the exponent over the digits, of which the zeros in
\* front are gone by then.
FromScientificNotation(x) ==
    LET kept   == TrimStart(x.int \o x.frac)
        digits == IF kept = <<>> THEN <<0>> ELSE kept
        point  == Len(x.int) + x.exp
    IN OfString(
        IF point <= 0 THEN Text(x.neg, <<0>>, Zeros(-point) \o digits)
        ELSE IF point >= Len(digits)
        THEN Text(x.neg, digits \o Zeros(point - Len(digits)), <<>>)
        ELSE Text(x.neg, SubSeq(digits, 1, point), SubSeq(digits, point + 1, Len(digits))))

-----------------------------------------------------------------------------
Init == dec = OfBigInt(0) /\ num = 0 /\ over = 0 /\ doubt = "none"

New(d, n, scale, q) ==
    /\ dec' = d /\ doubt' = q
    /\ IF q = "value"
       THEN num' = 0 /\ over' = 0 /\ Abs(ValueOf(d)) <= MaxNum /\ d.scale <= MaxScale
       ELSE num' = n /\ over' = scale /\ Abs(n) <= MaxNum /\ scale <= MaxScale

Few == 0..(Radix - 1)
Strings == UNION {[1..n -> Few] : n \in 1..2}

\* Constructors; they do not look at the value before.
Make ==
    /\ num = 0
    /\ \/ \E n \in -2..2 : New(OfBigInt(n), n, 0, "none")
       \/ \E int \in -2..2, frac \in -(Radix + 1)..(Radix + 1) :
            New(OfTuple(int, frac, 1), int * Radix + frac, 1,
                IF InForm(OfTuple(int, frac, 1)) THEN "none" ELSE "parts")
       \/ \E neg \in BOOLEAN, int, frac \in Strings :
            New(OfString(Text(neg, int, frac)),
                (IF neg THEN -1 ELSE 1) * NumberOf(int \o frac), Len(frac), "none")

\* A numerator and a scale for one digit, a fraction and an exponent.
ScaleOf(frac, exp) == Larger(Len(frac) - exp, 0)
NumeratorOf(first, frac, exp) ==
    NumberOf(<<first>> \o frac) * Pow(ScaleOf(frac, exp) - (Len(frac) - exp))

\* Scientific notation in a string, as toScientific writes it: one digit
\* before the point, and that not a zero.
MakeScientific ==
    /\ num = 0
    /\ \E first \in Few \ {0}, frac \in Strings, exp \in -1..2 :
        New(FromScientificNotation(Scientific(FALSE, <<first>>, frac, exp)),
            NumeratorOf(first, frac, exp), ScaleOf(frac, exp), "none")

\* A number that prints with an exponent is read as another one.
MakeOfNumber ==
    /\ num = 0
    /\ \E frac \in {<<>>, <<2>>}, exp \in {-2, 2} :
        New(OfNumber(Scientific(FALSE, <<1>>, frac, exp)),
            NumeratorOf(1, frac, exp), ScaleOf(frac, exp), "value")

Others == {OfBigInt(3), OfString(Text(TRUE, <<1>>, <<2>>)), OfString(Text(FALSE, <<0>>, <<0, 3>>))}

Combine ==
    \E b \in Others :
        LET s == Larger(over, b.scale)
            m == num * Pow(s - over)
            n == ValueOf(b) * Pow(s - b.scale)
            q == IF doubt = "value" THEN "value" ELSE "none"
        IN \/ New(Add(dec, b), m + n, s, q)
           \/ New(Sub(dec, b), m - n, s, q)
           \/ New(Mul(dec, b), num * ValueOf(b), over + b.scale, q)
           \/ New(Mod(dec, b), Rem(m, n), s, q)
           \/ /\ CanDivide(dec, b)
              /\ New(Div(dec, b), Quot(m * Pow(TargetScale), n), TargetScale, q)

\* The absolute values of two parts that differ in sign are another number.
Change ==
    \/ New(Negated(dec), -num, over, doubt)
    \/ New(AbsOf(dec), Abs(num), over, IF OfOneSign(dec) THEN doubt ELSE "value")

Next == Make \/ MakeScientific \/ MakeOfNumber \/ Combine \/ Change

Spec == Init /\ [][Next]_vars

-----------------------------------------------------------------------------
\* The number of a numerator over a scale is that of a decimal.
Same(d, n, scale) == ValueOf(d) * Pow(scale) = n * Pow(d.scale)

\* After any sequence of operations a decimal is the number that arithmetic
\* says, unless it was made of a number that prints with an exponent or is the
\* abs() of parts that differ in sign: comparisons mean that number, and
\* rounding is off by at most a half.  Arithmetic puts the parts of a tuple in
\* order: from then on the tests, which look at the parts, mean the number, and
\* toBigInt() is off by less than one (decimal.ts:51).
DecimalsAreExact ==
    /\ doubt # "value" =>
         /\ Same(dec, num, over)
         /\ \A b \in Others : LET d == num * Pow(b.scale) - ValueOf(b) * Pow(over) IN
              Compare(dec, b) = IF d < 0 THEN -1 ELSE IF d > 0 THEN 1 ELSE 0
         /\ \A p \in 0..2 :
              2 * Abs(ValueOf(Round(dec, p)) * Pow(over) - num * Pow(p)) <= Pow(over)
    /\ doubt = "none" =>
         /\ InForm(dec)
         /\ IsZero(dec) = (num = 0) /\ IsNegative(dec) = (num < 0)
         /\ Abs(ToBigInt(dec) * Pow(dec.scale) - ValueOf(dec)) < Pow(dec.scale)

\* A decimal survives each of its notations, whatever zeros it has before,
\* around and behind the point, if it is not a tuple whose parts are out of
\* order (decimal.ts:124, 362, 404).
NotationsAreExact ==
    doubt # "parts" =>
        /\ Compare(OfString(ToString(dec)), dec) = 0
        /\ Compare(FromScientificNotation(ToScientific(dec)), dec) = 0
        /\ \A p \in 0..2 : Compare(OfString(ToFixed(dec, p)), Round(dec, p)) = 0

\* "Parses a number in scientific notation": also one that starts with a zero.
ParsesScientific ==
    \A int, frac \in Strings, exp \in 0..1 :
        Same(FromScientificNotation(Scientific(FALSE, int, frac, exp)),
             NumberOf(int \o frac) * Pow(exp), Len(frac))

\* "Constructs a new Decimal from a number or bigint": also one that prints with an
\* exponent (decimal.ts:34).
NumbersAreKept ==
    \A first \in Few \ {0}, frac \in Strings \cup {<<>>}, exp \in -2..2 :
        Same(OfNumber(Scientific(FALSE, <<first>>, frac, exp)),
             NumeratorOf(first, frac, exp), ScaleOf(frac, exp))

\* "The canonical string representation": also of a tuple as it was given
\* (decimal.ts:115).
TuplesAreWritten ==
    \A int \in -2..2, frac \in -(Radix + 1)..(Radix + 1) :
        LET d == OfTuple(int, frac, 1) IN Compare(OfString(ToString(d)), d) = 0

\* "Converts to bigint by truncating the fractional part" (decimal.ts:365).
ToBigIntTruncates ==
    doubt = "none" => ToBigInt(dec) = Quot(ValueOf(dec), Pow(dec.scale))
=============================================================================
