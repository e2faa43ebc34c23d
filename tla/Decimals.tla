------------------------------ MODULE Decimals ------------------------------
(***************************************************************************)
(* ContractingDecimal of contracting/stdlib/bridge/decimal.py: the numbers *)
(* of contracts.  A Python decimal.Decimal is a pair <<c, e>> for c * 10^e *)
(* (decimals that are equal may differ in it), and a Python number carries *)
(* its type, because an operation on a plain Decimal is not the wrapped    *)
(* one.  Of the decimal module only what the source relies on is defined.  *)
(***************************************************************************)
EXTENDS Integers

CONSTANTS
    Upper,          \* MAX_UPPER_PRECISION = 30
    Lower,          \* MAX_LOWER_PRECISION = 30
    Plain,          \* 6: str() writes smaller numbers with an exponent
    ExponentLen     \* the length of that exponent, as in E-31: 3 to 5

(* TLC counts in 32 bits: a quotient needs 2 * (Upper + Lower) digits.     *)
ASSUME DecimalsAssumption ==
    {Upper, Lower} \subseteq Nat \ {0} /\ {Plain, ExponentLen} \subseteq Nat

Prec == Upper + Lower

(* 10^n, in a form that can be unfolded step by step.                      *)
Ten[n \in Nat] == IF n = 0 THEN 1 ELSE 10 * Ten[n - 1]

Size(n) == IF n < 0 THEN -n ELSE n

(* The digits of a whole number.                                           *)
DigitsOf[n \in Nat] == IF n < 10 THEN 1 ELSE 1 + DigitsOf[n \div 10]
Digits(n) == DigitsOf[Size(n)]

(* d at exponent e, where it is at most that of d.                         *)
At(d, e) == d[1] * Ten[d[2] - e]

LowerExponent(x, y) == IF x[2] < y[2] THEN x[2] ELSE y[2]

(* The digits before the point, with which most comparisons are decided.   *)
Leading(d) == Digits(d[1]) + d[2]

Exceeds(x, y) ==
    LET e == LowerExponent(x, y)
    IN  IF (x[1] > 0) # (y[1] > 0) THEN x[1] > 0
        ELSE IF 0 \notin {x[1], y[1]} /\ Leading(x) # Leading(y)
        THEN (Leading(x) > Leading(y)) = (x[1] > 0)
        ELSE At(x, e) > At(y, e)
SameNumber(x, y) == LET e == LowerExponent(x, y) IN At(x, e) = At(y, e)

(* The exact sum.                                                          *)
Plus(x, y) == LET e == LowerExponent(x, y) IN <<At(x, e) + At(y, e), e>>

(* quantize() to exponent e, under ROUND_FLOOR.                            *)
FlooredTo(d, e) ==
    <<IF d[2] >= e THEN At(d, e) ELSE d[1] \div Ten[e - d[2]], e>>

(* What the CONTEXT does with a result: ROUND_FLOOR to Prec digits, which  *)
(* may carry into one more digit.                                          *)
InContext(d) ==
    LET excess(x) == Digits(x[1]) - Prec
        floored(x) == IF excess(x) > 0 THEN FlooredTo(x, x[2] + excess(x)) ELSE x
    IN  floored(floored(d))

(* Without the zeros that end the coefficient, up to exponent e.           *)
StrippedTo(d, e) ==
    LET strips(n) == d[1] % Ten[n] = 0 /\ d[2] + n <= e
        shift == CHOOSE n \in 0..Digits(d[1]) : (n = 0 \/ strips(n)) /\ ~strips(n + 1)
    IN  <<d[1] \div Ten[shift], d[2] + shift>>

Normalized(d) == IF d[1] = 0 THEN <<0, 0>> ELSE StrippedTo(d, 2 * Prec)

-----------------------------------------------------------------------------
(* The operations of decimal.Decimal under CONTEXT.                        *)

Sum(x, y) == InContext(Plus(x, y))

Negated(d) == InContext(<<-d[1], d[2]>>)

Difference(x, y) == LET e == LowerExponent(x, y) IN InContext(<<At(x, e) - At(y, e), e>>)

Product(x, y) == InContext(<<x[1] * y[1], x[2] + y[2]>>)

Raised(n, by) == IF by > 0 THEN n * Ten[by] ELSE n

(* An exact quotient has the exponent x[2] - y[2] where that is enough.    *)
Quotient(x, y) ==
    LET shift == Digits(y[1]) - Digits(x[1]) + Prec + 1
        sign == IF y[1] < 0 THEN -1 ELSE 1
        dividend == Raised(sign * x[1], shift)
        divisor == Raised(sign * y[1], -shift)
        whole == <<dividend \div divisor, x[2] - y[2] - shift>>
    IN  IF x[1] = 0 THEN <<0, x[2] - y[2]>>
        ELSE IF dividend % divisor = 0 THEN InContext(StrippedTo(whole, x[2] - y[2]))
        ELSE InContext(whole)

(* Of a // b and a % b the first is cut off towards zero.                  *)
Ratio(x, y) ==
    LET e == LowerExponent(x, y)
        whole == Size(At(x, e)) \div Size(At(y, e))
    IN  IF (x[1] < 0) = (y[1] < 0) THEN whole ELSE -whole
WholeQuotient(x, y) == <<Ratio(x, y), 0>>
Remainder(x, y) ==
    LET e == LowerExponent(x, y) IN InContext(<<At(x, e) - Ratio(x, y) * At(y, e), e>>)

-----------------------------------------------------------------------------
(* fix_precision.                                                          *)

(* make_max_decimal_str, make_min_decimal_str.                             *)
MaxDecimal == <<Ten[Upper - 1], 0>>
Unit == <<1, -Lower>>

(* The characters after the point of str(d), or 0 without a point.         *)
CharsAfterPoint(d) ==
    IF d[2] <= 0 /\ Digits(d[1]) + d[2] > -Plain THEN -d[2]
    ELSE IF Digits(d[1]) = 1 THEN 0
    ELSE Digits(d[1]) - 1 + ExponentLen

ShouldRound(d) == CharsAfterPoint(d) > Lower - 1

Types == {"int", "Decimal", "ContractingDecimal"}

(* quantize() raises InvalidOperation for more digits than CONTEXT has,    *)
(* which may happen to negative numbers only.                              *)
Quantized(d, e) ==
    LET floored == FlooredTo(d, e)
    IN  IF Digits(floored[1]) > Prec THEN <<"InvalidOperation">>
        ELSE <<"Decimal", Normalized(floored)>>

(* Mutant: one digit too many is cut off.                                  *)
FixPrecisionCoarse(d) ==
    IF Exceeds(d, MaxDecimal) THEN <<"Decimal", MaxDecimal>>
    ELSE IF ShouldRound(d) THEN Quantized(d, 1 - Lower)
    ELSE <<"ContractingDecimal", d>>

(* Mutant: numbers are rounded up.                                         *)
FixPrecisionUp(d) ==
    IF Exceeds(d, MaxDecimal) THEN <<"Decimal", MaxDecimal>>
    ELSE IF ShouldRound(d) THEN Quantized(Plus(d, <<9, -Lower - 1>>), -Lower)
    ELSE <<"ContractingDecimal", d>>

(* In two of three cases the result is no ContractingDecimal.              *)
FixPrecision(d) ==
    IF Exceeds(d, MaxDecimal) THEN <<"Decimal", MaxDecimal>>
    ELSE IF ShouldRound(d) THEN Quantized(d, -Lower)
    ELSE <<"ContractingDecimal", d>>

(* _get_other and the constructor, for an int; a float is the number that  *)
(* it is printed as, which neg_sci_not() writes without its exponent.      *)
FromInt(n) == <<n, 0>>

(* x op y of two Python numbers, not both of them ints: the methods of     *)
(* ContractingDecimal and their reflections.                               *)
Wrapped(x, y, d) ==
    IF "ContractingDecimal" \in {x[1], y[1]} THEN FixPrecision(d) ELSE <<"Decimal", d>>

Add(x, y) == Wrapped(x, y, Sum(x[2], y[2]))
Subtract(x, y) == Wrapped(x, y, Difference(x[2], y[2]))
Multiply(x, y) == Wrapped(x, y, Product(x[2], y[2]))
Divide(x, y) == Wrapped(x, y, Quotient(x[2], y[2]))
FloorDivide(x, y) == Wrapped(x, y, WholeQuotient(x[2], y[2]))
Modulo(x, y) == Wrapped(x, y, Remainder(x[2], y[2]))
(* __neg__ gives a plain Decimal.                                          *)
Negate(x) == <<"Decimal", Negated(x[2])>>
=============================================================================
