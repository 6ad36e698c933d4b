-------------------------------- MODULE Money --------------------------------
(***************************************************************************)
(* Amounts (guidance/model.go): minor units inside, decimal text outside.  *)
(* A decimal is its sign, its whole part and the digits behind the point;  *)
(* whole parts have at most as many digits as WholeLimit - 1.  An amount   *)
(* of a source is a float: here it is counted in tenths of a minor unit.   *)
(***************************************************************************)
EXTENDS Integers, Sequences

CONSTANT WholeLimit    \* 1000000000000

ASSUME MoneyAssumption == WholeLimit \in Nat \ {0}

Digits == 0 .. 9

Text == [negative : BOOLEAN, whole : Nat,
         fraction : {<<>>} \cup {<<d>> : d \in Digits} \cup (Digits \X Digits)]

(* The largest amount Validate lets into a forecast.                       *)
MaxAmount == 100 * WholeLimit

Magnitude(n) == IF n < 0 THEN -n ELSE n

DecimalUnpadded(n) ==
  LET m == Magnitude(n)
  IN [negative |-> n < 0, whole |-> m \div 100,
      fraction |-> IF m % 100 < 10 THEN <<m % 100>> ELSE <<(m % 100) \div 10, m % 10>>]

(* "%d.%02d"                                                               *)
Decimal(n) ==
  LET m == Magnitude(n)
  IN [negative |-> n < 0, whole |-> m \div 100,
      fraction |-> <<(m % 100) \div 10, m % 10>>]

(* The regular expression: one to twelve digits, at most two decimals.     *)
IsMoney(t) == t.whole < WholeLimit

(* One decimal is a number of tens.                                        *)
Cents(f) ==
  CASE Len(f) = 0 -> 0
    [] Len(f) = 1 -> 10 * f[1]
    [] OTHER      -> 10 * f[1] + f[2]

Money(t) ==
  LET n == 100 * t.whole + Cents(t.fraction)
  IN IF t.negative THEN -n ELSE n

(* math.Round rounds halves away from zero; the limit itself is accepted.  *)
IsFloatMinor(x) == Magnitude(x) <= 1000 * WholeLimit

FloatMinor(x) ==
  LET m == (Magnitude(x) + 5) \div 10
  IN IF x < 0 THEN -m ELSE m
=============================================================================
