-------------------------------- MODULE Words ---------------------------------
(***************************************************************************)
(* The int of the machine that A5 simulates, and of the C it is written    *)
(* in: 32 bits, two's complement, arithmetic that wraps (signed overflow   *)
(* is undefined in C; the builds wrap).  Bit 0 is the lowest.              *)
(***************************************************************************)
EXTENDS Integers, FiniteSets

Bit == {0, 1}
Bits == 0 .. 31
Word == [Bits -> Bit]

Zero == [i \in Bits |-> 0]
Ones == [i \in Bits |-> 1]

-----------------------------------------------------------------------------
(* Between words and numbers.                                              *)

\* n bits from bit lo on, as a number.
Field(w, lo, n) ==
  LET upper[k \in 0 .. n] == IF k = 0 THEN 0 ELSE 2 * upper[k - 1] + w[lo + n - k]
  IN upper[n]

\* The number is halved for each bit; the word of a number of 31 bits is not negative.
Natural(n) ==
  LET half[i \in Bits] == IF i = 0 THEN n ELSE half[i - 1] \div 2
  IN [i \in Bits |-> IF i = 31 THEN 0 ELSE half[i] % 2]
Not(a) == [i \in Bits |-> 1 - a[i]]
OfInt(n) == IF n >= 0 THEN Natural(n) ELSE Not(Natural(- (n + 1)))

IsNegative(a) == a[31] = 1
ToInt(a) == IF IsNegative(a) THEN - Field(Not(a), 0, 31) - 1 ELSE Field(a, 0, 31)

-----------------------------------------------------------------------------
(* Bitwise operations and shifts.                                          *)

And(a, b) == [i \in Bits |-> a[i] * b[i]]
Or(a, b)  == [i \in Bits |-> IF a[i] = b[i] THEN a[i] ELSE 1]
Xor(a, b) == [i \in Bits |-> IF a[i] = b[i] THEN 0 ELSE 1]

ShiftLeft(a, n)         == [i \in Bits |-> IF i >= n THEN a[i - n] ELSE 0]
ShiftRight(a, n)        == [i \in Bits |-> IF i + n <= 31 THEN a[i + n] ELSE 0]
ShiftRightArith(a, n)   == [i \in Bits |-> IF i + n <= 31 THEN a[i + n] ELSE a[31]]

-----------------------------------------------------------------------------
(* Sums and differences.                                                   *)

SumWithCarry(a, b, carryIn) ==
  LET carry[i \in Bits] == IF i = 0 THEN carryIn ELSE (a[i - 1] + b[i - 1] + carry[i - 1]) \div 2
  IN [i \in Bits |-> (a[i] + b[i] + carry[i]) % 2]

Add(a, b) == SumWithCarry(a, b, 0)
Sub(a, b) == SumWithCarry(a, Not(b), 1)
Plus(a, n) == Add(a, Natural(n))

\* Smaller as unsigned numbers: by the highest bit in which they differ.
Below(a, b) == \E i \in Bits : /\ a[i] < b[i]
                               /\ \A j \in i + 1 .. 31 : a[j] = b[j]
Less(a, b) == IF a[31] # b[31] THEN IsNegative(a) ELSE Below(a, b)

-----------------------------------------------------------------------------
(* Products, as the columns of long multiplication, and quotients.         *)

\* Bits lo .. lo + 31 of the product of two numbers given by their bits.
ProductFrom(lo, a(_), b(_)) ==
  LET column[k \in 0 .. 63] == Cardinality({i \in 0 .. k : a(i) * b(k - i) = 1})
                               + (IF k = 0 THEN 0 ELSE column[k - 1] \div 2)
  IN [i \in Bits |-> column[lo + i] % 2]

Signed(a, i)   == IF i <= 31 THEN a[i] ELSE a[31]
Unsigned(a, i) == IF i <= 31 THEN a[i] ELSE 0

Product(a, b) == ProductFrom(0, LAMBDA i : Unsigned(a, i), LAMBDA i : Unsigned(b, i))
HighOfSigned(a, b) == ProductFrom(32, LAMBDA i : Signed(a, i), LAMBDA i : Signed(b, i))
HighOfMixed(a, b) == ProductFrom(32, LAMBDA i : Signed(a, i), LAMBDA i : Unsigned(b, i))
HighOfUnsigned(a, b) == ProductFrom(32, LAMBDA i : Unsigned(a, i), LAMBDA i : Unsigned(b, i))

\* Unsigned division, for b # Zero: half of a is divided as a number, then its lowest bit is
\* brought down, without leaving the range of d.
Quotient(a, b) ==
  LET half == Field(a, 1, 31)  d == Field(b, 0, 31)  h == half % d
      last == IF h + a[0] >= d - h THEN 1 ELSE 0
  IN IF IsNegative(b) THEN (IF Below(a, b) THEN Zero ELSE Natural(1))
     ELSE [i \in Bits |-> IF i = 0 THEN last ELSE Natural(half \div d)[i - 1]]

Remainder(a, b) ==
  LET d == Field(b, 0, 31)  h == Field(a, 1, 31) % d
  IN IF IsNegative(b) THEN (IF Below(a, b) THEN a ELSE Sub(a, b))
     ELSE Natural(IF h + a[0] >= d - h THEN h - (d - h) + a[0] ELSE 2 * h + a[0])

\* Signed division towards zero, for b # Zero; -2^31 by -1 is left to those who divide.
Lowest == [i \in Bits |-> IF i = 31 THEN 1 ELSE 0]
SignedQuotient(a, b) ==
  LET x == ToInt(a)
      d == IF IsNegative(b) THEN - ToInt(b) ELSE ToInt(b)
      q == (x \div d) + (IF x < 0 /\ x % d # 0 THEN 1 ELSE 0)
  IN IF b = Lowest THEN (IF a = Lowest THEN Natural(1) ELSE Zero)
     ELSE OfInt(IF IsNegative(b) THEN - q ELSE q)
SignedRemainder(a, b) ==
  LET x == ToInt(a)
      d == IF IsNegative(b) THEN - ToInt(b) ELSE ToInt(b)
  IN IF b = Lowest THEN (IF a = Lowest THEN Zero ELSE a)
     ELSE OfInt((x % d) - (IF x < 0 /\ x % d # 0 THEN d ELSE 0))
=============================================================================
